SPECIFICATION Spec
CONSTANTS
  Streamer = {s1, s2, s3}
  NoTask = NoTask
INVARIANTS
  ViewersCounted
  AgreesWhenUndisturbed
PROPERTY
  StreamEnds
