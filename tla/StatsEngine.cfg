SPECIFICATION Spec
CONSTANTS
  Learning = 3
  IntervalClamp = 3
  RateMin = 2
  ClockMod = 16
  MaxTime = 6
  MaxReconnects = 2
  MaxInFlight = 2
  SampleCap = 3
INVARIANTS
  LearningExact
  ReconnectsCountedOnce
  IntervalIsGap
