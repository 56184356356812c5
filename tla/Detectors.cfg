SPECIFICATION Spec
CONSTANTS
  Consecutive = 2
  CountCap = 2
  SpreadMin = 3
  Steady = {"rssi"}
  ProfileMin = 5
  SampleCap = 6
  Pair = {"RSSI_HB_INTERVAL"}
  WindowSize = 4
  PairMin = 4
  TotalCap = 6
INVARIANTS
  SilentAtFirst
  ReadyExact
  GatesAgree
  ScoredPairsHaveSamples
PROPERTY
  AlertsFollowPolicy
