SPECIFICATION ScoreSpec
CONSTANTS
  Consecutive = 3
  CountCap = 4
  AbsZScore <- MCZScore
  Z_SCALE = 60
  ELEVATED = 25
  CRITICAL = 75
INVARIANTS
  ScoreTypeOK
  CriticalImpliesElevated
  CriticalIsMultiSignal
PROPERTY
  ScoreAlertsFollowPolicy
