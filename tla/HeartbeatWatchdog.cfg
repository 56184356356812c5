SPECIFICATION WatchdogSpec
CONSTANTS
  Timeout = 5
  Poll = 2
  Jitter = 1
  ClockMod = 13
  MaxSilence = 11
INVARIANTS
  DetectedInTime
  RecoveredInTime
  ResumedMeansHeartbeat
