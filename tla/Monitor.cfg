SPECIFICATION Spec
CONSTANTS
  MinSamples = 1
  HistorySize = 3
  PageAlerts = 2
  Metrics = 1
  MaxPackets = 4
  MaxOthers = 1
INVARIANTS
  BootInv
  FlagsAreLogged
  InStep
PROPERTIES
  HeartbeatProcessed
  RequestAnswered
CHECK_DEADLOCK FALSE
