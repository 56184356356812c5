SPECIFICATION Spec
CONSTANTS
  udp_rx = udp_rx
  hb_watchdog = hb_watchdog
  NoAlert = NoAlert
  Task <- MCTask
  Type <- MCType
  HistorySize = 3
  MaxCount = 7
  MaxClock = 2
INVARIANTS
  TypeOK
  TaskOrder
PROPERTY
  ImplementsLog
