SPECIFICATION Spec
CONSTANTS
  MinDuration = 2
  MinSessions = 2
  Register = 4
  ActiveBits = 2
  LogBase = 5
  ClockMod = 10
  MaxTime = 8
INVARIANTS
  TimeIsTiled
  RegisterInv
