SPECIFICATION Spec
CONSTANTS
  N = 2
  Frames <- MCFrames
  Compress = TRUE
  InprocHWM = 2
  MaxFlaps = 3
  MaxSignals = 1
INVARIANTS
  TypeOK
  CounterExact
  ConnectCoversPipes
  DumpOnlyUnconnected
  Accounted
PROPERTIES
  RelaySpec
CHECK_DEADLOCK FALSE
