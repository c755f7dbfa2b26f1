SPECIFICATION FairSpec
CONSTANTS
  N = 1
  ClientFrames <- MCClientFrames
  InprocHWM = 1
  Workers = {w1}
  SubscribeFrames <- MCSubscribeFrames
  DropKey = FALSE
  MaxFlaps = 2
  MaxSignals = 1
PROPERTIES
  RelaySpec
  LoopTurns
CHECK_DEADLOCK FALSE
