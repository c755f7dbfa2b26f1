SPECIFICATION FairSpec
CONSTANTS
  N = 1
  Frames <- MCFrames
  Compress = TRUE
  InprocHWM = 1
  MaxFlaps = 4
  MaxSignals = 1
PROPERTIES
  EventuallyRelayed
  EndsUnlessStuck
CHECK_DEADLOCK FALSE
