SPECIFICATION FairSpec
CONSTANTS
  N = 1
  Frames <- MCFrames
  Compress = TRUE
  InprocHWM = 1
  MaxFlaps = 1
  MaxSignals = 1
PROPERTIES
  GcEnds
CHECK_DEADLOCK FALSE
