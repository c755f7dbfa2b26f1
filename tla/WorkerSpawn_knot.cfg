SPECIFICATION FairSpec
CONSTANTS
  N = 2
  Frames <- MCFrames2
  Careless = {}
  MaxSignals = 0
  MaxFailures = 0
PROPERTIES
  EachCommandReturns
CHECK_DEADLOCK FALSE
