SPECIFICATION FairSpec
CONSTANTS
  N = 2
  Frames <- MCFrames
  Careless = {3}
  MaxSignals = 1
  MaxFailures = 1
INVARIANTS
  TypeOK
  InputMatchesEnviron
  NoEndLeaks
  OneCommandPerThread
PROPERTIES
  CommandReturns
  WorkerEnds
CHECK_DEADLOCK FALSE
