SPECIFICATION FairSpec
CONSTANTS
  Writers = {w1, w2}
  Frames <- MCFrames
  BufUnits = 4
  MaxRuns = 2
  MaxReads = 8
  MaxFaults = 1
INVARIANTS
  TypeOK
  OnceInOrder
  DoneIsKept
  WholeMessages
PROPERTIES
  DumpStops
CHECK_DEADLOCK FALSE
