SPECIFICATION Spec
CONSTANTS
  Writers = {w1, w2}
  Frames <- MCFrames
  BufUnits = 4
  MaxRuns = 2
  MaxReads = 8
  MaxFaults = 0
INVARIANTS
  SentBeforeRemoved
CHECK_DEADLOCK FALSE
