SPECIFICATION FairSpec
CONSTANTS
  Inputs <- MCInputs
  Strings <- MCStrings
  MaxFailures = 2
  MaxSignals = 1
INVARIANTS
  TypeOK
  OptionsMerged
  ReturnsClean
  WorkersReported
PROPERTIES
  StartsOrReturns
CHECK_DEADLOCK FALSE
