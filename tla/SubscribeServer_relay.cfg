SPECIFICATION FairSpec
CONSTANTS
  Workers = {w1, w2}
  Frames <- MCFrames
  Servers = {"subscribe", "publish-subscribe", "stand-alone"}
  DropKey = TRUE
  Snappy = TRUE
  MaxFlaps = 3
  MaxSignals = 1
INVARIANTS
  TypeOK
  CounterExact
PROPERTIES
  RelaySpec
  EventuallyRelayed
  EndsUnlessStuck
CHECK_DEADLOCK FALSE
