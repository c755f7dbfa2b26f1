SPECIFICATION FairSpec
CONSTANTS
  N = 3
  MaxFlaps = 2
  MaxSignals = 1
  MaxFailures = 2
INVARIANTS
  TypeOK
  MonitoredFirst
  ProxyLast
PROPERTIES
  StartsOrEnds
CHECK_DEADLOCK FALSE
