SPECIFICATION FairSpec
CONSTANTS
  Frames <- MCFrames
  First <- MCFirst
  Keys <- MCKeys
  Subscribers = {s1}
  HWM = 1
  MaxSignals = 1
INVARIANTS
  TypeOK
  SubscriptionsMatch
  WorkersGetOriginals
PROPERTIES
  RelaySpec
  EndsWithNextMessage
CHECK_DEADLOCK FALSE
