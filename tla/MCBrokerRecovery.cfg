CONSTANTS
  Groups <- OneGroup
  Capacity = 2
  MaxTopic = 3
  MaxRebalances = 1
  MaxRestarts = 1
SPECIFICATION FairSpec
INVARIANTS
  TypeOK
  CommitsFollowAcks
  NothingPassedUnhandled
PROPERTIES
  ImplementsAtLeastOnce
  EveryCommandIsHandled
CHECK_DEADLOCK FALSE
