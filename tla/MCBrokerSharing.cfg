CONSTANTS
  Groups <- BothGroups
  Capacity = 1
  MaxTopic = 2
  MaxRebalances = 1
  MaxRestarts = 1
SPECIFICATION SharingSpec
INVARIANT
  WaitersAreOwed
PROPERTY
  EveryCommandIsHandled
CHECK_DEADLOCK FALSE
