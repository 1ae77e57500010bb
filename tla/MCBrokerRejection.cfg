CONSTANTS
  Groups <- OneGroup
  Capacity = 2
  MaxTopic = 2
  MaxRebalances = 0
  MaxRestarts = 0
SPECIFICATION Spec
INVARIANT
  DomainViolationsAreAcked
CHECK_DEADLOCK FALSE
