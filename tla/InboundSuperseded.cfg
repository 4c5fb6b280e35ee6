SPECIFICATION FairSpec
CONSTANTS
  p1 = p1  p2 = p2
  Deliveries = {d1, d2}
  Operators = {o1}
  Consumers = {c1}
  Policies = {p1, p2}
  OperatorsOf <- SameOperators
  MaxTries = 1
  MaxChanges = 1
  None = None
INVARIANTS RelayedAtMostOnce RepliesResolve AcknowledgedIsClean
PROPERTIES KeepsInboundPromise CompleteResultIsCleaned
CHECK_DEADLOCK FALSE
