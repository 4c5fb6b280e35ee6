SPECIFICATION Spec
CONSTANTS
  p1 = p1  p2 = p2
  Deliveries = {d1}
  Operators = {o1, o2}
  Consumers = {c1}
  Policies = {p1, p2}
  OperatorsOf <- SameOperators
  MaxTries = 2
  MaxChanges = 0
  None = None
INVARIANTS ReceiptBeforeRelease
CHECK_DEADLOCK FALSE
