SPECIFICATION Spec
CONSTANTS
  p1 = p1  p2 = p2
  Deliveries = {d1, d2}
  Operators = {o1, o2}
  Consumers = {}
  Policies = {p1, p2}
  OperatorsOf <- SameOperators
  MaxTries = 1
  MaxChanges = 1
  None = None
INVARIANTS PayloadRetained AcceptedWasRelayed
SYMMETRY Interchangeable
CHECK_DEADLOCK FALSE
