SPECIFICATION Spec
CONSTANTS
  p1 = p1  p2 = p2  p3 = p3
  Policies = {p1, p2, p3}
  Desireds = {"s1", "s2"}
  Document <- Documents
  DesiredState <- DesiredStates
  Raw <- Addresses
  Normal <- Canonical
  Parts <- PartsOf
  Planes = {"inbox"}
  Runs = {k1, k2}
  From = "info@a"
  Day = 1
  MaxAge = 0
  ProofAge = 1
  Batch = 1
  Blocked = {FALSE}
  MaxClock = 2
  MaxImports = 2
  MaxEvents = 1
  None = None
INVARIANTS NoticesAreNews AllButLastAudited PingMeansCoverage LedgerIsTrue PersonalIdentityIsOwn
SYMMETRY Interchangeable
CHECK_DEADLOCK FALSE
