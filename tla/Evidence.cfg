SPECIFICATION EvidenceSpec
CONSTANTS
  Desireds = {"s1", "s2"}
  Desired <- States
  Workers = {"mail-router", "outbound"}
  Place <- Places
  Versions = {"v1", "v2"}
  Version <- VersionsOf
  Split = "split"
  Artifacts = {"x", "y"}
  Manifest <- Manifests
  Plain = {"x"}
  LocalPolicy = "p"
  Actives <- ActivePairs
  Options <- AllOptions
  Worlds <- Beginnings
  Volatile <- Fickle
  MaxChanges = 2
  None = None
  Inputs <- Whole
  Others = {o1}
  o1 = o1
  Revised = {1, 3, 6}
  MaxAge = 1
  LastTime = 2
  MaxEdits = 2
  Absent = Absent
  Refused = Refused
INVARIANTS VerifiedWasServing RowsWereTrue ScopeIsHonoured CoverageIsEarned KillsAreSeen
CHECK_DEADLOCK FALSE
