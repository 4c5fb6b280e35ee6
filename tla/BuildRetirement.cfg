SPECIFICATION Spec
CONSTANTS
  Payload = {"a", "x"}
  Dotted = {"a"}
  Control = {"ua"}
  Other = {"site"}
  Foreign = {"release"}
  Elsewhere = {"backup"}
  UnitOf <- OneUnit
  Txns = {t1, t2}
  MaxWrites = 2
  MaxChanges = 1
  None = None
SYMMETRY Interchangeable
INVARIANTS RemovedAsAuthorized JournalBrackets ReceiptTruthful AuthoritySpentOnce SurvivorsRequalify
CHECK_DEADLOCK FALSE
