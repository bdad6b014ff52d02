SPECIFICATION Spec
CONSTANTS
  MaxAttempts = 2
  Pages = {p1}
  MaxFailed = 1
  MaxAdmin = 1
  MaxFaults = 2
  FaultKinds = {"CRASH", "LOST", "REJECTED", "REVIEW_REQUIRED", "CAP", "DENIED"}
  UserActions = {"CANCEL","PAUSE","RESUME"}
  AdminActions={"REINSPECT", "MARK_NOT_CHARGED","MARK_CHARGED"}
  Endings = {"completed","refused","failed","unknown"}
INVARIANTS
  TypeOK ReportedInFull
PROPERTIES
  LedgerIsKept
CHECK_DEADLOCK FALSE
