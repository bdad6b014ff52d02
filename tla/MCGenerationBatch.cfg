SPECIFICATION Spec
CONSTANTS
  Pages = {p1, p2}
  InitialBudget = 2
  TopUp = 2
  MaxBudget = 4
  MaxAttempts = 2
  MaxFaults = 2
  FaultKinds = {"CRASH", "FATAL", "UNKNOWN"}
  UserActions = {"PAUSE", "RESUME", "CANCEL", "ADD_BUDGET"}
  PreflightAnswers = {"OK", "UNKNOWN", "REJECTED"}
SYMMETRY Symmetry
INVARIANTS
  TypeOK
  SubmittedOnce
  LedgersAgree
CHECK_DEADLOCK FALSE
