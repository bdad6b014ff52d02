SPECIFICATION FairSpec
CONSTANTS
  Pages = {p1, p2}
  InitialBudget = 4
  TopUp = 2
  MaxBudget = 4
  MaxAttempts = 3
  MaxFaults = 2
  FaultKinds = {"CRASH", "FATAL", "UNKNOWN"}
  UserActions = {"CANCEL"}
  PreflightAnswers = {"OK"}
INVARIANTS
  SubmittedUnderHold
  SettlementIsExact
PROPERTIES
  ExecutionSettles
CHECK_DEADLOCK FALSE
