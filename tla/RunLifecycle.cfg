SPECIFICATION Spec
CONSTANTS
  MaxAttempts = 2
  MaxRounds = 1
  MaxReplans = 1
  MaxStages = 1
  Automation = {"SUPERVISED", "BOUNDED_AUTO"}
  Compilers = {"CHAIN_3", "CHAIN_4"}
  UserActions = {"RETRY_PLANNING", "REPLAN", "PAUSE", "RESUME", "CANCEL", "APPROVE_REVISION", "REJECT_REVISION", "SUBMIT_LIMITED_REVISION", "RETRY_DELIVERY"}
INVARIANTS
  TypeOK
  RowsAgree
PROPERTIES
  SuspensionsHold
CHECK_DEADLOCK FALSE
