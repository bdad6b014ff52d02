SPECIFICATION Spec
CONSTANTS
  MaxAttempts = 2
  MaxRounds = 1
  MaxReplans = 0
  MaxStages = 0
  Automation = {"SUPERVISED", "BOUNDED_AUTO"}
  Compilers = {"CHAIN_3", "CHAIN_4"}
  UserActions = {"ACCEPT_WITH_OVERRIDE", "APPROVE_BLUEPRINT", "REQUEST_BLUEPRINT_REVISION"}
INVARIANTS
  DeliveredOnlyJudged
PROPERTIES
  HardIssuesOnlyRepaired
CHECK_DEADLOCK FALSE
