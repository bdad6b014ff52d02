SPECIFICATION FairSpec
CONSTANTS
  MaxAttempts = 2
  Chains = {"CHAIN_3", "CHAIN_4"}
  MaxCalls = 3
  MaxReplans = 1
  MaxFaults = 1
  MaxDrifts = 1
  UserActions = {"RETRY_PLANNING", "REPLAN", "CANCEL"}
INVARIANTS
  TypeOK AskedOnce ExecutesWhatWasAsked AnswersAreWhole
PROPERTIES
  PlanningEnds
CHECK_DEADLOCK FALSE
