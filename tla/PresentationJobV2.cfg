SPECIFICATION FairSpec
CONSTANTS
  Jobs = {j1, j2}
  Limit = 1
  Cap = 2
  Bills = {1, 3}
  MaxFaults = 1
INVARIANTS
  TypeOK
  BillsAreTrue
PROPERTIES
  KeepsContract
  EveryJobIsBilled
CHECK_DEADLOCK FALSE
