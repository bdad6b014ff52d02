SPECIFICATION Spec
CONSTANTS
  Workers = {w1}
  PageCount = 2
  MaxFaults = 1
  MaxRestarts = 1
INVARIANTS
  TypeOK
  SubmittedOnce
  DeckIsKept
CHECK_DEADLOCK FALSE
