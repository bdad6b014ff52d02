SPECIFICATION FairStreamSpec
CONSTANTS
  Clients = {c1, c2}
  Limit = 2
  MaxEvents = 3
  Starts = {0}
INVARIANT StreamTypeOK
PROPERTIES
  ReadsInOrder EveryEventIsRead
CHECK_DEADLOCK FALSE
