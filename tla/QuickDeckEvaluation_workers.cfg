SPECIFICATION FairSpec
CONSTANTS
  Workers = {w1, w2}
  PageCount = 1
  MaxFaults = 1
  MaxRestarts = 1
PROPERTIES
  EndsAreHonest
  EventuallyCleaned
CHECK_DEADLOCK FALSE
