SPECIFICATION FairSpec
CONSTANTS
  Workers = {w1, w2, w3}
  Punctual = {w1, w2}
  Mortal = {w1, w3}
  TTL = 4
  RenewEvery = 1
  MaxDelay = 2
  MaxVersion = 4
INVARIANTS
  TypeOK
  LeaseExcludes
PROPERTIES
  LeaseNeverStolen
  GrantsAreSerialized
  AbandonedRunIsRetaken
