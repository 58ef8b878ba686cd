SPECIFICATION LiveSpec
CONSTANTS
  s1 = s1
  s2 = s2
  s3 = s3
  Subs <- TwoSubs
  Protected <- OneSub
  DefaultCap = 2
  RelayCap = 1
  BatchSize = 1
  MaxClosedRetries = 1
  SendsChallenge = TRUE
  CancelsSubs = TRUE
INVARIANTS
  TypeOK
  NoneForgotten
  NoColdStartRace
PROPERTIES
  EventuallyServed
  WireQuiesces
CONSTRAINT OneStale
