SPECIFICATION Spec
CONSTANTS
  s1 = s1
  s2 = s2
  s3 = s3
  Subs <- ThreeSubs
  Protected <- None
  DefaultCap = 2
  RelayCap = 2
  BatchSize = 1
  MaxClosedRetries = 3
  SendsChallenge = FALSE
  CancelsSubs = FALSE
SYMMETRY SubSymmetry
INVARIANTS
  NoZombies
  NeverOverflows
