SPECIFICATION Spec
CONSTANTS
  alice = alice
  bob = bob
  w1 = w1
  w2 = w2
  v1 = v1
  Nobody = Nobody
  Nothing = Nothing
  Accounts <- TwoAccounts
  Wraps <- ThreeWraps
  To <- Recipient
  QueueCap = 1
  Workers = {k1}
INVARIANT
  RemovedIsGone
