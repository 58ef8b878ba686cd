SPECIFICATION Spec
CONSTANTS
  c1 = c1
  c2 = c2
  alice = alice
  bob = bob
  n1 = n1
  n2 = n2
  Nothing = Nothing
  Conns <- TwoConns
  Users <- TwoUsers
  Names <- OneName
  Senders <- TwoUsers
  LastSecond = 1
SYMMETRY Swap
INVARIANTS
  TypeOK
  PublishedIsGroup
  AdminsAreMembers
