SPECIFICATION Spec
CONSTANTS
  c1 = c1
  c2 = c2
  alice = alice
  bob = bob
  track = track
  chat = chat
  v1 = v1
  v2 = v2
  all = all
  s1 = s1
  s2 = s2
  NoAddress = NoAddress
  NoEvent = NoEvent
  NoUser = NoUser
  NoSub = NoSub
  Conns <- TwoConns
  Publishers <- OneConn
  Subscribers <- OtherConn
  Transactional = FALSE
  Users <- TwoUsers
  Events <- TwoEvents
  Author <- Authors
  CreatedAt <- Times
  Addresses <- OneAddress
  Addr <- Address
  Owner <- Owners
  Deletions <- None
  ByIds <- NoDeletions
  ByAddresses <- NoDeletions
  Grouped <- OneChat
  Unlisted <- Tracks
  Tagged <- Mentions
  Private = TRUE
  Filters <- OneFilter
  Matches <- MatchAll
  GroupFilters <- OneFilter
  Subs <- TwoSubs
  MaxSubs = 1
  Capacity = 1
  TTL = 1
SYMMETRY SwapSubs
INVARIANTS
  TypeOK
  NoGap
PROPERTIES
  KickedIsCutOff
  JoinedIsServed
