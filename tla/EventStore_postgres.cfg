SPECIFICATION EventsSpec
CONSTANTS
  c1 = c1
  c2 = c2
  c3 = c3
  alice = alice
  bob = bob
  article = article
  v1 = v1
  v2 = v2
  w2 = w2
  v3 = v3
  note = note
  gone = gone
  NoAddress = NoAddress
  NoEvent = NoEvent
  Conns <- TwoConns
  Transactional = FALSE
  Users <- TwoUsers
  Events <- SixEvents
  Author <- Authors
  CreatedAt <- Times
  Addresses <- OneAddress
  Addr <- Address
  Owner <- Owners
  Deletions <- OneGone
  ByIds <- GoneIds
  ByAddresses <- GoneAddresses
PROPERTY
  SupersededByNewer
