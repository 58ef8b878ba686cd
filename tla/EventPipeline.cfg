SPECIFICATION Spec
CONSTANTS
  note = note
  chat = chat
  song = song
  secret = secret
  byAlice = byAlice
  forged = forged
  mod = mod
  gone = gone
  alice = alice
  bob = bob
  carol = carol
  Events <- AllEvents
  Kind <- Kinds
  Author <- Authors
  CreatedAt <- Times
  Tags <- ETags
  AddrTags <- ATags
  Private <- OnlySecret
  Forgettable <- OnlyChat
  Moderators <- OnlyCarol
  SoftCap = 2
  SweepTarget = 1
  MaxBuffer = 2
  PendingCap = 2
  InFlight = 1
CONSTRAINTS
  Apart
  ExpiresAtRest
INVARIANTS
  TypeOK
  DeletedStaysDeleted
  NoCensorship
  SeenIsAccounted
