SPECIFICATION LiveSpec
CONSTANTS
  i1 = i1
  i2 = i2
  r1 = r1
  r2 = r2
  x1 = x1
  Ids <- TwoIds
  Relays <- TwoRelays
  Indexers <- OneIndexer
  Listeners <- TwoIds
  Once <- OneId
INVARIANTS
  TypeOK
  EoseAtMostOnce
  HonestAllEose
PROPERTIES
  SilentAfterClose
  EoseEventually
