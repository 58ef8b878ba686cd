SPECIFICATION Spec
CONSTANTS
  a = a
  b = b
  c = c
  alice = alice
  bob = bob
  Nothing = Nothing
  x = x
  y = y
  Copies <- TwoCopies
  Rooms <- ThreeCalls
  Outgoing <- TwoOut
  Partner <- Partners
INVARIANTS
  TypeOK
  HeldByCall
  EndedByOwn
CHECK_DEADLOCK FALSE
CONSTRAINT Bounded
SYMMETRY CopySymmetry
