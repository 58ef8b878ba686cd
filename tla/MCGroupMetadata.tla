--------------------------- MODULE MCGroupMetadata ---------------------------
(* Model values for checking GroupMetadata with TLC. *)
EXTENDS GroupMetadata, TLC
CONSTANTS c1, c2, alice, bob, n1, n2
TwoConns == {c1, c2}
TwoUsers == {alice, bob}
OneName  == {n1}
TwoNames == {n1, n2}
Swap     == Permutations(Conns) \cup Permutations(Users)
=============================================================================
