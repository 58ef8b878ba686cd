---------------------------- MODULE MCCallService ----------------------------
(* Model values for checking CallService with TLC: two calls to alice and to *)
(* bob, and one from alice.                                                  *)
EXTENDS CallService, Naturals, FiniteSets, TLC
CONSTANTS a, b, c, alice, bob, x, y

ThreeCalls == {a, b, c}
TwoOut == {a, b}
TwoCopies == {x, y}
CopySymmetry == Permutations(TwoCopies)
Partners == [r \in Rooms |-> IF r = b THEN bob ELSE alice]

\* Two of the three calls take place, a with one of the others, two functions wait
\* at a time, and two wraps come, with two of the three at once at most.
Bounded ==
  /\ Cardinality(placed) <= 2 /\ ~({b, c} \subseteq placed)
  /\ Cardinality(tasks) <= 2 /\ Cardinality(processed) + Cardinality(tasks) <= 3
=============================================================================
