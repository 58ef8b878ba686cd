-------------------------- MODULE MCRelayConnection --------------------------
(* Model values for checking RelayConnection with TLC. *)
EXTENDS RelayConnection, TLC
CONSTANTS s1, s2, s3

TwoSubs   == {s1, s2}
ThreeSubs == {s1, s2, s3}
None      == {}
OneSub    == {s1}

\* One batch timer at a time outlives its socket, and one signature is under way.
OneStale == Cardinality(staleBatches) <= 1 /\ Cardinality(signing) <= 1

SubSymmetry == Permutations(Subs)
=============================================================================
