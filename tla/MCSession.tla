------------------------------ MODULE MCSession ------------------------------
(* Model values for checking Session with TLC: two accounts, two wraps for    *)
(* one and one for the other.                                                 *)
EXTENDS Session
CONSTANTS alice, bob, w1, w2, v1

TwoAccounts == {alice, bob}
ThreeWraps == {w1, w2, v1}
Recipient == [w \in Wraps |-> IF w = v1 THEN bob ELSE alice]
=============================================================================
