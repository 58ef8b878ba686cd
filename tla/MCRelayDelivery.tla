--------------------------- MODULE MCRelayDelivery ---------------------------
(* Model values for checking RelayDelivery with TLC: a chat message of the    *)
(* group and two versions of an unlisted track that names bob.              *)
EXTENDS RelayDelivery, TLC
CONSTANTS c1, c2, alice, bob, track, chat, v1, v2, all, s1, s2

TwoConns   == {c1, c2}
TwoUsers   == {alice, bob}
OneConn    == {c1}
OtherConn  == {c2}
ThreeEvents == {chat, v1, v2}
TwoEvents  == {chat, v1}
Authors    == [e \in Events |-> alice]
Times      == [e \in Events |-> IF e = v2 THEN 2 ELSE 1]
OneAddress == {track}
Address    == [e \in Events |-> IF e = chat THEN NoAddress ELSE track]
Owners     == [a \in OneAddress |-> alice]
None       == {}
NoDeletions == [d \in {} |-> {}]
OneChat    == {chat}
Tracks     == Events \ OneChat
Mentions   == [e \in Events |-> IF e = chat THEN {} ELSE {bob}]
OneFilter  == {all}
MatchAll   == [f \in OneFilter |-> Events]
OneSub     == {s1}
TwoSubs    == {s1, s2}
SwapSubs   == Permutations(TwoSubs)
=============================================================================
