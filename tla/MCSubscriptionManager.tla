------------------------ MODULE MCSubscriptionManager ------------------------
(* Model values for checking SubscriptionManager with TLC. *)
EXTENDS SubscriptionManager, TLC
CONSTANTS i1, i2, r1, r2, x1

TwoIds    == {i1, i2}
OneId     == {i1}
TwoRelays == {r1, x1}
OneIndexer == {x1}
=============================================================================
