--------------------------- MODULE MCPublishOutbox ---------------------------
(***************************************************************************)
(* Two relays; a profile, a later version of it that goes to one of them only.  *)
(***************************************************************************)
EXTENDS PublishOutbox, TLC

CONSTANTS r1, r2, profile, edited

MCTargets == (profile :> {}) @@ (edited :> {r2})
MCNewer == (profile :> {edited}) @@ (edited :> {})
=============================================================================
