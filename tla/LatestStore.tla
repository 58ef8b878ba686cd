----------------------------- MODULE LatestStore -----------------------------
(***************************************************************************)
(* What the relay's event table promises, as a reader sees it: one current *)
(* version per replaceable or addressable address, replaced in one step    *)
(* and only by a newer one, and a set of notes that are kept as they are.  *)
(* Either goes away only by a deletion its author has sent, while that is  *)
(* handled.  EventStore implements it with a table and the statements of   *)
(* store_event and handle_deletion.                                        *)
(***************************************************************************)
EXTENDS Naturals

CONSTANTS
  Events,      \* the events clients publish
  Author,      \* per event, its pubkey
  Addresses,   \* <<pubkey, kind>> and <<pubkey, kind, d>> pairs
  Addr,        \* per event, its address, NoAddress for the other kinds
  CreatedAt,   \* per event, its created_at
  Deletions,   \* the kind:5 events
  ByIds,       \* per deletion, the events it names
  ByAddresses, \* per deletion, the addresses it names
  NoAddress,
  NoEvent

VARIABLES
  latest,      \* per address, its current version
  notes,       \* the stored events without an address
  erasing      \* the deletions that are handled

storeVars == <<latest, notes, erasing>>

\* A version replaces an older one.
Newer(e, current) == current = NoEvent \/ CreatedAt[current] < CreatedAt[e]

Put(e) ==
  /\ \/ /\ Addr[e] = NoAddress
        /\ notes' = notes \cup {e}
        /\ UNCHANGED latest
     \/ /\ Addr[e] # NoAddress
        /\ Newer(e, latest[Addr[e]])
        /\ latest' = [latest EXCEPT ![Addr[e]] = e]
        /\ UNCHANGED notes
  /\ UNCHANGED erasing

\* A deletion covers its author's own events: those it names, and the versions
\* of an address it names up to its own time.
Covers(d, e) ==
  /\ Author[d] = Author[e]
  /\ e \in ByIds[d] \/ (Addr[e] \in ByAddresses[d] /\ CreatedAt[e] <= CreatedAt[d])

Delete(e) ==
  /\ \E d \in erasing : Covers(d, e)
  /\ \/ e \in notes /\ notes' = notes \ {e} /\ UNCHANGED latest
     \/ \E a \in Addresses :
          /\ latest[a] = e
          /\ latest' = [latest EXCEPT ![a] = NoEvent]
          /\ UNCHANGED notes
  /\ UNCHANGED erasing

\* A deletion arrives; some are over.
Begin(d) == erasing' = erasing \cup {d} /\ UNCHANGED <<latest, notes>>
Finish == erasing' \in SUBSET erasing /\ UNCHANGED <<latest, notes>>

StoreInit == latest = [a \in Addresses |-> NoEvent] /\ notes = {} /\ erasing = {}
StoreNext ==
  \/ \E e \in Events : Put(e) \/ Delete(e)
  \/ \E d \in Deletions : Begin(d)
  \/ Finish
StoreSpec == StoreInit /\ [][StoreNext]_storeVars
=============================================================================
