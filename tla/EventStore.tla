------------------------------ MODULE EventStore ------------------------------
(***************************************************************************)
(* How the relay stores what its clients publish (services/relay:           *)
(* handle_event, store_event, handle_deletion), with many connections       *)
(* publishing at once over one database.                                   *)
(*                                                                         *)
(* A connection handles one message at a time, so it has at most one event  *)
(* under way; every statement it awaits is a step.  On Postgres store_event *)
(* is two statements, DELETE and INSERT; on SQLite, one transaction.        *)
(***************************************************************************)
EXTENDS Naturals

CONSTANTS
  Conns,         \* the connections
  Transactional, \* the backend is SQLite, not Postgres
  Users,
  Events,        \* the valid events clients publish
  Author,        \* per event, its pubkey
  CreatedAt,     \* per event, its created_at
  Addresses,     \* what makes a replaceable or addressable event unique
  Addr,          \* per event, its address, NoAddress for the other kinds
  Owner,         \* per address, its pubkey
  Deletions,     \* the kind:5 events
  ByIds,         \* per deletion, the events its e tags name
  ByAddresses,   \* per deletion, the addressable addresses its a tags name
  NoAddress,
  NoEvent

ASSUME EventsAssumption ==
  /\ Author \in [Events -> Users]
  /\ CreatedAt \in [Events -> Nat]
  /\ NoEvent \notin Events
ASSUME AddressAssumption ==
  /\ Addr \in [Events -> Addresses \cup {NoAddress}]
  /\ Owner \in [Addresses -> Users]
  /\ NoAddress \notin Addresses
  /\ \A e \in Events : Addr[e] # NoAddress => Owner[Addr[e]] = Author[e]
ASSUME DeletionsAssumption ==
  /\ Deletions \subseteq Events
  /\ ByIds \in [Deletions -> SUBSET Events]
  /\ ByAddresses \in [Deletions -> SUBSET Addresses]
ASSUME BackendAssumption == Transactional \in BOOLEAN

VARIABLES
  rows,      \* relay.events
  step,      \* per connection, where its handle_event is
  event,     \* per connection, the event it handles
  ids,       \* per connection, the e tags of a deletion not handled yet
  addresses, \* per connection, the a tags not handled yet
  accepted   \* history: the events answered with OK true and not deleted since

taskVars   == <<step, event, ids, addresses>>
eventsVars == <<rows, taskVars, accepted>>

Steps == {"idle", "erase", "store", "insert", "send"}

-----------------------------------------------------------------------------
\* The statements

\* Two events that may not both be in the table: the unique indexes.
SameAddress(e, f) == Addr[e] # NoAddress /\ Addr[e] = Addr[f]

\* Mutant of Older: the DELETE forgets "created_at <".
Older_All(e) == {r \in rows : SameAddress(e, r)}

\* Mutant of Older: "created_at <=".
Older_OrSame(e) == {r \in rows : SameAddress(e, r) /\ CreatedAt[r] <= CreatedAt[e]}

\* What the DELETE of store_event removes.
Older(e) == {r \in rows : SameAddress(e, r) /\ CreatedAt[r] < CreatedAt[e]}

\* Mutant of Conflict: only the primary key, no unique index.
Conflict_IdOnly(table, e) == e \in table

\* The INSERT does nothing (same id) or meets a unique index.
Conflict(table, e) == e \in table \/ \E r \in table : SameAddress(e, r)

\* Removing rows ends what was accepted up to them.
Removed(gone) ==
  /\ rows' = rows \ gone
  /\ accepted' = {e \in accepted \ gone :
                    \A r \in gone : SameAddress(e, r) => CreatedAt[e] > CreatedAt[r]}

\* The INSERT into a table: a new row is broadcast next, anything else is
\* answered as a duplicate.
InsertInto(c, table) ==
  /\ accepted' = accepted \cup {event[c]}
  /\ IF Conflict(table, event[c])
     THEN /\ rows' = table
          /\ step' = [step EXCEPT ![c] = "idle"] /\ event' = [event EXCEPT ![c] = NoEvent]
     ELSE /\ rows' = table \cup {event[c]}
          /\ step' = [step EXCEPT ![c] = "send"] /\ UNCHANGED event

-----------------------------------------------------------------------------
\* handle_event

\* A valid EVENT arrives and is admitted.
Publish(c, e) ==
  /\ step[c] = "idle"
  /\ event' = [event EXCEPT ![c] = e]
  /\ IF e \in Deletions
     THEN /\ step' = [step EXCEPT ![c] = "erase"]
          /\ ids' = [ids EXCEPT ![c] = ByIds[e]]
          /\ addresses' = [addresses EXCEPT ![c] = ByAddresses[e]]
     ELSE /\ step' = [step EXCEPT ![c] = "store"]
          /\ UNCHANGED <<ids, addresses>>
  /\ UNCHANGED <<rows, accepted>>

\* handle_deletion, an e tag: the sender's own event is deleted.
EraseId(c, e) ==
  /\ step[c] = "erase" /\ e \in ids[c]
  /\ ids' = [ids EXCEPT ![c] = @ \ {e}]
  /\ Removed({r \in rows \cap {e} : Author[r] = Author[event[c]]})
  /\ UNCHANGED <<step, event, addresses>>

\* handle_deletion, an a tag: the sender's own version is deleted unless it is
\* newer than the deletion.
EraseAddress(c, a) ==
  /\ step[c] = "erase" /\ a \in addresses[c]
  /\ addresses' = [addresses EXCEPT ![c] = @ \ {a}]
  /\ Removed({r \in rows : /\ Addr[r] = a /\ Owner[a] = Author[event[c]]
                           /\ CreatedAt[r] <= CreatedAt[event[c]]})
  /\ UNCHANGED <<step, event, ids>>

\* Mutant of Erased: the deletion is stored before its tags are handled.
Erased_Early(c) ==
  /\ step[c] = "erase"
  /\ step' = [step EXCEPT ![c] = "store"]
  /\ UNCHANGED <<rows, event, ids, addresses, accepted>>

\* handle_deletion is done; the deletion itself is stored.
Erased(c) ==
  /\ step[c] = "erase" /\ ids[c] = {} /\ addresses[c] = {}
  /\ step' = [step EXCEPT ![c] = "store"]
  /\ UNCHANGED <<rows, event, ids, addresses, accepted>>

\* sqlite::store_event: DELETE and INSERT OR IGNORE in one transaction.
StoreTransaction(c) ==
  /\ Transactional /\ step[c] = "store"
  /\ InsertInto(c, rows \ Older(event[c]))
  /\ UNCHANGED <<ids, addresses>>

\* event_store::store_event, the DELETE.
DeleteOlder(c) ==
  /\ ~Transactional /\ step[c] = "store"
  /\ rows' = rows \ Older(event[c])
  /\ step' = [step EXCEPT ![c] = "insert"]
  /\ UNCHANGED <<event, ids, addresses, accepted>>

\* event_store::store_event, the INSERT.
Insert(c) ==
  /\ step[c] = "insert"
  /\ InsertInto(c, rows)
  /\ UNCHANGED <<ids, addresses>>

\* A row that is new is broadcast to every connection, then answered OK.
Send(c) ==
  /\ step[c] = "send"
  /\ step' = [step EXCEPT ![c] = "idle"] /\ event' = [event EXCEPT ![c] = NoEvent]
  /\ UNCHANGED <<rows, ids, addresses, accepted>>

\* The relay process stops and starts again: whatever was under way is gone.
Restart ==
  /\ step' = [c \in Conns |-> "idle"] /\ event' = [c \in Conns |-> NoEvent]
  /\ ids' = [c \in Conns |-> {}] /\ addresses' = [c \in Conns |-> {}]
  /\ UNCHANGED <<rows, accepted>>

-----------------------------------------------------------------------------
EventsInit ==
  /\ rows = {}
  /\ step = [c \in Conns |-> "idle"] /\ event = [c \in Conns |-> NoEvent]
  /\ ids = [c \in Conns |-> {}] /\ addresses = [c \in Conns |-> {}]
  /\ accepted = {}

\* The next statement of store_event: which one depends on the backend.
Store(c) ==
  /\ step[c] \in {"store", "insert"}
  /\ StoreTransaction(c) \/ DeleteOlder(c) \/ Insert(c)

Erase(c) ==
  \/ \E e \in Events : EraseId(c, e)
  \/ \E a \in Addresses : EraseAddress(c, a)
  \/ Erased(c)

EventsNext ==
  \/ \E c \in Conns, e \in Events : Publish(c, e)
  \/ \E c \in Conns : Erase(c) \/ Store(c) \/ Send(c)
  \/ Restart

EventsSpec == EventsInit /\ [][EventsNext]_eventsVars

-----------------------------------------------------------------------------
\* Every variable keeps its type, a connection that is past its first step has
\* an event, and a deletion is stored only when the tags it has are handled.
EventsTypeOK ==
  /\ rows \subseteq Events /\ accepted \subseteq Events
  /\ step \in [Conns -> Steps] /\ event \in [Conns -> Events \cup {NoEvent}]
  /\ ids \in [Conns -> SUBSET Events] /\ addresses \in [Conns -> SUBSET Addresses]
  /\ \A c \in Conns : step[c] # "idle" => event[c] \in Events
  /\ \A c \in Conns : step[c] # "erase" => ids[c] = {} /\ addresses[c] = {}
  /\ \A c \in Conns : step[c] = "erase" =>
       /\ event[c] \in Deletions
       /\ ids[c] \subseteq ByIds[event[c]] /\ addresses[c] \subseteq ByAddresses[event[c]]

\* However DELETEs and INSERTs of many connections cross, on Postgres too, an
\* address has one version (migrations/001_initial.sql:29-35).
OneVersion == \A e, f \in rows : SameAddress(e, f) => e = f

\* Nothing the relay has answered with OK is lost to an older version: at its
\* address there is an event at least as new, unless one was deleted since.
NewestKept ==
  \A e \in accepted :
    \E r \in rows : r = e \/ (SameAddress(e, r) /\ CreatedAt[r] >= CreatedAt[e])

\* An event that meets the unique index meets a newer event, or one of its age
\* (event_store.rs:107-108).
SupersededByNewer ==
  [][\A c \in Conns : Insert(c) =>
       \A r \in rows : SameAddress(event[c], r) => CreatedAt[r] >= CreatedAt[event[c]]]_eventsVars

\* The version of an address in a table, as its readers see it.
CurrentIn(table, a) ==
  IF \E r \in table : Addr[r] = a THEN CHOOSE r \in table : Addr[r] = a ELSE NoEvent

NotesIn(table) == {r \in table : Addr[r] = NoAddress}

\* The deletions whose tags are handled.
Erasing == {event[c] : c \in {d \in Conns : step[d] = "erase"}}

Latest == INSTANCE LatestStore WITH
  latest  <- [a \in Addresses |-> CurrentIn(rows, a)],
  notes   <- NotesIn(rows),
  erasing <- Erasing

\* A transactional store is LatestStore: no reader, and no crash, sees an address
\* empty or older in the middle of a replacement, and nothing goes away but by a
\* deletion that names it and is its author's.
ImplementsLatest == Latest!StoreSpec
=============================================================================
