------------------------- MODULE RelayDeliveryProofs -------------------------
(***************************************************************************)
(* Proofs about the relay for any connections, users, events, addresses,    *)
(* deletions, filters, subscriptions, channel capacity and TTL.             *)
(*                                                                         *)
(* Of EventStore: the types and the unique indexes on both backends, and,   *)
(* on SQLite, that nothing accepted is lost and that the table implements   *)
(* LatestStore.  Of RelayDelivery: the types, that no event falls between a *)
(* REQ's query and its live events, and that a member who is kicked, or a   *)
(* user who joins, is treated as one within the TTL of the membership       *)
(* cache.                                                                  *)
(***************************************************************************)
EXTENDS RelayDelivery, SequenceTheorems, TLAPS

-----------------------------------------------------------------------------
\* The event store.

\* The table only ever loses rows or gains the event being stored.
LEMMA InsertIntoTypes ==
  ASSUME NEW c \in Conns, NEW table, table \subseteq Events, EventsTypeOK,
         step[c] \in {"store", "insert"}, InsertInto(c, table),
         UNCHANGED <<ids, addresses>>
  PROVE  EventsTypeOK'
<1>1. event[c] \in Events
  BY DEF EventsTypeOK
<1>2. rows' \subseteq Events /\ accepted' \subseteq Events
  BY <1>1 DEF InsertInto, EventsTypeOK
<1>3. /\ step' \in [Conns -> Steps]
      /\ event' \in [Conns -> Events \cup {NoEvent}]
      /\ \A d \in Conns : step'[d] # "idle" => event'[d] \in Events
  BY <1>1 DEF InsertInto, EventsTypeOK, Steps
<1>4. \A d \in Conns : step'[d] # "erase" => ids'[d] = {} /\ addresses'[d] = {}
  BY DEF InsertInto, EventsTypeOK
<1>5. \A d \in Conns : step'[d] = "erase" => step[d] = "erase" /\ event'[d] = event[d]
  BY DEF InsertInto, EventsTypeOK
<1>6. ids' \in [Conns -> SUBSET Events] /\ addresses' \in [Conns -> SUBSET Addresses]
  BY DEF EventsTypeOK
<1>7. \A d \in Conns : step'[d] = "erase" =>
        /\ event'[d] \in Deletions
        /\ ids'[d] \subseteq ByIds[event'[d]] /\ addresses'[d] \subseteq ByAddresses[event'[d]]
  BY <1>5 DEF EventsTypeOK
<1> QED
  BY <1>2, <1>3, <1>4, <1>6, <1>7 DEF EventsTypeOK

\* Every step keeps the types.
LEMMA TypeStep == EventsTypeOK /\ [EventsNext]_eventsVars => EventsTypeOK'
<1> SUFFICES ASSUME EventsTypeOK, [EventsNext]_eventsVars PROVE EventsTypeOK'
  OBVIOUS
<1>1. CASE UNCHANGED eventsVars
  BY <1>1 DEF EventsTypeOK, eventsVars, taskVars
<1>2. ASSUME NEW c \in Conns, NEW e \in Events, Publish(c, e) PROVE EventsTypeOK'
  <2>1. /\ step' \in [Conns -> Steps] /\ event' \in [Conns -> Events \cup {NoEvent}]
        /\ \A d \in Conns : step'[d] # "idle" => event'[d] \in Events
    BY <1>2 DEF Publish, EventsTypeOK, Steps
  <2>2. CASE e \in Deletions
    <3>1. ByIds[e] \in SUBSET Events /\ ByAddresses[e] \in SUBSET Addresses
      BY <2>2, DeletionsAssumption
    <3>2. ids' \in [Conns -> SUBSET Events] /\ addresses' \in [Conns -> SUBSET Addresses]
      BY <1>2, <2>2, <3>1 DEF Publish, EventsTypeOK
    <3>3. \A d \in Conns : step'[d] # "erase" => ids'[d] = {} /\ addresses'[d] = {}
      BY <1>2, <2>2 DEF Publish, EventsTypeOK
    <3> QED
      BY <1>2, <2>1, <3>2, <3>3 DEF Publish, EventsTypeOK
  <2>3. CASE e \notin Deletions
    <3>1. \A d \in Conns : step'[d] # "erase" => ids'[d] = {} /\ addresses'[d] = {}
      BY <1>2, <2>3 DEF Publish, EventsTypeOK
    <3> QED
      BY <1>2, <2>1, <2>3, <3>1 DEF Publish, EventsTypeOK
  <2> QED
    BY <2>2, <2>3
<1>3. ASSUME NEW c \in Conns, NEW e \in Events, EraseId(c, e) PROVE EventsTypeOK'
  <2>1. ids' \in [Conns -> SUBSET Events]
    BY <1>3 DEF EraseId, EventsTypeOK
  <2>2. \A d \in Conns : step'[d] # "erase" => ids'[d] = {} /\ addresses'[d] = {}
    BY <1>3 DEF EraseId, EventsTypeOK
  <2> QED
    BY <1>3, <2>1, <2>2 DEF EraseId, Removed, EventsTypeOK
<1>4. ASSUME NEW c \in Conns, NEW a \in Addresses, EraseAddress(c, a) PROVE EventsTypeOK'
  <2>1. addresses' \in [Conns -> SUBSET Addresses]
    BY <1>4 DEF EraseAddress, EventsTypeOK
  <2>2. \A d \in Conns : step'[d] # "erase" => ids'[d] = {} /\ addresses'[d] = {}
    BY <1>4 DEF EraseAddress, EventsTypeOK
  <2> QED
    BY <1>4, <2>1, <2>2 DEF EraseAddress, Removed, EventsTypeOK
<1>5. ASSUME NEW c \in Conns, Erased(c) PROVE EventsTypeOK'
  BY <1>5 DEF Erased, EventsTypeOK, Steps
<1>6. ASSUME NEW c \in Conns, StoreTransaction(c) PROVE EventsTypeOK'
  BY <1>6, InsertIntoTypes DEF StoreTransaction, EventsTypeOK
<1>7. ASSUME NEW c \in Conns, DeleteOlder(c) PROVE EventsTypeOK'
  BY <1>7 DEF DeleteOlder, EventsTypeOK, Steps
<1>8. ASSUME NEW c \in Conns, Insert(c) PROVE EventsTypeOK'
  BY <1>8, InsertIntoTypes DEF Insert, EventsTypeOK
<1>9. ASSUME NEW c \in Conns, Send(c) PROVE EventsTypeOK'
  BY <1>9 DEF Send, EventsTypeOK, Steps
<1>10. CASE Restart
  BY <1>10 DEF Restart, EventsTypeOK, Steps
<1> QED
  BY <1>1, <1>2, <1>3, <1>4, <1>5, <1>6, <1>7, <1>8, <1>9, <1>10 DEF EventsNext, Erase, Store

\* Type correctness, on either backend: past its first step a connection has an
\* event, and a deletion is stored only when its tags are handled.
THEOREM TypeInvariant == EventsSpec => []EventsTypeOK
<1>1. EventsInit => EventsTypeOK
  BY DEF EventsInit, EventsTypeOK, Steps
<1> QED
  BY <1>1, TypeStep, PTL DEF EventsSpec

-----------------------------------------------------------------------------
\* What an INSERT leaves has one version per address, if the table had.
LEMMA InsertKeepsOneVersion ==
  ASSUME NEW c \in Conns, NEW table, table \subseteq rows, OneVersion, InsertInto(c, table)
  PROVE  OneVersion'
<1>1. CASE Conflict(table, event[c])
  BY <1>1 DEF InsertInto, OneVersion, SameAddress
<1>2. CASE ~Conflict(table, event[c])
  <2>1. rows' = table \cup {event[c]}
    BY <1>2 DEF InsertInto
  <2>2. \A r \in table : ~SameAddress(event[c], r) /\ ~SameAddress(r, event[c])
    BY <1>2 DEF Conflict, SameAddress
  <2> QED
    BY <2>1, <2>2 DEF OneVersion, SameAddress
<1> QED
  BY <1>1, <1>2

\* The unique indexes, on either backend, however the statements of several
\* connections cross.
THEOREM OneVersionInvariant == EventsSpec => []OneVersion
<1>1. EventsInit => OneVersion
  BY DEF EventsInit, OneVersion
<1>2. OneVersion /\ [EventsNext]_eventsVars => OneVersion'
  <2> SUFFICES ASSUME OneVersion, [EventsNext]_eventsVars PROVE OneVersion'
    OBVIOUS
  <2>1. CASE rows' \subseteq rows
    BY <2>1 DEF OneVersion, SameAddress
  <2>2. ASSUME NEW c \in Conns, StoreTransaction(c) PROVE OneVersion'
    BY <2>2, InsertKeepsOneVersion DEF StoreTransaction
  <2>3. ASSUME NEW c \in Conns, Insert(c) PROVE OneVersion'
    BY <2>3, InsertKeepsOneVersion DEF Insert
  <2>4. rows' \subseteq rows \/ \E c \in Conns : StoreTransaction(c) \/ Insert(c)
    BY DEF EventsNext, eventsVars, Erase, Store, Publish, EraseId, EraseAddress, Erased,
           DeleteOlder, Send, Restart, Removed
  <2> QED
    BY <2>1, <2>2, <2>3, <2>4
<1> QED
  BY <1>1, <1>2, PTL DEF EventsSpec

-----------------------------------------------------------------------------
\* On SQLite no store is ever between its two statements.
OneStep == \A c \in Conns : step[c] # "insert"

LEMMA OneStepInvariant == ASSUME Transactional PROVE EventsSpec => []OneStep
<1>1. EventsInit => OneStep
  BY DEF EventsInit, OneStep
<1>2. EventsTypeOK /\ OneStep /\ [EventsNext]_eventsVars => OneStep'
  <2> SUFFICES ASSUME EventsTypeOK, OneStep, [EventsNext]_eventsVars PROVE OneStep'
    OBVIOUS
  <2>1. CASE UNCHANGED eventsVars
    BY <2>1 DEF OneStep, eventsVars, taskVars
  <2>2. ASSUME NEW c \in Conns, NEW e \in Events, Publish(c, e) PROVE OneStep'
    BY <2>2 DEF Publish, OneStep, EventsTypeOK
  <2>3. ASSUME NEW c \in Conns, Erase(c) PROVE OneStep'
    <3>1. step' = step \/ step' = [step EXCEPT ![c] = "store"]
      BY <2>3 DEF Erase, EraseId, EraseAddress, Erased
    <3>2. step \in [Conns -> Steps]
      BY DEF EventsTypeOK
    <3> QED
      BY <3>1, <3>2 DEF OneStep
  <2>4. ASSUME NEW c \in Conns, Store(c) PROVE OneStep'
    BY <2>4 DEF Store, StoreTransaction, DeleteOlder, Insert, InsertInto, OneStep, EventsTypeOK
  <2>5. ASSUME NEW c \in Conns, Send(c) PROVE OneStep'
    BY <2>5 DEF Send, OneStep, EventsTypeOK
  <2>6. CASE Restart
    BY <2>6 DEF Restart, OneStep
  <2> QED
    BY <2>1, <2>2, <2>3, <2>4, <2>5, <2>6 DEF EventsNext
<1> QED
  BY <1>1, <1>2, TypeInvariant, PTL DEF EventsSpec

\* A deletion removes what it may and no more than that.
LEMMA RemovedKeepsNewest ==
  ASSUME NEW gone, EventsTypeOK, NewestKept, Removed(gone)
  PROVE  NewestKept'
<1> SUFFICES ASSUME NEW e \in accepted'
             PROVE  \E r \in rows' : r = e \/ (SameAddress(e, r) /\ CreatedAt[r] >= CreatedAt[e])
  BY DEF NewestKept, SameAddress
<1>1. /\ e \in accepted \ gone /\ e \in Events
      /\ \A r \in gone : SameAddress(e, r) => CreatedAt[e] > CreatedAt[r]
      /\ rows' = rows \ gone
  BY DEF Removed, EventsTypeOK
<1>2. PICK r \in rows : r = e \/ (SameAddress(e, r) /\ CreatedAt[r] >= CreatedAt[e])
  BY <1>1 DEF NewestKept
<1>3. CreatedAt[e] \in Nat /\ CreatedAt[r] \in Nat
  BY <1>1, EventsAssumption DEF EventsTypeOK
<1>4. r \notin gone
  BY <1>1, <1>2, <1>3
<1> QED
  BY <1>1, <1>2, <1>4

\* A store in one transaction replaces a version by a newer one only.
LEMMA TransactionKeepsNewest ==
  ASSUME NEW c \in Conns, EventsTypeOK, NewestKept, StoreTransaction(c)
  PROVE  NewestKept'
<1> DEFINE new == event[c]
           table == rows \ Older(new)
<1>1. new \in Events
  BY DEF StoreTransaction, EventsTypeOK
<1>2. \A r \in rows : r \in Events /\ CreatedAt[r] \in Nat
  BY EventsAssumption DEF EventsTypeOK
<1>3. /\ table \subseteq rows' /\ accepted' = accepted \cup {new}
      /\ Conflict(table, new) \/ new \in rows'
  BY DEF StoreTransaction, InsertInto
<1>4. \E r \in rows' : r = new \/ (SameAddress(new, r) /\ CreatedAt[r] >= CreatedAt[new])
  <2>1. CASE new \in rows'
    BY <2>1
  <2>2. CASE Conflict(table, new) /\ new \notin rows'
    <3>1. PICK t \in table : SameAddress(new, t)
      BY <1>3, <2>2 DEF Conflict
    <3>2. CreatedAt[t] >= CreatedAt[new]
      BY <1>1, <1>2, <3>1, EventsAssumption DEF Older
    <3> QED
      BY <1>3, <3>1, <3>2
  <2> QED
    BY <1>3, <2>1, <2>2
<1>5. ASSUME NEW e \in accepted
      PROVE  \E r \in rows' : r = e \/ (SameAddress(e, r) /\ CreatedAt[r] >= CreatedAt[e])
  <2>1. PICK r \in rows : r = e \/ (SameAddress(e, r) /\ CreatedAt[r] >= CreatedAt[e])
    BY DEF NewestKept
  <2>2. CASE r \notin Older(new)
    BY <1>3, <2>1, <2>2
  <2>3. CASE r \in Older(new)
    <3>1. SameAddress(new, r) /\ CreatedAt[r] < CreatedAt[new]
      BY <2>3 DEF Older
    <3>2. PICK q \in rows' : q = new \/ (SameAddress(new, q) /\ CreatedAt[q] >= CreatedAt[new])
      BY <1>4
    <3>3. rows' \subseteq Events
      BY <1>1, <1>2 DEF StoreTransaction, InsertInto
    <3>4. e \in Events
      BY DEF EventsTypeOK
    <3>5. /\ CreatedAt[q] \in Nat /\ CreatedAt[e] \in Nat
          /\ CreatedAt[r] \in Nat /\ CreatedAt[new] \in Nat
      BY <1>1, <1>2, <3>3, <3>4, EventsAssumption
    <3>6. CreatedAt[r] >= CreatedAt[e] /\ CreatedAt[q] >= CreatedAt[new]
      BY <2>1, <3>2, <3>5
    <3>7. SameAddress(e, q)
      BY <2>1, <3>1, <3>2 DEF SameAddress
    <3>8. CreatedAt[q] >= CreatedAt[e]
      BY <3>1, <3>5, <3>6
    <3> QED
      BY <3>7, <3>8
  <2> QED
    BY <2>2, <2>3
<1> QED
  BY <1>3, <1>4, <1>5 DEF NewestKept, SameAddress

\* On SQLite nothing answered with OK is lost to an older version, whatever the
\* connections publish and delete at once, and however often the relay stops.
THEOREM NewestKeptInvariant == ASSUME Transactional PROVE EventsSpec => []NewestKept
<1>1. EventsInit => NewestKept
  BY DEF EventsInit, NewestKept
<1>2. EventsTypeOK /\ OneStep /\ NewestKept /\ [EventsNext]_eventsVars => NewestKept'
  <2> SUFFICES ASSUME EventsTypeOK, OneStep, NewestKept, [EventsNext]_eventsVars
               PROVE  NewestKept'
    OBVIOUS
  <2>1. CASE UNCHANGED <<rows, accepted>>
    BY <2>1 DEF NewestKept, SameAddress
  <2>2. ASSUME NEW gone, Removed(gone) PROVE NewestKept'
    BY <2>2, RemovedKeepsNewest
  <2>3. ASSUME NEW c \in Conns, StoreTransaction(c) PROVE NewestKept'
    BY <2>3, TransactionKeepsNewest
  <2>4. \/ UNCHANGED <<rows, accepted>>
        \/ \E gone : Removed(gone)
        \/ \E c \in Conns : StoreTransaction(c)
    BY DEF EventsNext, eventsVars, Erase, Store, Publish, EraseId, EraseAddress, Erased,
           DeleteOlder, Insert, OneStep, Send, Restart
  <2> QED
    BY <2>1, <2>2, <2>3, <2>4
<1> QED
  BY <1>1, <1>2, TypeInvariant, OneStepInvariant, PTL DEF EventsSpec

-----------------------------------------------------------------------------
\* The refinement: what a reader finds at an address.
LEMMA CurrentOf ==
  ASSUME NEW table, NEW a, NEW r \in table, Addr[r] = a,
         \A s \in table : Addr[s] = a => s = r
  PROVE  CurrentIn(table, a) = r
BY DEF CurrentIn

LEMMA CurrentNone ==
  ASSUME NEW table, NEW a, \A r \in table : Addr[r] # a
  PROVE  CurrentIn(table, a) = NoEvent
BY DEF CurrentIn

\* A reader of an address sees no change when the versions of it are the same.
LEMMA CurrentSame ==
  ASSUME NEW table, NEW other, NEW a,
         \A r \in table : Addr[r] = a => r \in other,
         \A r \in other : Addr[r] = a => r \in table,
         \A r, s \in table : Addr[r] = a /\ Addr[s] = a => r = s
  PROVE  CurrentIn(other, a) = CurrentIn(table, a)
<1>1. CASE \A r \in table : Addr[r] # a
  BY <1>1, CurrentNone
<1>2. ASSUME NEW r \in table, Addr[r] = a PROVE CurrentIn(other, a) = CurrentIn(table, a)
  <2>1. CurrentIn(table, a) = r
    BY <1>2, CurrentOf
  <2>2. CurrentIn(other, a) = r
    BY <1>2, CurrentOf
  <2> QED
    BY <2>1, <2>2
<1> QED
  BY <1>1, <1>2

\* Removing one row is a deletion of LatestStore.
LEMMA DeletionImplements ==
  ASSUME NEW e \in rows, EventsTypeOK, OneVersion, rows' = rows \ {e},
         NEW d \in Erasing, Latest!Covers(d, e), Erasing' = Erasing
  PROVE  Latest!Delete(e)
<1> DEFINE now  == [a \in Addresses |-> CurrentIn(rows, a)]
           then == [a \in Addresses |-> CurrentIn(rows', a)]
<1>1. e \in Events
  BY DEF EventsTypeOK
<1>2. \A a \in Addresses, r, s \in rows : Addr[r] = a /\ Addr[s] = a => r = s
  BY AddressAssumption DEF OneVersion, SameAddress
<1>3. ASSUME NEW a \in Addresses, Addr[e] # a PROVE CurrentIn(rows', a) = CurrentIn(rows, a)
  <2>1. \A r \in rows : Addr[r] = a => r \in rows'
    BY <1>3
  <2>2. \A r \in rows' : Addr[r] = a => r \in rows
    OBVIOUS
  <2> QED
    BY <1>2, <2>1, <2>2, CurrentSame
<1>4. CASE Addr[e] = NoAddress
  <2>1. then = now
    BY <1>3, <1>4, AddressAssumption
  <2>2. e \in NotesIn(rows) /\ NotesIn(rows') = NotesIn(rows) \ {e}
    BY <1>4 DEF NotesIn
  <2> QED
    BY <2>1, <2>2 DEF Latest!Delete
<1>5. CASE Addr[e] # NoAddress
  <2> DEFINE a == Addr[e]
  <2>1. a \in Addresses
    BY <1>1, <1>5, AddressAssumption
  <2>2. CurrentIn(rows, a) = e
    BY <1>2, <2>1, CurrentOf
  <2>3. CurrentIn(rows', a) = NoEvent
    BY <1>2, <2>1, CurrentNone
  <2>4. then = [now EXCEPT ![a] = NoEvent]
    BY <1>3, <2>1, <2>3
  <2>5. NotesIn(rows') = NotesIn(rows)
    BY <1>5 DEF NotesIn
  <2>6. now[a] = e
    BY <2>1, <2>2
  <2> QED
    BY <2>1, <2>4, <2>5, <2>6 DEF Latest!Delete
<1> QED
  BY <1>4, <1>5

\* What is being erased is the same as long as the same deletions are handled.
LEMMA ErasingSame ==
  ASSUME \A c \in Conns : step'[c] = "erase" <=> step[c] = "erase",
         \A c \in Conns : step[c] = "erase" => event'[c] = event[c]
  PROVE  Erasing' = Erasing
BY DEF Erasing

\* A store in one transaction is one replacement of LatestStore, or no change.
LEMMA TransactionImplements ==
  ASSUME NEW c \in Conns, EventsTypeOK, OneVersion, StoreTransaction(c)
  PROVE  /\ Erasing' = Erasing
         /\ rows' = rows \/ Latest!Put(event[c])
<1> DEFINE new   == event[c]
           table == rows \ Older(new)
           now   == [a \in Addresses |-> CurrentIn(rows, a)]
           then  == [a \in Addresses |-> CurrentIn(rows', a)]
<1>1. new \in Events
  BY DEF StoreTransaction, EventsTypeOK
<1>0. Erasing' = Erasing
  <2>1. step[c] = "store" /\ step \in [Conns -> Steps] /\ event \in [Conns -> Events \cup {NoEvent}]
    BY DEF StoreTransaction, EventsTypeOK
  <2>2. \/ step' = [step EXCEPT ![c] = "idle"] /\ event' = [event EXCEPT ![c] = NoEvent]
        \/ step' = [step EXCEPT ![c] = "send"] /\ event' = event
    BY DEF StoreTransaction, InsertInto
  <2>3. \A d \in Conns : step'[d] = "erase" <=> step[d] = "erase"
    BY <2>1, <2>2
  <2>4. \A d \in Conns : step[d] = "erase" => event'[d] = event[d]
    BY <2>1, <2>2
  <2> QED
    BY <2>3, <2>4, ErasingSame
<1>2. CASE Conflict(table, new)
  <2>1. rows' = table
    BY <1>2 DEF StoreTransaction, InsertInto
  <2>2. ASSUME NEW old \in Older(new) PROVE FALSE
    <3>1. old \in rows /\ SameAddress(new, old)
      BY <2>2 DEF Older
    <3>2. PICK t \in table : t = new \/ SameAddress(new, t)
      BY <1>2 DEF Conflict
    <3>3. SameAddress(old, t)
      BY <3>1, <3>2 DEF SameAddress
    <3>4. old = t
      BY <3>1, <3>2, <3>3 DEF OneVersion
    <3> QED
      BY <2>2, <3>2, <3>4
  <2> QED
    BY <1>0, <2>1, <2>2
<1>3. CASE ~Conflict(table, new)
  <2>1. rows' = table \cup {new} /\ new \notin table
    BY <1>3 DEF StoreTransaction, InsertInto, Conflict
  <2>2. \A r \in rows : SameAddress(new, r) => CreatedAt[r] < CreatedAt[new]
    BY <1>3 DEF Conflict, Older
  <2>3. \A a \in Addresses, r, s \in rows : Addr[r] = a /\ Addr[s] = a => r = s
    BY AddressAssumption DEF OneVersion, SameAddress
  <2>4. ASSUME NEW a \in Addresses, Addr[new] # a PROVE CurrentIn(rows', a) = CurrentIn(rows, a)
    <3>1. \A r \in rows : Addr[r] = a => r \in rows'
      BY <2>1, <2>4 DEF Older, SameAddress
    <3>2. \A r \in rows' : Addr[r] = a => r \in rows
      BY <2>1, <2>4
    <3> QED
      BY <2>3, <3>1, <3>2, CurrentSame
  <2>5. CASE Addr[new] = NoAddress
    <3>1. then = now
      BY <2>4, <2>5, AddressAssumption
    <3>2. NotesIn(rows') = NotesIn(rows) \cup {new}
      BY <2>1, <2>5 DEF NotesIn, Older, SameAddress
    <3> QED
      BY <1>0, <2>5, <3>1, <3>2 DEF Latest!Put
  <2>6. CASE Addr[new] # NoAddress
    <3> DEFINE a == Addr[new]
    <3>1. a \in Addresses
      BY <1>1, <2>6, AddressAssumption
    <3>2. \A s \in rows' : Addr[s] = a => s = new
      BY <1>3, <2>1, <2>6 DEF Conflict, SameAddress
    <3>3. CurrentIn(rows', a) = new
      <4>1. new \in rows' /\ Addr[new] = a
        BY <2>1
      <4> HIDE DEF new, a, table, now, then
      <4> QED
        BY <3>2, <4>1, CurrentOf
    <3>4. now[a] = NoEvent \/ CreatedAt[now[a]] < CreatedAt[new]
      <4>1. CASE \A r \in rows : Addr[r] # a
        BY <3>1, <4>1, CurrentNone
      <4>2. ASSUME NEW r \in rows, Addr[r] = a PROVE now[a] = r /\ CreatedAt[r] < CreatedAt[new]
        <5>1. CurrentIn(rows, a) = r
          BY <2>3, <3>1, <4>2, CurrentOf
        <5>2. SameAddress(new, r)
          BY <2>6, <4>2 DEF SameAddress
        <5> QED
          BY <2>2, <3>1, <5>1, <5>2
      <4> QED
        BY <4>1, <4>2
    <3>5. then = [now EXCEPT ![a] = new]
      BY <2>4, <3>1, <3>3
    <3>6. NotesIn(rows') = NotesIn(rows)
      BY <2>1, <2>6 DEF NotesIn, Older, SameAddress
    <3> QED
      BY <1>0, <2>6, <3>4, <3>5, <3>6 DEF Latest!Put, Latest!Newer
  <2> QED
    BY <2>5, <2>6
<1> QED
  BY <1>2, <1>3

\* A tag of a deletion removes nothing or one event of LatestStore.
LEMMA EraseImplements ==
  ASSUME NEW c \in Conns, EventsTypeOK, OneVersion,
         (\E e \in Events : EraseId(c, e)) \/ (\E a \in Addresses : EraseAddress(c, a))
  PROVE  /\ Erasing' = Erasing
         /\ rows' = rows \/ \E e \in rows : Latest!Delete(e)
<1>1. step' = step /\ event' = event /\ step[c] = "erase"
  BY DEF EraseId, EraseAddress
<1>2. Erasing' = Erasing /\ event[c] \in Erasing /\ event[c] \in Deletions
  BY <1>1 DEF Erasing, EventsTypeOK
<1>3. /\ ids[c] \subseteq ByIds[event[c]] /\ addresses[c] \subseteq ByAddresses[event[c]]
      /\ rows \subseteq Events
  BY <1>1 DEF EventsTypeOK
<1>4. ASSUME NEW e \in Events, EraseId(c, e)
      PROVE  rows' = rows \/ \E r \in rows : rows' = rows \ {r} /\ Latest!Covers(event[c], r)
  BY <1>3, <1>4 DEF EraseId, Removed, Latest!Covers
<1>5. ASSUME NEW a \in Addresses, EraseAddress(c, a)
      PROVE  rows' = rows \/ \E r \in rows : rows' = rows \ {r} /\ Latest!Covers(event[c], r)
  <2> DEFINE gone == {r \in rows : /\ Addr[r] = a /\ Owner[a] = Author[event[c]]
                                  /\ CreatedAt[r] <= CreatedAt[event[c]]}
  <2>1. rows' = rows \ gone
    BY <1>5 DEF EraseAddress, Removed
  <2>2. \A r \in gone : Latest!Covers(event[c], r)
    BY <1>3, <1>5, DeletionsAssumption, AddressAssumption DEF EraseAddress, Latest!Covers
  <2>3. \A r, s \in gone : r = s
    BY AddressAssumption DEF OneVersion, SameAddress
  <2> HIDE DEF gone
  <2>4. gone = {} \/ \E r \in gone : gone = {r}
    BY <2>3
  <2>5. gone \subseteq rows
    BY DEF gone
  <2> QED
    BY <2>1, <2>2, <2>4, <2>5
<1>6. rows' = rows \/ \E r \in rows : rows' = rows \ {r} /\ Latest!Covers(event[c], r)
  BY <1>4, <1>5
<1> QED
  BY <1>2, <1>6, DeletionImplements

\* SQLite's table implements LatestStore: every step of EventStore replaces or
\* deletes one event as LatestStore does, begins or ends a deletion, or shows a
\* reader no change.
THEOREM Refinement == ASSUME Transactional PROVE EventsSpec => ImplementsLatest
<1>1. EventsInit => Latest!StoreInit
  <2> SUFFICES ASSUME EventsInit PROVE Latest!StoreInit
    OBVIOUS
  <2>1. Erasing = {}
    BY DEF EventsInit, Erasing
  <2> QED
    BY <2>1, CurrentNone DEF EventsInit, Latest!StoreInit, NotesIn
<1>2. EventsTypeOK /\ OneStep /\ OneVersion /\ [EventsNext]_eventsVars
        => [Latest!StoreNext]_(Latest!storeVars)
  <2> SUFFICES ASSUME EventsTypeOK, OneStep, OneVersion, [EventsNext]_eventsVars
               PROVE  Latest!StoreNext \/ UNCHANGED Latest!storeVars
    OBVIOUS
  <2>1. CASE rows' = rows /\ Erasing' = Erasing
    BY <2>1 DEF Latest!storeVars
  <2>2. CASE rows' = rows /\ Erasing' \subseteq Erasing
    BY <2>2 DEF Latest!StoreNext, Latest!Finish
  <2>3. ASSUME NEW c \in Conns, NEW e \in Events, Publish(c, e)
        PROVE  Latest!StoreNext \/ UNCHANGED Latest!storeVars
    <3>1. /\ step \in [Conns -> Steps] /\ event \in [Conns -> Events \cup {NoEvent}]
          /\ step[c] = "idle" /\ event' = [event EXCEPT ![c] = e] /\ rows' = rows
      BY <2>3 DEF Publish, EventsTypeOK
    <3>2. CASE e \in Deletions
      <4>1. step' = [step EXCEPT ![c] = "erase"]
        BY <2>3, <3>2 DEF Publish
      <4>2. /\ step'[c] = "erase" /\ event'[c] = e
            /\ \A d \in Conns \ {c} : step'[d] = step[d] /\ event'[d] = event[d]
        BY <3>1, <4>1
      <4>3. Erasing' = Erasing \cup {e}
        BY <3>1, <4>2 DEF Erasing
      <4> QED
        BY <3>1, <3>2, <4>3 DEF Latest!StoreNext, Latest!Begin
    <3>3. CASE e \notin Deletions
      <4>1. step' = [step EXCEPT ![c] = "store"]
        BY <2>3, <3>3 DEF Publish
      <4>2. \A d \in Conns : step'[d] = "erase" <=> step[d] = "erase"
        BY <3>1, <4>1
      <4>3. \A d \in Conns : step[d] = "erase" => event'[d] = event[d]
        BY <3>1
      <4> QED
        BY <2>1, <3>1, <4>2, <4>3, ErasingSame
    <3> QED
      BY <3>2, <3>3
  <2>4. ASSUME NEW c \in Conns, Erase(c) PROVE Latest!StoreNext \/ UNCHANGED Latest!storeVars
    <3>1. CASE Erased(c)
      <4>1. /\ step' = [step EXCEPT ![c] = "store"] /\ event' = event /\ rows' = rows
            /\ step \in [Conns -> Steps]
        BY <3>1 DEF Erased, EventsTypeOK
      <4>2. \A d \in Conns : step'[d] = "erase" => step[d] = "erase"
        BY <4>1
      <4>3. Erasing' \subseteq Erasing
        BY <4>1, <4>2 DEF Erasing
      <4> QED
        BY <2>2, <4>1, <4>3
    <3>2. CASE ~Erased(c)
      BY <2>1, <2>4, <3>2, EraseImplements DEF Erase, EventsTypeOK, Latest!StoreNext
    <3> QED
      BY <3>1, <3>2
  <2>5. ASSUME NEW c \in Conns, StoreTransaction(c)
        PROVE  Latest!StoreNext \/ UNCHANGED Latest!storeVars
    <3>1. event[c] \in Events
      BY <2>5 DEF StoreTransaction, EventsTypeOK
    <3> QED
      BY <2>1, <2>5, <3>1, TransactionImplements DEF Latest!StoreNext
  <2>6. ASSUME NEW c \in Conns, Send(c) PROVE Latest!StoreNext \/ UNCHANGED Latest!storeVars
    <3>1. /\ step[c] = "send" /\ step' = [step EXCEPT ![c] = "idle"]
          /\ event' = [event EXCEPT ![c] = NoEvent] /\ rows' = rows
          /\ step \in [Conns -> Steps] /\ event \in [Conns -> Events \cup {NoEvent}]
      BY <2>6 DEF Send, EventsTypeOK
    <3>2. \A d \in Conns : step'[d] = "erase" <=> step[d] = "erase"
      BY <3>1
    <3>3. \A d \in Conns : step[d] = "erase" => event'[d] = event[d]
      BY <3>1
    <3> QED
      BY <2>1, <3>1, <3>2, <3>3, ErasingSame
  <2>7. CASE Restart
    <3>1. rows' = rows /\ \A d \in Conns : step'[d] # "erase"
      BY <2>7 DEF Restart
    <3>2. Erasing' \subseteq Erasing
      BY <3>1 DEF Erasing
    <3> QED
      BY <2>2, <3>1, <3>2
  <2>8. CASE UNCHANGED eventsVars
    BY <2>1, <2>8, ErasingSame DEF eventsVars, taskVars
  <2> QED
    BY <2>3, <2>4, <2>5, <2>6, <2>7, <2>8 DEF EventsNext, Store, DeleteOlder, Insert, OneStep
<1> QED
  BY <1>1, <1>2, TypeInvariant, OneStepInvariant, OneVersionInvariant, PTL
  DEF EventsSpec, ImplementsLatest, Latest!StoreSpec

-----------------------------------------------------------------------------
\* The delivery.

USE DeliveryAssumption

\* Every step of the publishing side is a step of EventStore, and the rest
\* leaves the store alone.
LEMMA StoreMoves == [Next]_vars => [EventsNext]_eventsVars
<1> SUFFICES ASSUME [Next]_vars PROVE EventsNext \/ UNCHANGED eventsVars
  OBVIOUS
<1>1. ASSUME NEW c \in Conns, NEW e \in Events, Post(c, e) PROVE EventsNext
  BY <1>1 DEF Post, EventsNext
<1>2. ASSUME NEW c \in Conns, StoreStep(c) \/ Broadcast(c) PROVE EventsNext
  BY <1>2 DEF StoreStep, Broadcast, EventsNext
<1>3. CASE RestartRelay
  BY <1>3 DEF RestartRelay, EventsNext
<1> QED
  BY <1>1, <1>2, <1>3 DEF Next, vars, Connect, Disconnect, Register, Query, Deliver, Auth, Req,
     Close, ChangeMembership, Tick

\* The relay with its subscribers is the event store with a single copy of each
\* row: whatever holds of the store alone (event_store.rs:225) holds while events
\* are queried, broadcast and delivered.
THEOREM DeliveryImplementsStore == Spec => EventsSpec
<1>1. Init => EventsInit
  BY DEF Init
<1> QED
  BY <1>1, StoreMoves, PTL DEF Spec, EventsSpec

\* In particular it keeps what LatestStore promises where the store is
\* transactional (sqlite.rs), and one version of an address on either backend.
COROLLARY DeliveryKeepsOneVersion == Spec => []OneVersion
BY DeliveryImplementsStore, OneVersionInvariant

COROLLARY DeliveryImplementsLatest == ASSUME Transactional PROVE Spec => ImplementsLatest
BY DeliveryImplementsStore, Refinement

\* The parts of TypeOK.
GroupTypes == members \subseteq Users /\ settled \in [Users -> 0..TTL]
CacheTypes ==
  /\ online \subseteq Conns /\ who \in [Conns -> Users \cup {NoUser}]
  /\ cache \in [Conns -> BOOLEAN] /\ failed \in [Conns -> BOOLEAN] /\ age \in [Conns -> 0..TTL]
InboxTypes == inbox \in [Conns -> Seq(Events)] /\ \A c \in Conns : Len(inbox[c]) <= Capacity
ReqTypes ==
  /\ opening \in [Conns -> Subs \cup {NoSub}]
  /\ wanted \in [Conns -> SUBSET Filters] /\ todo \in [Conns -> SUBSET Filters]
  /\ found \in [Conns -> SUBSET Events] /\ missed \in [Conns -> SUBSET Events]
  /\ \A c \in Conns : opening[c] = NoSub => todo[c] = {}
SentTypes ==
  /\ subs \in [Conns -> [Subs -> SUBSET Filters]]
  /\ received \in [Conns -> [Subs -> SUBSET Events]]
  /\ skipped \in [Conns -> [Subs -> SUBSET Events]]

\* TypeOK is the conjunction of its parts.
LEMMA TypeParts ==
  TypeOK <=> EventsTypeOK /\ GroupTypes /\ CacheTypes /\ InboxTypes /\ ReqTypes /\ SentTypes
BY DEF TypeOK, GroupTypes, CacheTypes, InboxTypes, ReqTypes, SentTypes

\* What a set of filters covers is events.
LEMMA CoveredTypes == ASSUME NEW fs \in SUBSET Filters PROVE Covered(fs) \subseteq Events
BY DEF Covered

\* Setting one value of a function of functions.
LEMMA NestedExcept ==
  ASSUME NEW A, NEW B, NEW V, NEW g \in [A -> [B -> V]], NEW a \in A, NEW b \in B, NEW v \in V
  PROVE  [g EXCEPT ![a][b] = v] \in [A -> [B -> V]]
<1>1. [g[a] EXCEPT ![b] = v] \in [B -> V]
  OBVIOUS
<1> QED
  BY <1>1

\* A broadcast keeps the receivers' types: at most Capacity events each.
LEMMA BroadcastTypes ==
  ASSUME TypeOK, NEW c \in Conns, Broadcast(c)
  PROVE  InboxTypes' /\ ReqTypes' /\ SentTypes'
<1>1. event[c] \in Events
  BY DEF Broadcast, Send, TypeOK, EventsTypeOK
<1>2. ASSUME NEW d \in Conns
      PROVE  /\ inbox'[d] \in Seq(Events) /\ Len(inbox'[d]) <= Capacity
             /\ Dropped(d) \subseteq Events
  <2>1. inbox[d] \in Seq(Events) /\ Len(inbox[d]) <= Capacity /\ Len(inbox[d]) \in Nat
    BY DEF TypeOK
  <2>2. CASE Len(inbox[d]) < Capacity
    <3>1. Dropped(d) = {}
      BY <2>2 DEF Dropped
    <3>2. inbox'[d] = inbox[d] \/ inbox'[d] = Append(inbox[d], event[c])
      BY <3>1 DEF Broadcast
    <3>3. /\ Append(inbox[d], event[c]) \in Seq(Events)
          /\ Len(Append(inbox[d], event[c])) = Len(inbox[d]) + 1
      BY <1>1, <2>1, AppendProperties
    <3>4. Len(inbox[d]) + 1 <= Capacity
      BY <2>1, <2>2
    <3> HIDE DEF Dropped
    <3> QED
      BY <2>1, <3>1, <3>2, <3>3, <3>4
  <2>3. CASE ~(Len(inbox[d]) < Capacity)
    <3>1. inbox[d] # << >>
      BY <2>1, <2>3
    <3>2. /\ Head(inbox[d]) \in Events
          /\ Tail(inbox[d]) \in Seq(Events) /\ Len(Tail(inbox[d])) = Len(inbox[d]) - 1
      BY <2>1, <3>1, HeadTailProperties
    <3>3. Dropped(d) = {Head(inbox[d])}
      BY <2>3 DEF Dropped
    <3>4. inbox'[d] = inbox[d] \/ inbox'[d] = Append(Tail(inbox[d]), event[c])
      BY <3>3 DEF Broadcast
    <3>5. /\ Append(Tail(inbox[d]), event[c]) \in Seq(Events)
          /\ Len(Append(Tail(inbox[d]), event[c])) = Len(inbox[d])
      BY <1>1, <2>1, <3>2, AppendProperties
    <3> QED
      BY <2>1, <3>2, <3>3, <3>4, <3>5
  <2> QED
    BY <2>2, <2>3
<1>3. InboxTypes'
  <2>1. DOMAIN inbox' = Conns /\ inbox' = [d \in Conns |-> inbox'[d]]
    BY DEF Broadcast
  <2> QED
    BY <1>2, <2>1 DEF InboxTypes
<1>4. skipped' \in [Conns -> [Subs -> SUBSET Events]] /\ missed' \in [Conns -> SUBSET Events]
  BY <1>2 DEF Broadcast, TypeOK
<1> QED
  BY <1>3, <1>4 DEF Broadcast, ReqTypes, SentTypes, TypeOK

\* What a delivery records.
LEMMA DeliverTypes ==
  ASSUME TypeOK, NEW c \in Conns, NEW ok \in BOOLEAN, Deliver(c, ok)
  PROVE  CacheTypes' /\ InboxTypes' /\ SentTypes'
<1>1. inbox[c] \in Seq(Events) /\ inbox[c] # << >> /\ Len(inbox[c]) \in Nat
  BY DEF Deliver, TypeOK
<1>2. /\ Head(inbox[c]) \in Events
      /\ Tail(inbox[c]) \in Seq(Events) /\ Len(Tail(inbox[c])) = Len(inbox[c]) - 1
  BY <1>1, HeadTailProperties
<1>3. InboxTypes'
  BY <1>1, <1>2 DEF Deliver, InboxTypes, TypeOK
<1>4. CacheTypes'
  <2> DEFINE u == who[c]
             b == IF ok THEN u \in members ELSE cache[c]
  <2>1. \/ UNCHANGED cacheVars
        \/ /\ cache' = [cache EXCEPT ![c] = b] /\ failed' = [failed EXCEPT ![c] = ~ok]
           /\ age' = [age EXCEPT ![c] = IF ok THEN 0 ELSE age[c]]
    BY DEF Deliver, LoadMemberships
  <2>2. b \in BOOLEAN
    <3>1. cache[c] \in BOOLEAN /\ (u \in members) \in BOOLEAN
      BY DEF TypeOK
    <3> QED
      BY <3>1, Zenon
  <2>4. age[c] \in 0..TTL /\ 0 \in 0..TTL
    BY DEF TypeOK
  <2>3. online' = online /\ who' = who
    BY DEF Deliver
  <2> HIDE DEF b
  <2>5. cache' \in [Conns -> BOOLEAN]
    BY <2>1, <2>2 DEF cacheVars, TypeOK
  <2> DEFINE a == IF ok THEN 0 ELSE age[c]
  <2>6. a \in 0..TTL
    BY <2>4
  <2> HIDE DEF a
  <2>7. failed' \in [Conns -> BOOLEAN]
    BY <2>1 DEF cacheVars, TypeOK
  <2>8. age' = age \/ age' = [age EXCEPT ![c] = a]
    BY <2>1 DEF a, cacheVars
  <2>9. age' \in [Conns -> 0..TTL]
    BY <2>6, <2>8 DEF TypeOK
  <2> QED
    BY <2>3, <2>5, <2>7, <2>9 DEF CacheTypes, TypeOK
<1>5. SentTypes'
  <2>1. ASSUME NEW sets \in [Subs -> SUBSET Events], NEW S
        PROVE  Add(sets, S, Head(inbox[c])) \in [Subs -> SUBSET Events]
    BY <1>2 DEF Add
  <2> DEFINE S == Matching(c, Head(inbox[c]))
  <2>2. \/ /\ received' = [received EXCEPT ![c] = Add(received[c], S, Head(inbox[c]))]
           /\ skipped' = skipped
        \/ /\ skipped' = [skipped EXCEPT ![c] = Add(skipped[c], S, Head(inbox[c]))]
           /\ received' = received
    BY DEF Deliver
  <2>3. subs' = subs
    BY DEF Deliver
  <2>4. /\ Add(received[c], S, Head(inbox[c])) \in [Subs -> SUBSET Events]
        /\ Add(skipped[c], S, Head(inbox[c])) \in [Subs -> SUBSET Events]
    BY <2>1 DEF TypeOK
  <2>5. /\ received \in [Conns -> [Subs -> SUBSET Events]]
        /\ skipped \in [Conns -> [Subs -> SUBSET Events]]
        /\ subs \in [Conns -> [Subs -> SUBSET Filters]]
    BY DEF TypeOK
  <2> HIDE DEF S
  <2>6. received' \in [Conns -> [Subs -> SUBSET Events]]
    BY <2>2, <2>4, <2>5
  <2>7. skipped' \in [Conns -> [Subs -> SUBSET Events]]
    BY <2>2, <2>4, <2>5
  <2> QED
    BY <2>3, <2>5, <2>6, <2>7 DEF SentTypes
<1> QED
  BY <1>3, <1>4, <1>5

\* Every step keeps the types.
LEMMA DeliveryTypeStep == TypeOK /\ [Next]_vars => TypeOK'
<1> SUFFICES ASSUME TypeOK, [Next]_vars PROVE TypeOK'
  OBVIOUS
<1>1. EventsTypeOK'
  BY StoreMoves, TypeStep, TypeParts
<1> DEFINE
     Others == GroupTypes /\ CacheTypes /\ InboxTypes /\ ReqTypes /\ SentTypes
<1>a. Others
  BY TypeParts
<1>b. Others' => TypeOK'
  BY <1>1 DEF TypeOK, GroupTypes, CacheTypes, InboxTypes, ReqTypes, SentTypes
<1>c. UNCHANGED groupVars => GroupTypes'
  BY <1>a DEF groupVars, GroupTypes
<1>d. UNCHANGED <<online, who, cacheVars>> => CacheTypes'
  BY <1>a DEF cacheVars, CacheTypes
<1>e. UNCHANGED inbox => InboxTypes'
  BY <1>a DEF InboxTypes
<1>f. UNCHANGED reqVars => ReqTypes'
  BY <1>a DEF reqVars, ReqTypes
<1>g. UNCHANGED sentVars => SentTypes'
  BY <1>a DEF sentVars, SentTypes
<1> SUFFICES Others'
  BY <1>b
<1>2. CASE UNCHANGED vars
  BY <1>c, <1>d, <1>e, <1>f, <1>g, <1>2 DEF vars, connVars
<1>3. ASSUME NEW c \in Conns, Connect(c) PROVE Others'
  <2>1. CacheTypes'
    BY <1>3 DEF Connect, CacheTypes, TypeOK
  <2> QED
    BY <1>c, <1>d, <1>e, <1>f, <1>g, <1>3, <2>1 DEF Connect
<1>4. ASSUME NEW c \in Conns, Disconnect(c) PROVE Others'
  <2>1. CacheTypes'
    BY <1>4 DEF Disconnect, CacheTypes, TypeOK
  <2>2. InboxTypes'
    <3>1. << >> \in Seq(Events) /\ Len(<< >>) = 0
      OBVIOUS
    <3> QED
      BY <1>4, <3>1 DEF Disconnect, InboxTypes, TypeOK
  <2>3. SentTypes'
    <3>1. Cleared \in [Subs -> SUBSET Filters] /\ Cleared \in [Subs -> SUBSET Events]
      BY DEF Cleared
    <3> HIDE DEF Cleared
    <3> QED
      BY <1>4, <3>1 DEF Disconnect, SentTypes, TypeOK
  <2> QED
    BY <1>c, <1>d, <1>e, <1>f, <1>g, <1>4, <2>1, <2>2, <2>3 DEF Disconnect
<1>5. ASSUME NEW c \in Conns, NEW u \in Users, NEW ok \in BOOLEAN, Auth(c, u, ok) PROVE Others'
  <2>1. CacheTypes'
    <3>1. cache' = [cache EXCEPT ![c] = IF ok THEN u \in members ELSE cache[c]]
      BY <1>5 DEF Auth, LoadMemberships
    <3>2. (IF ok THEN u \in members ELSE cache[c]) \in BOOLEAN
      <4>1. cache[c] \in BOOLEAN /\ (u \in members) \in BOOLEAN
        BY DEF TypeOK
      <4> QED
        BY <4>1, Zenon
    <3>3. cache' \in [Conns -> BOOLEAN]
      BY <3>1, <3>2 DEF TypeOK
    <3>4. who' \in [Conns -> Users \cup {NoUser}] /\ online' = online
      BY <1>5 DEF Auth, TypeOK
    <3>5. failed' \in [Conns -> BOOLEAN] /\ age' \in [Conns -> 0..TTL]
      BY <1>5 DEF Auth, LoadMemberships, TypeOK
    <3> QED
      BY <3>3, <3>4, <3>5 DEF CacheTypes, TypeOK
  <2> QED
    BY <1>c, <1>d, <1>e, <1>f, <1>g, <1>5, <2>1 DEF Auth
<1>6. ASSUME UNCHANGED <<groupVars, connVars>> PROVE Others'
  BY <1>c, <1>d, <1>e, <1>f, <1>g, <1>6 DEF connVars
<1>7. ASSUME NEW c \in Conns, Broadcast(c) PROVE Others'
  BY <1>c, <1>d, <1>7, BroadcastTypes DEF Broadcast
<1>8. ASSUME NEW c \in Conns, NEW s \in Subs, NEW fs \in SUBSET Filters, Req(c, s, fs)
      PROVE  Others'
  <2>1. ReqTypes'
    BY <1>8 DEF Req, ReqTypes, TypeOK
  <2> QED
    BY <1>c, <1>d, <1>e, <1>f, <1>g, <1>8, <2>1 DEF Req
<1>9. ASSUME NEW c \in Conns, NEW f \in Filters, NEW ok \in BOOLEAN, Query(c, f, ok)
      PROVE  Others'
  <2>1. ReqTypes'
    <3>1. Matches[f] \subseteq Events /\ rows \subseteq Events
      BY DEF TypeOK, EventsTypeOK
    <3> DEFINE result == IF ok THEN {e \in rows \cap Matches[f] : Readable(e, who[c])} ELSE {}
    <3>2. result \subseteq Events /\ (rows \cap Matches[f]) \ result \subseteq Events
      BY <3>1
    <3>3. /\ todo' = [todo EXCEPT ![c] = todo[c] \ {f}]
          /\ found' = [found EXCEPT ![c] = found[c] \cup result]
          /\ missed' = [missed EXCEPT ![c] = missed[c] \cup ((rows \cap Matches[f]) \ result)]
          /\ opening' = opening /\ wanted' = wanted
      BY <1>9 DEF Query
    <3> HIDE DEF result
    <3> QED
      BY <3>2, <3>3 DEF ReqTypes, TypeOK
  <2> QED
    BY <1>c, <1>d, <1>e, <1>f, <1>g, <1>9, <2>1 DEF Query
<1>10. ASSUME NEW c \in Conns, Register(c) PROVE Others'
  <2>1. ReqTypes'
    BY <1>10 DEF Register, ReqTypes, TypeOK
  <2>2. SentTypes'
    <3>1. /\ opening[c] \in Subs /\ wanted[c] \in SUBSET Filters
          /\ found[c] \in SUBSET Events /\ missed[c] \in SUBSET Events
      BY <1>10 DEF Register, TypeOK
    <3>2. \/ UNCHANGED sentVars
          \/ /\ subs' = [subs EXCEPT ![c][opening[c]] = wanted[c]]
             /\ received' = [received EXCEPT ![c][opening[c]] = found[c]]
             /\ skipped' = [skipped EXCEPT ![c][opening[c]] = missed[c]]
      BY <1>10 DEF Register
    <3>3. /\ subs \in [Conns -> [Subs -> SUBSET Filters]]
          /\ received \in [Conns -> [Subs -> SUBSET Events]]
          /\ skipped \in [Conns -> [Subs -> SUBSET Events]]
      BY DEF TypeOK
    <3>4. subs' \in [Conns -> [Subs -> SUBSET Filters]]
      <4>1. [subs EXCEPT ![c][opening[c]] = wanted[c]] \in [Conns -> [Subs -> SUBSET Filters]]
        BY <3>1, <3>3, NestedExcept
      <4>2. subs' = subs \/ subs' = [subs EXCEPT ![c][opening[c]] = wanted[c]]
        BY <3>2 DEF sentVars
      <4> QED
        BY <3>3, <4>1, <4>2
    <3>5. received' \in [Conns -> [Subs -> SUBSET Events]]
      <4>1. [received EXCEPT ![c][opening[c]] = found[c]] \in [Conns -> [Subs -> SUBSET Events]]
        BY <3>1, <3>3, NestedExcept
      <4>2. received' = received \/ received' = [received EXCEPT ![c][opening[c]] = found[c]]
        BY <3>2 DEF sentVars
      <4> QED
        BY <3>3, <4>1, <4>2
    <3>6. skipped' \in [Conns -> [Subs -> SUBSET Events]]
      <4>1. [skipped EXCEPT ![c][opening[c]] = missed[c]] \in [Conns -> [Subs -> SUBSET Events]]
        BY <3>1, <3>3, NestedExcept
      <4>2. skipped' = skipped \/ skipped' = [skipped EXCEPT ![c][opening[c]] = missed[c]]
        BY <3>2 DEF sentVars
      <4> QED
        BY <3>3, <4>1, <4>2
    <3> QED
      BY <3>4, <3>5, <3>6 DEF SentTypes
  <2> QED
    BY <1>c, <1>d, <1>e, <1>f, <1>g, <1>10, <2>1, <2>2 DEF Register
<1>11. ASSUME NEW c \in Conns, NEW s \in Subs, Close(c, s) PROVE Others'
  <2>1. SentTypes'
    BY <1>11 DEF Close, SentTypes, TypeOK
  <2> QED
    BY <1>c, <1>d, <1>e, <1>f, <1>g, <1>11, <2>1 DEF Close
<1>12. ASSUME NEW c \in Conns, NEW ok \in BOOLEAN, Deliver(c, ok) PROVE Others'
  BY <1>c, <1>f, <1>12, DeliverTypes DEF Deliver
<1>13. ASSUME NEW u \in Users, ChangeMembership(u) PROVE Others'
  <2>1. GroupTypes'
    BY <1>13 DEF ChangeMembership, GroupTypes, TypeOK
  <2> QED
    BY <1>d, <1>e, <1>f, <1>g, <1>13, <2>1 DEF ChangeMembership, connVars
<1>14. CASE Tick
  <2>1. ASSUME NEW n \in 0..TTL PROVE Aged(n) \in 0..TTL
    BY DEF Aged
  <2>2. settled' \in [Users -> 0..TTL] /\ age' \in [Conns -> 0..TTL]
    BY <1>14, <2>1 DEF Tick, TypeOK
  <2>3. GroupTypes' /\ CacheTypes'
    BY <1>14, <2>2, <1>a DEF Tick, cacheVars, GroupTypes, CacheTypes
  <2> QED
    BY <1>e, <1>f, <1>g, <1>14, <2>3 DEF Tick
<1>15. CASE RestartRelay
  <2>1. CacheTypes' /\ ReqTypes'
    BY <1>15 DEF RestartRelay, CacheTypes, ReqTypes, TypeOK
  <2>2. InboxTypes'
    <3>1. << >> \in Seq(Events) /\ Len(<< >>) = 0
      OBVIOUS
    <3> QED
      BY <1>15, <3>1 DEF RestartRelay, InboxTypes
  <2>3. SentTypes'
    BY <1>15 DEF RestartRelay, Cleared, SentTypes
  <2> QED
    BY <1>c, <1>d, <1>e, <1>f, <1>g, <1>15, <2>1, <2>2, <2>3 DEF RestartRelay
<1> QED
  BY <1>2, <1>3, <1>4, <1>5, <1>6, <1>7, <1>8, <1>9, <1>10, <1>11, <1>12, <1>13, <1>14, <1>15
  DEF Next, Post, StoreStep

\* Type correctness: no receiver ever holds more than the channel keeps.
THEOREM DeliveryTypeInvariant == Spec => []TypeOK
<1>1. Init => TypeOK
  <2> SUFFICES ASSUME Init PROVE TypeOK
    OBVIOUS
  <2>1. EventsTypeOK
    BY DEF Init, EventsInit, EventsTypeOK, Steps
  <2>2. GroupTypes /\ CacheTypes /\ ReqTypes /\ SentTypes
    BY DEF Init, GroupTypes, CacheTypes, ReqTypes, SentTypes, Cleared
  <2>3. InboxTypes
    <3>1. << >> \in Seq(Events) /\ Len(<< >>) = 0
      OBVIOUS
    <3> QED
      BY <3>1 DEF Init, InboxTypes
  <2> QED
    BY <2>1, <2>2, <2>3, TypeParts
<1> QED
  BY <1>1, DeliveryTypeStep, PTL DEF Spec

-----------------------------------------------------------------------------
\* An event that will still reach connection c: about to be broadcast, or
\* waiting in its receiver.
Sending(e) == \E d \in Conns : step[d] = "send" /\ event[d] = e
Waiting(c, e) == \E i \in 1..Len(inbox[c]) : inbox[c][i] = e
Pending(c, e) == Waiting(c, e) \/ Sending(e)

\* The invariant of a subscription being opened: what is stored and matches a
\* filter already queried was found, was missed, or is still to come.
OpeningNoGap ==
  \A c \in online : opening[c] # NoSub =>
    \A e \in rows \cap Covered(wanted[c] \ todo[c]) :
      e \in found[c] \cup missed[c] \/ Pending(c, e)

\* A closed connection has no subscription, open or being opened.
Offline == \A c \in Conns \ online : opening[c] = NoSub /\ subs[c] = Cleared

Gaps == NoGap /\ OpeningNoGap /\ Offline

\* No filter covers no event.
LEMMA CoveredNone == Covered({}) = {}
BY DEF Covered

\* The publishing side adds a row only to broadcast it, and forgets no
\* broadcast.
LEMMA StoreKeepsSending ==
  ASSUME EventsTypeOK, NEW c \in Conns,
         (\E e \in Events : Publish(c, e)) \/ Erase(c) \/ Store(c)
  PROVE  /\ \A e \in rows' : e \in rows \/ Sending(e)'
         /\ \A e : Sending(e) => Sending(e)'
<1>1. step[c] # "send"
  BY DEF Publish, Erase, EraseId, EraseAddress, Erased, Store, StoreTransaction, DeleteOlder, Insert
<1>2. \A d \in Conns \ {c} : step'[d] = step[d] /\ event'[d] = event[d]
  BY DEF EventsTypeOK, Publish, Erase, EraseId, EraseAddress, Erased, Store, StoreTransaction,
     DeleteOlder, Insert, InsertInto
<1>3. \A e : Sending(e) => Sending(e)'
  BY <1>1, <1>2 DEF Sending
<1>4. CASE rows' \subseteq rows
  BY <1>3, <1>4
<1>5. CASE ~(rows' \subseteq rows)
  <2>1. PICK table \in SUBSET rows : InsertInto(c, table)
    BY <1>5 DEF Publish, Erase, EraseId, EraseAddress, Erased, Removed, Store, StoreTransaction,
       DeleteOlder, Insert
  <2>2. /\ rows' = table \cup {event[c]}
        /\ step' = [step EXCEPT ![c] = "send"] /\ event' = event
    BY <1>5, <2>1 DEF InsertInto
  <2>3. Sending(event[c])'
    BY <2>2 DEF EventsTypeOK, Sending
  <2> QED
    BY <1>3, <2>2, <2>3
<1> QED
  BY <1>4, <1>5

\* A step that leaves the connections alone and keeps what is to be sent.
LEMMA GapsSame ==
  ASSUME Gaps, UNCHANGED <<online, inbox, reqVars, sentVars>>,
         \A e \in rows' : e \in rows \/ Sending(e)',
         \A e : Sending(e) => Sending(e)'
  PROVE  Gaps'
<1>1. \A c, e : Pending(c, e) => Pending(c, e)'
  BY DEF Pending, Waiting
<1>2. \A c, e : e \in rows' => e \in rows \/ Pending(c, e)'
  BY DEF Pending
<1>3. \A fs : Covered(fs)' = Covered(fs)
  BY DEF Covered
<1>4. NoGap'
  <2>1. \A c \in online, t \in Subs : \A e \in rows \cap Covered(subs[c][t]) :
          e \in received[c][t] \cup skipped[c][t] \/ Pending(c, e)
    BY DEF Gaps, NoGap, Pending, Waiting, Sending
  <2>2. \A c \in online', t \in Subs : \A e \in rows' \cap Covered(subs'[c][t]) :
          e \in received'[c][t] \cup skipped'[c][t] \/ Pending(c, e)'
    BY <1>1, <1>2, <1>3, <2>1 DEF sentVars
  <2> QED
    BY <2>2 DEF NoGap, Pending, Waiting, Sending
<1>5. OpeningNoGap'
  BY <1>1, <1>2, <1>3 DEF Gaps, OpeningNoGap, reqVars
<1>6. Offline'
  BY DEF Gaps, Offline, Cleared, reqVars, sentVars
<1> QED
  BY <1>4, <1>5, <1>6 DEF Gaps

\* A broadcast reaches every receiver; what it does not keep, it drops.
LEMMA BroadcastKeepsPending ==
  ASSUME TypeOK, NEW c \in Conns, Broadcast(c), NEW d \in online, NEW e, Pending(d, e)
  PROVE  Pending(d, e)' \/ e \in Dropped(d)
<1>1. d \in Conns /\ event[c] \in Events
  BY DEF Broadcast, Send, TypeOK, EventsTypeOK
<1>2. inbox[d] \in Seq(Events) /\ Len(inbox[d]) \in Nat
  BY <1>1 DEF TypeOK
<1> DEFINE kept == IF Dropped(d) = {} THEN inbox[d] ELSE Tail(inbox[d])
<1>3. inbox'[d] = Append(kept, event[c])
  BY <1>1 DEF Broadcast
<1>4. Dropped(d) = {} \/ (inbox[d] # << >> /\ Dropped(d) = {Head(inbox[d])})
  BY <1>2 DEF Dropped
<1>5. kept \in Seq(Events) /\ Len(kept) \in Nat
  BY <1>2, <1>4, HeadTailProperties
<1>6. Waiting(d, e) => e \in Dropped(d) \/ \E i \in 1..Len(kept) : kept[i] = e
  <2>1. CASE Dropped(d) = {}
    BY <2>1 DEF Waiting
  <2>2. ASSUME Dropped(d) # {}, NEW i \in 1..Len(inbox[d]), inbox[d][i] = e
        PROVE  e \in Dropped(d) \/ \E j \in 1..Len(kept) : kept[j] = e
    <3>1. inbox[d] # << >> /\ Dropped(d) = {Head(inbox[d])} /\ kept = Tail(inbox[d])
      BY <1>4, <2>2
    <3>2. CASE i = 1
      BY <1>2, <2>2, <3>1, <3>2, HeadTailProperties
    <3>3. CASE i # 1
      <4>1. i - 1 \in 1..Len(Tail(inbox[d])) /\ Tail(inbox[d])[i - 1] = e
        BY <1>2, <2>2, <3>1, <3>3, HeadTailProperties
      <4> QED
        BY <3>1, <4>1
    <3> QED
      BY <3>2, <3>3
  <2> HIDE DEF kept
  <2> QED
    BY <2>1, <2>2 DEF Waiting
<1> HIDE DEF kept
<1>7. /\ Len(Append(kept, event[c])) = Len(kept) + 1
      /\ \A i \in 1..Len(kept) : Append(kept, event[c])[i] = kept[i]
      /\ Append(kept, event[c])[Len(kept) + 1] = event[c]
  BY <1>1, <1>5, AppendProperties
<1>8. CASE Waiting(d, e)
  BY <1>3, <1>5, <1>6, <1>7, <1>8 DEF Pending, Waiting
<1>9. CASE Sending(e)
  <2>1. PICK b \in Conns : step[b] = "send" /\ event[b] = e
    BY <1>9 DEF Sending
  <2>2. CASE b = c
    <3>1. inbox'[d][Len(inbox'[d])] = e /\ Len(inbox'[d]) \in 1..Len(inbox'[d])
      BY <1>3, <1>5, <1>7, <2>1, <2>2
    <3> QED
      BY <3>1 DEF Pending, Waiting
  <2>3. CASE b # c
    BY <2>1, <2>3 DEF Broadcast, Send, Pending, Sending, TypeOK, EventsTypeOK
  <2> QED
    BY <2>2, <2>3
<1> QED
  BY <1>8, <1>9 DEF Pending

\* A broadcast leaves no gap: what it drops is recorded.
LEMMA BroadcastGaps == ASSUME TypeOK, Gaps, NEW c \in Conns, Broadcast(c) PROVE Gaps'
<1>1. /\ online' = online /\ opening' = opening /\ wanted' = wanted /\ todo' = todo
      /\ found' = found /\ subs' = subs /\ received' = received /\ rows' = rows
  BY DEF Broadcast, Send
<1>2. online \subseteq Conns
  BY DEF TypeOK
<1>3. \A fs : Covered(fs)' = Covered(fs)
  BY DEF Covered
<1>4. ASSUME NEW d \in online, NEW t \in Subs
      PROVE  skipped'[d][t] = skipped[d][t] \cup (Dropped(d) \cap Covered(subs[d][t]))
  BY <1>2 DEF Broadcast
<1>5. ASSUME NEW d \in online
      PROVE  missed'[d] = missed[d] \cup (Dropped(d) \cap Covered(wanted[d]))
  BY <1>2 DEF Broadcast
<1>6. NoGap'
  <2>1. ASSUME NEW d \in online, NEW t \in Subs, NEW e \in rows \cap Covered(subs[d][t])
        PROVE  e \in received[d][t] \cup skipped'[d][t] \/ Pending(d, e)'
    <3>1. e \in received[d][t] \cup skipped[d][t] \/ Pending(d, e)
      BY DEF Gaps, NoGap, Pending, Waiting, Sending
    <3> QED
      BY <1>4, <3>1, BroadcastKeepsPending
  <2> QED
    BY <1>1, <1>3, <2>1 DEF NoGap, Pending, Waiting, Sending
<1>7. OpeningNoGap'
  <2>1. ASSUME NEW d \in online, opening[d] # NoSub,
               NEW e \in rows \cap Covered(wanted[d] \ todo[d])
        PROVE  e \in found[d] \cup missed'[d] \/ Pending(d, e)'
    <3>1. e \in found[d] \cup missed[d] \/ Pending(d, e)
      BY <2>1 DEF Gaps, OpeningNoGap
    <3>2. e \in Covered(wanted[d])
      BY DEF Covered
    <3> QED
      BY <1>5, <3>1, <3>2, BroadcastKeepsPending
  <2> QED
    BY <1>1, <1>3, <2>1 DEF OpeningNoGap
<1>8. Offline'
  BY <1>1 DEF Gaps, Offline, Cleared
<1> QED
  BY <1>6, <1>7, <1>8 DEF Gaps

\* A query finds or misses each row it is about.
LEMMA QueryGaps ==
  ASSUME TypeOK, Gaps, NEW c \in Conns, NEW f \in Filters, NEW ok \in BOOLEAN, Query(c, f, ok)
  PROVE  Gaps'
<1> DEFINE result == IF ok THEN {e \in rows \cap Matches[f] : Readable(e, who[c])} ELSE {}
<1>1. /\ todo' = [todo EXCEPT ![c] = todo[c] \ {f}]
      /\ found' = [found EXCEPT ![c] = found[c] \cup result]
      /\ missed' = [missed EXCEPT ![c] = missed[c] \cup ((rows \cap Matches[f]) \ result)]
  BY DEF Query
<1> HIDE DEF result
<1>2. UNCHANGED <<eventsVars, online, inbox, opening, wanted, sentVars>>
  BY DEF Query
<1>3. \A d, e : Pending(d, e)' <=> Pending(d, e)
  <2>1. step' = step /\ event' = event /\ inbox' = inbox
    BY <1>2 DEF eventsVars, taskVars
  <2> QED
    BY <2>1 DEF Pending, Waiting, Sending
<1>4. \A fs : Covered(fs)' = Covered(fs)
  BY DEF Covered
<1>5. OpeningNoGap'
  <2>1. ASSUME NEW d \in online, opening[d] # NoSub,
               NEW e \in rows \cap Covered(wanted[d] \ todo'[d])
        PROVE  e \in found'[d] \cup missed'[d] \/ Pending(d, e)
    <3>1. d \in Conns
      BY DEF TypeOK
    <3>2. CASE d # c \/ e \in Covered(wanted[d] \ todo[d])
      <4>1. e \in Covered(wanted[d] \ todo[d])
        BY <1>1, <3>1, <3>2 DEF TypeOK
      <4>2. e \in found[d] \cup missed[d] \/ Pending(d, e)
        BY <2>1, <4>1 DEF Gaps, OpeningNoGap
      <4>3. found[d] \subseteq found'[d] /\ missed[d] \subseteq missed'[d]
        BY <1>1, <3>1 DEF TypeOK
      <4> QED
        BY <4>2, <4>3
    <3>3. CASE d = c /\ e \notin Covered(wanted[d] \ todo[d])
      <4>1. todo'[c] = todo[c] \ {f}
        BY <1>1 DEF TypeOK
      <4>2. e \in Matches[f]
        BY <3>3, <4>1 DEF Covered
      <4>3. e \in found'[c] \cup missed'[c]
        BY <1>1, <4>2 DEF TypeOK
      <4> QED
        BY <3>3, <4>3
    <3> QED
      BY <3>2, <3>3
  <2> QED
    BY <1>2, <1>3, <1>4, <2>1 DEF OpeningNoGap, eventsVars
<1>6. NoGap'
  <2>1. /\ rows' = rows /\ step' = step /\ event' = event /\ online' = online /\ inbox' = inbox
        /\ subs' = subs /\ received' = received /\ skipped' = skipped
    BY <1>2 DEF eventsVars, taskVars, sentVars
  <2> QED
    BY <1>4, <2>1 DEF Gaps, NoGap
<1>7. Offline'
  BY <1>2 DEF Gaps, Offline, Cleared, sentVars
<1> QED
  BY <1>5, <1>6, <1>7 DEF Gaps

\* A subscription starts from what its REQ found and missed.
LEMMA RegisterGaps == ASSUME TypeOK, Gaps, NEW c \in Conns, Register(c) PROVE Gaps'
<1> DEFINE o == opening[c]
<1>1. /\ opening' = [opening EXCEPT ![c] = NoSub]
      /\ o \in Subs /\ o # NoSub /\ todo[c] = {}
      /\ UNCHANGED <<eventsVars, online, inbox, todo>>
  BY DEF Register, TypeOK
<1>2. \/ UNCHANGED sentVars
      \/ /\ subs' = [subs EXCEPT ![c][o] = wanted[c]]
         /\ received' = [received EXCEPT ![c][o] = found[c]]
         /\ skipped' = [skipped EXCEPT ![c][o] = missed[c]]
  BY DEF Register
<1> HIDE DEF o
<1>3. c \in online
  BY <1>1 DEF Gaps, Offline, o
<1>4. \A d, e : Pending(d, e)' <=> Pending(d, e)
  <2>1. step' = step /\ event' = event /\ inbox' = inbox
    BY <1>1 DEF eventsVars, taskVars
  <2> QED
    BY <2>1 DEF Pending, Waiting, Sending
<1>5. \A fs : Covered(fs)' = Covered(fs)
  BY DEF Covered
<1>6. ASSUME NEW d \in online, NEW t \in Subs, NEW e \in rows \cap Covered(subs'[d][t])
      PROVE  e \in received'[d][t] \cup skipped'[d][t] \/ Pending(d, e)
  <2>1. d \in Conns
    BY DEF TypeOK
  <2>2. CASE e \in Covered(subs[d][t]) /\ received'[d][t] = received[d][t]
             /\ skipped'[d][t] = skipped[d][t]
    BY <2>2 DEF Gaps, NoGap, Pending, Waiting, Sending
  <2>3. CASE d # c \/ t # o \/ UNCHANGED sentVars
    <3>1. /\ subs'[d][t] = subs[d][t] /\ received'[d][t] = received[d][t]
          /\ skipped'[d][t] = skipped[d][t]
      BY <1>2, <2>1, <2>3 DEF TypeOK, sentVars
    <3> QED
      BY <2>2, <3>1
  <2>4. CASE d = c /\ t = o /\ ~UNCHANGED sentVars
    <3>1. /\ subs'[c][o] = wanted[c] /\ received'[c][o] = found[c]
          /\ skipped'[c][o] = missed[c]
      BY <1>1, <1>2, <2>4 DEF TypeOK
    <3>2. wanted[c] \ todo[c] = wanted[c] /\ opening[c] # NoSub
      BY <1>1 DEF o
    <3> QED
      BY <1>3, <2>4, <3>1, <3>2 DEF Gaps, OpeningNoGap
  <2> QED
    BY <2>3, <2>4
<1>7. NoGap'
  <2>1. ASSUME NEW d \in online, NEW t \in Subs, NEW e \in rows \cap Covered(subs'[d][t])
        PROVE  e \in received'[d][t] \cup skipped'[d][t] \/ Pending(d, e)'
    BY <1>4, <1>6
  <2> QED
    BY <1>1, <1>5, <2>1 DEF NoGap, Pending, Waiting, Sending, eventsVars
<1>8. OpeningNoGap'
  <2>1. ASSUME NEW d \in online, opening'[d] # NoSub
        PROVE  opening[d] # NoSub /\ wanted'[d] = wanted[d] /\ todo'[d] = todo[d]
               /\ found'[d] = found[d] /\ missed'[d] = missed[d]
    BY <1>1, <2>1 DEF Register, TypeOK
  <2>2. ASSUME NEW d \in online, opening'[d] # NoSub,
               NEW e \in rows \cap Covered(wanted'[d] \ todo'[d])
        PROVE  e \in found'[d] \cup missed'[d] \/ Pending(d, e)
    BY <2>1, <2>2 DEF Gaps, OpeningNoGap
  <2> QED
    BY <1>1, <1>4, <1>5, <2>2 DEF OpeningNoGap, eventsVars
<1>9. Offline'
  <2>1. ASSUME NEW d \in Conns \ online PROVE opening'[d] = NoSub /\ subs'[d] = subs[d]
    BY <1>1, <1>2, <1>3 DEF Gaps, Offline, TypeOK, sentVars
  <2> QED
    BY <1>1, <2>1 DEF Gaps, Offline, Cleared
<1> QED
  BY <1>7, <1>8, <1>9 DEF Gaps

\* An event received is sent or left out for every subscription it matches.
LEMMA DeliverGaps ==
  ASSUME TypeOK, Gaps, NEW c \in Conns, NEW ok \in BOOLEAN, Deliver(c, ok)
  PROVE  Gaps'
<1> DEFINE h == Head(inbox[c])
           S == Matching(c, h)
<1>1. /\ opening[c] = NoSub
      /\ inbox[c] # << >> /\ inbox' = [inbox EXCEPT ![c] = Tail(inbox[c])]
      /\ UNCHANGED <<eventsVars, online, reqVars, subs>>
  BY DEF Deliver, Free
<1>2. \/ received' = [received EXCEPT ![c] = Add(received[c], S, h)] /\ skipped' = skipped
      \/ skipped' = [skipped EXCEPT ![c] = Add(skipped[c], S, h)] /\ received' = received
  BY DEF Deliver
<1>3. inbox[c] \in Seq(Events) /\ Len(inbox[c]) \in Nat
  BY DEF TypeOK
<1>4. ASSUME NEW d \in Conns, NEW e, Pending(d, e), d # c \/ e # h
      PROVE  Pending(d, e)'
  <2>1. CASE Sending(e)
    BY <1>1, <2>1 DEF Pending, Sending, eventsVars, taskVars
  <2>2. CASE Waiting(d, e) /\ d # c
    BY <1>1, <2>2 DEF Pending, Waiting, TypeOK
  <2>3. CASE Waiting(d, e) /\ d = c
    <3>1. PICK i \in 1..Len(inbox[c]) : inbox[c][i] = e
      BY <2>3 DEF Waiting
    <3>2. i # 1
      BY <1>1, <1>3, <1>4, <2>3, <3>1, HeadTailProperties
    <3>3. i - 1 \in 1..Len(Tail(inbox[c])) /\ Tail(inbox[c])[i - 1] = e
      BY <1>1, <1>3, <3>1, <3>2, HeadTailProperties
    <3>4. inbox'[c] = Tail(inbox[c])
      BY <1>1 DEF TypeOK
    <3> QED
      BY <2>3, <3>3, <3>4 DEF Pending, Waiting
  <2> QED
    BY <1>4, <2>1, <2>2, <2>3 DEF Pending
<1>5. \A fs : Covered(fs)' = Covered(fs)
  BY DEF Covered
<1>6. ASSUME NEW t \in Subs, h \in Covered(subs[c][t])
      PROVE  h \in received'[c][t] \cup skipped'[c][t]
  <2>1. t \in S
    BY <1>6 DEF Matching
  <2>2. ASSUME NEW sets PROVE h \in Add(sets, S, h)[t]
    BY <2>1 DEF Add
  <2> HIDE DEF S, h
  <2> QED
    BY <1>2, <2>2 DEF TypeOK
<1>7. ASSUME NEW d \in Conns, NEW t \in Subs
      PROVE  /\ received[d][t] \subseteq received'[d][t]
             /\ skipped[d][t] \subseteq skipped'[d][t]
  <2>1. ASSUME NEW sets PROVE sets[t] \subseteq Add(sets, S, h)[t]
    BY DEF Add
  <2> HIDE DEF S, h
  <2> QED
    BY <1>2, <2>1 DEF TypeOK
<1> HIDE DEF S, h
<1>8. NoGap'
  <2>1. ASSUME NEW d \in online, NEW t \in Subs, NEW e \in rows \cap Covered(subs[d][t])
        PROVE  e \in received'[d][t] \cup skipped'[d][t] \/ Pending(d, e)'
    <3>1. d \in Conns
      BY DEF TypeOK
    <3>2. e \in received[d][t] \cup skipped[d][t] \/ Pending(d, e)
      BY DEF Gaps, NoGap, Pending, Waiting, Sending
    <3> QED
      BY <1>4, <1>6, <1>7, <3>1, <3>2
  <2> QED
    BY <1>1, <1>5, <2>1 DEF NoGap, Pending, Waiting, Sending, eventsVars
<1>9. OpeningNoGap'
  <2>1. ASSUME NEW d \in online, opening[d] # NoSub,
               NEW e \in rows \cap Covered(wanted[d] \ todo[d])
        PROVE  e \in found[d] \cup missed[d] \/ Pending(d, e)'
    <3>1. d \in Conns /\ d # c
      BY <1>1, <2>1 DEF TypeOK
    <3>2. e \in found[d] \cup missed[d] \/ Pending(d, e)
      BY <2>1 DEF Gaps, OpeningNoGap
    <3> QED
      BY <1>4, <3>1, <3>2
  <2> QED
    BY <1>1, <1>5, <2>1 DEF OpeningNoGap, eventsVars, reqVars
<1>10. Offline'
  BY <1>1 DEF Gaps, Offline, Cleared, reqVars
<1> QED
  BY <1>8, <1>9, <1>10 DEF Gaps

\* A connection without subscriptions covers nothing.
LEMMA CoveredCleared == \A t \in Subs : Covered(Cleared[t]) = {}
BY DEF Covered, Cleared

\* Connecting, a REQ that arrives, CLOSE and disconnecting leave no gap.
LEMMA SessionGaps ==
  ASSUME TypeOK, Gaps, NEW c \in Conns,
         \/ Connect(c) \/ Disconnect(c)
         \/ \E t \in Subs, fs \in SUBSET Filters : Req(c, t, fs)
         \/ \E t \in Subs : Close(c, t)
  PROVE  Gaps'
<1>1. eventsVars' = eventsVars
  BY DEF Connect, Disconnect, Req, Close
<1>2. \A e : Sending(e)' <=> Sending(e)
  BY <1>1 DEF Sending, eventsVars, taskVars
<1>3. \A fs : Covered(fs)' = Covered(fs)
  BY DEF Covered
<1>4. ASSUME NEW d \in online', NEW t \in Subs, NEW e \in Covered(subs'[d][t])
      PROVE  /\ d \in online /\ e \in Covered(subs[d][t]) /\ inbox'[d] = inbox[d]
             /\ received'[d][t] = received[d][t] /\ skipped'[d][t] = skipped[d][t]
  <2>1. CASE Connect(c)
    <3>1. d # c
      BY <2>1, CoveredCleared DEF Connect, sentVars, Gaps, Offline
    <3> QED
      BY <2>1, <3>1 DEF Connect, sentVars
  <2>2. CASE Disconnect(c)
    BY <2>2 DEF Disconnect, TypeOK
  <2>3. CASE \E w \in Subs, fs \in SUBSET Filters : Req(c, w, fs)
    BY <2>3 DEF Req, sentVars
  <2>4. ASSUME NEW w \in Subs, Close(c, w)
        PROVE  /\ d \in online /\ e \in Covered(subs[d][t]) /\ inbox'[d] = inbox[d]
               /\ received'[d][t] = received[d][t] /\ skipped'[d][t] = skipped[d][t]
    <3>1. d \in Conns /\ d \in online /\ inbox' = inbox
      BY <2>4 DEF Close, TypeOK
    <3>2. d # c \/ t # w
      BY <2>4, CoveredNone DEF Close, TypeOK
    <3>3. /\ subs'[d][t] = subs[d][t]
          /\ received'[d][t] = received[d][t] /\ skipped'[d][t] = skipped[d][t]
      BY <2>4, <3>1, <3>2 DEF Close, TypeOK
    <3> QED
      BY <3>1, <3>3
  <2> QED
    BY <2>1, <2>2, <2>3, <2>4
<1>5. NoGap'
  <2>1. ASSUME NEW d \in online', NEW t \in Subs, NEW e \in rows \cap Covered(subs'[d][t])
        PROVE  e \in received'[d][t] \cup skipped'[d][t] \/ Pending(d, e)'
    <3>1. /\ d \in online /\ e \in Covered(subs[d][t]) /\ inbox'[d] = inbox[d]
          /\ received'[d][t] = received[d][t] /\ skipped'[d][t] = skipped[d][t]
      BY <1>4
    <3>2. e \in received[d][t] \cup skipped[d][t] \/ Pending(d, e)
      BY <3>1 DEF Gaps, NoGap, Pending, Waiting, Sending
    <3>3. Pending(d, e) => Pending(d, e)'
      BY <1>2, <3>1 DEF Pending, Waiting
    <3> QED
      BY <3>1, <3>2, <3>3
  <2> QED
    BY <1>1, <1>3, <2>1 DEF NoGap, Pending, Waiting, Sending, eventsVars
<1>6. ASSUME NEW d \in online', opening'[d] # NoSub,
             NEW e \in Covered(wanted'[d] \ todo'[d])
      PROVE  /\ d \in online /\ opening[d] # NoSub /\ e \in Covered(wanted[d] \ todo[d])
             /\ inbox'[d] = inbox[d] /\ found'[d] = found[d] /\ missed'[d] = missed[d]
  <2>1. CASE Connect(c)
    BY <1>6, <2>1 DEF Connect, reqVars, Gaps, Offline
  <2>2. CASE Disconnect(c)
    BY <1>6, <2>2 DEF Disconnect, reqVars, TypeOK
  <2>3. ASSUME NEW w \in Subs, NEW fs \in SUBSET Filters, Req(c, w, fs)
        PROVE  /\ d \in online /\ opening[d] # NoSub /\ e \in Covered(wanted[d] \ todo[d])
               /\ inbox'[d] = inbox[d] /\ found'[d] = found[d] /\ missed'[d] = missed[d]
    <3>1. wanted'[c] \ todo'[c] = {}
      BY <2>3 DEF Req, TypeOK
    <3>2. d # c /\ d \in Conns
      BY <1>6, <2>3, <3>1, CoveredNone DEF Req, TypeOK
    <3> QED
      BY <1>6, <2>3, <3>2 DEF Req, TypeOK
  <2>4. CASE \E w \in Subs : Close(c, w)
    BY <1>6, <2>4 DEF Close, reqVars
  <2> QED
    BY <2>1, <2>2, <2>3, <2>4
<1>7. OpeningNoGap'
  <2>1. ASSUME NEW d \in online', opening'[d] # NoSub,
               NEW e \in rows \cap Covered(wanted'[d] \ todo'[d])
        PROVE  e \in found'[d] \cup missed'[d] \/ Pending(d, e)'
    <3>1. /\ d \in online /\ opening[d] # NoSub /\ e \in Covered(wanted[d] \ todo[d])
          /\ inbox'[d] = inbox[d] /\ found'[d] = found[d] /\ missed'[d] = missed[d]
      BY <1>6, <2>1
    <3>2. e \in found[d] \cup missed[d] \/ Pending(d, e)
      BY <3>1 DEF Gaps, OpeningNoGap
    <3>3. Pending(d, e) => Pending(d, e)'
      BY <1>2, <3>1 DEF Pending, Waiting
    <3> QED
      BY <3>1, <3>2, <3>3
  <2> QED
    BY <1>1, <1>3, <2>1 DEF OpeningNoGap, eventsVars
<1>8. Offline'
  <2>1. CASE Connect(c)
    BY <2>1 DEF Connect, Gaps, Offline, Cleared, reqVars, sentVars
  <2>2. CASE Disconnect(c)
    BY <2>2 DEF Disconnect, Free, Gaps, Offline, Cleared, reqVars, TypeOK
  <2>3. CASE \E w \in Subs, fs \in SUBSET Filters : Req(c, w, fs)
    BY <2>3 DEF Req, Free, Gaps, Offline, Cleared, sentVars, TypeOK
  <2>4. CASE \E w \in Subs : Close(c, w)
    BY <2>4 DEF Close, Free, Gaps, Offline, Cleared, reqVars, TypeOK
  <2> QED
    BY <2>1, <2>2, <2>3, <2>4
<1> QED
  BY <1>5, <1>7, <1>8 DEF Gaps

\* Every step keeps the inductive invariant.
LEMMA GapsStep == TypeOK /\ Gaps /\ [Next]_vars => Gaps'
<1> SUFFICES ASSUME TypeOK, Gaps, [Next]_vars PROVE Gaps'
  OBVIOUS
<1>1. EventsTypeOK
  BY TypeParts
<1>2. ASSUME UNCHANGED <<eventsVars, online, inbox, reqVars, sentVars>> PROVE Gaps'
  <2>1. \A e : Sending(e) => Sending(e)'
    BY <1>2 DEF Sending, eventsVars, taskVars
  <2>2. rows' = rows /\ UNCHANGED <<online, inbox, reqVars, sentVars>>
    BY <1>2 DEF eventsVars
  <2> QED
    BY <2>1, <2>2, GapsSame
<1>3. ASSUME NEW c \in Conns, (\E e \in Events : Post(c, e)) \/ StoreStep(c) PROVE Gaps'
  <2>1. (\E e \in Events : Publish(c, e)) \/ Erase(c) \/ Store(c)
    BY <1>3 DEF Post, StoreStep
  <2>2. UNCHANGED <<online, inbox, reqVars, sentVars>>
    BY <1>3 DEF Post, StoreStep, connVars
  <2> QED
    BY <1>1, <2>1, <2>2, StoreKeepsSending, GapsSame
<1>4. CASE UNCHANGED vars
  BY <1>2, <1>4 DEF vars, connVars
<1>5. ASSUME NEW c \in Conns, NEW u \in Users, NEW ok \in BOOLEAN, Auth(c, u, ok) PROVE Gaps'
  BY <1>2, <1>5 DEF Auth
<1>6. ASSUME NEW u \in Users, ChangeMembership(u) PROVE Gaps'
  BY <1>2, <1>6 DEF ChangeMembership, connVars
<1>7. CASE Tick
  BY <1>2, <1>7 DEF Tick
<1>8. CASE RestartRelay
  BY <1>8 DEF RestartRelay, Gaps, NoGap, OpeningNoGap, Offline, Cleared
<1> QED
  BY <1>3, <1>4, <1>5, <1>6, <1>7, <1>8, BroadcastGaps, QueryGaps, RegisterGaps, DeliverGaps,
     SessionGaps, DeliveryAssumption
  DEF Next

\* No event falls between a REQ's query and the broadcasts that follow it:
\* the connection's loop reads no broadcast while it handles the REQ, and its
\* receiver has subscribed to the channel before.
THEOREM NoGapInvariant == Spec => []NoGap
<1>1. Init => Gaps
  BY DEF Init, Gaps, NoGap, OpeningNoGap, Offline
<1>2. Gaps => NoGap
  BY DEF Gaps
<1> QED
  BY <1>1, <1>2, GapsStep, DeliveryTypeInvariant, PTL DEF Spec
-----------------------------------------------------------------------------
\* Who is cut off, and who is served

\* The cache of c does not tell who is a member, though no load of it failed.
Wrong(c) == who[c] # NoUser /\ ~failed[c] /\ ~(cache[c] <=> who[c] \in members)

\* A cache is wrong only about a change that came after its last load, which is
\* at least as old as age says; and who is not connected has no cache.
CacheInv ==
  /\ \A c \in Conns \ online : who[c] = NoUser
  /\ \A c \in Conns : Wrong(c) => settled[who[c]] <= age[c]

\* A load that succeeds makes the cache right, one that fails is remembered.
LEMMA Loaded ==
  ASSUME TypeOK, NEW c \in Conns, NEW u \in Users, NEW ok \in BOOLEAN,
         LoadMemberships(c, u, ok)
  PROVE  /\ ok => (cache'[c] <=> u \in members)
         /\ ~ok => failed'[c]
         /\ ok => ~failed'[c]
         /\ \A d \in Conns \ {c} : cache'[d] = cache[d] /\ failed'[d] = failed[d]
<1>1. /\ cache \in [Conns -> BOOLEAN] /\ failed \in [Conns -> BOOLEAN]
  BY DEF TypeOK
<1>2. failed' = [failed EXCEPT ![c] = ~ok]
  BY DEF LoadMemberships
<1>3. \A d \in Conns \ {c} : cache'[d] = cache[d]
  BY <1>1 DEF LoadMemberships
<1>4. ok => (cache'[c] <=> u \in members)
  BY <1>1, Zenon DEF LoadMemberships
<1>5. failed'[c] = ~ok
  BY <1>1, <1>2, Zenon
<1>6. \A d \in Conns \ {c} : failed'[d] = failed[d]
  BY <1>1, <1>2
<1> QED
  BY <1>3, <1>4, <1>5, <1>6

\* A wrong cache stays wrong about the same change, in a step that touches
\* neither it nor the members.
LEMMA CacheSame ==
  ASSUME CacheInv, UNCHANGED <<members, settled, who, cache, failed, age>>, online' = online
  PROVE  CacheInv'
BY DEF CacheInv, Wrong

\* No connection has a cache yet.
LEMMA CacheInit == Init => CacheInv
BY DEF Init, CacheInv, Wrong

\* AUTH loads the memberships; the time it is stamped with is never later.
LEMMA AuthCache ==
  ASSUME TypeOK, CacheInv, NEW c \in Conns, NEW u \in Users, NEW ok \in BOOLEAN, Auth(c, u, ok)
  PROVE  CacheInv'
<1>1. /\ c \in online /\ online' = online /\ who' = [who EXCEPT ![c] = u]
      /\ LoadMemberships(c, u, ok)
      /\ age' = [age EXCEPT ![c] = IF who[c] = NoUser THEN 0 ELSE age[c]]
      /\ UNCHANGED <<members, settled>>
  BY DEF Auth, Free, groupVars
<1>2. who \in [Conns -> Users \cup {NoUser}] /\ age \in [Conns -> 0..TTL]
  BY DEF TypeOK
<1>3. ~Wrong(c)'
  <2>1. /\ ok => (cache'[c] <=> u \in members)
        /\ ~ok => failed'[c]
    BY <1>1, Loaded
  <2> QED
    BY <1>1, <1>2, <2>1 DEF Wrong
<1>4. ASSUME NEW d \in Conns, d # c, Wrong(d)'
      PROVE  settled'[who'[d]] <= age'[d]
  <2>1. /\ who'[d] = who[d] /\ age'[d] = age[d]
        /\ cache'[d] = cache[d] /\ failed'[d] = failed[d]
    BY <1>1, <1>2, <1>4, Loaded
  <2>2. Wrong(d)
    BY <1>1, <1>4, <2>1 DEF Wrong
  <2> QED
    BY <1>1, <2>1, <2>2 DEF CacheInv
<1>5. \A d \in Conns \ online' : who'[d] = NoUser
  BY <1>1, <1>2 DEF CacheInv
<1> QED
  BY <1>3, <1>4, <1>5 DEF CacheInv

\* A delivery reloads a cache that is TTL old.
LEMMA DeliverCache ==
  ASSUME TypeOK, CacheInv, NEW c \in Conns, NEW ok \in BOOLEAN, Deliver(c, ok)
  PROVE  /\ CacheInv'
         /\ Head(inbox[c]) \in Grouped /\ Wrong(c)' => settled[who[c]] < TTL
<1> DEFINE h == Head(inbox[c])
<1>1. /\ UNCHANGED <<members, settled, online, who>>
      /\ IF Stale(c, h)
         THEN /\ LoadMemberships(c, who[c], ok)
              /\ age' = [age EXCEPT ![c] = IF ok THEN 0 ELSE age[c]]
         ELSE UNCHANGED cacheVars
  BY DEF Deliver, groupVars
<1>2. /\ who \in [Conns -> Users \cup {NoUser}] /\ age \in [Conns -> 0..TTL]
      /\ settled \in [Users -> 0..TTL]
  BY DEF TypeOK
<1>3. CASE Stale(c, h)
  <2>1. who[c] \in Users
    BY <1>2, <1>3 DEF Stale
  <2>2. /\ ok => (cache'[c] <=> who[c] \in members)
        /\ ~ok => failed'[c]
        /\ \A d \in Conns \ {c} : cache'[d] = cache[d] /\ failed'[d] = failed[d]
    BY <1>1, <1>3, <2>1, Loaded
  <2>3. ~Wrong(c)'
    BY <1>1, <2>2 DEF Wrong
  <2>4. ASSUME NEW d \in Conns, d # c, Wrong(d)'
        PROVE  settled'[who'[d]] <= age'[d]
    <3>1. age'[d] = age[d]
      BY <1>1, <1>2, <1>3, <2>4
    <3>2. Wrong(d)
      BY <1>1, <2>2, <2>4 DEF Wrong
    <3> QED
      BY <1>1, <3>1, <3>2 DEF CacheInv
  <2>5. CacheInv'
    BY <1>1, <2>3, <2>4 DEF CacheInv
  <2> QED
    BY <2>3, <2>5
<1>4. CASE ~Stale(c, h)
  <2>1. UNCHANGED <<cache, failed, age>>
    BY <1>1, <1>4 DEF cacheVars
  <2>2. CacheInv'
    BY <1>1, <2>1, CacheSame
  <2>3. ASSUME h \in Grouped, Wrong(c)'
        PROVE  settled[who[c]] < TTL
    <3>1. Wrong(c) /\ who[c] # NoUser
      BY <1>1, <2>1, <2>3 DEF Wrong
    <3>2. age[c] # TTL
      BY <1>4, <2>3, <3>1 DEF Stale
    <3>3. settled[who[c]] <= age[c]
      BY <3>1 DEF CacheInv
    <3>4. age[c] \in 0..TTL /\ settled[who[c]] \in 0..TTL
      BY <1>2, <3>1
    <3> QED
      BY <3>2, <3>3, <3>4
  <2> QED
    BY <2>2, <2>3
<1> QED
  BY <1>3, <1>4

\* Every step keeps what a cache may be wrong about.
LEMMA CacheStep == TypeOK /\ CacheInv /\ [Next]_vars => CacheInv'
<1> SUFFICES ASSUME TypeOK, CacheInv, [Next]_vars PROVE CacheInv'
  OBVIOUS
<1>1. /\ who \in [Conns -> Users \cup {NoUser}] /\ age \in [Conns -> 0..TTL]
      /\ settled \in [Users -> 0..TTL] /\ members \subseteq Users
  BY DEF TypeOK
<1>2. ASSUME NEW c \in Conns, Connect(c) PROVE CacheInv'
  <2>1. /\ c \notin online /\ online' = online \cup {c} /\ age' = [age EXCEPT ![c] = 0]
        /\ UNCHANGED <<members, settled, who, cache, failed>>
    BY <1>2 DEF Connect, groupVars
  <2>2. who[c] = NoUser
    BY <2>1 DEF CacheInv
  <2>3. \A d \in Conns : Wrong(d)' => Wrong(d) /\ d # c
    BY <2>1, <2>2 DEF Wrong
  <2>4. \A d \in Conns : d # c => age'[d] = age[d]
    BY <1>1, <2>1
  <2> QED
    BY <2>1, <2>3, <2>4 DEF CacheInv
<1>3. ASSUME NEW c \in Conns, Disconnect(c) PROVE CacheInv'
  <2>1. /\ online' = online \ {c} /\ who' = [who EXCEPT ![c] = NoUser]
        /\ cache' = [cache EXCEPT ![c] = FALSE] /\ failed' = [failed EXCEPT ![c] = FALSE]
        /\ UNCHANGED <<members, settled, age>>
    BY <1>3 DEF Disconnect, groupVars
  <2>2. who'[c] = NoUser
    BY <1>1, <2>1
  <2>3. \A d \in Conns \ {c} : who'[d] = who[d] /\ cache'[d] = cache[d] /\ failed'[d] = failed[d]
    BY <2>1 DEF TypeOK
  <2>4. \A d \in Conns : Wrong(d)' => Wrong(d) /\ d # c
    BY <2>1, <2>2, <2>3 DEF Wrong
  <2>5. \A d \in Conns \ online' : who'[d] = NoUser
    BY <2>1, <2>2, <2>3 DEF CacheInv
  <2> QED
    BY <2>1, <2>3, <2>4, <2>5 DEF CacheInv
<1>4. ASSUME NEW u \in Users, ChangeMembership(u) PROVE CacheInv'
  <2>1. /\ members' = IF u \in members THEN members \ {u} ELSE members \cup {u}
        /\ settled' = [settled EXCEPT ![u] = 0]
        /\ UNCHANGED <<online, who, cache, failed, age>>
    BY <1>4 DEF ChangeMembership, connVars, cacheVars
  <2>2. ASSUME NEW d \in Conns, Wrong(d)'
        PROVE  settled'[who'[d]] <= age'[d]
    <3>1. who[d] \in Users /\ who' = who /\ age' = age
      BY <1>1, <2>1, <2>2 DEF Wrong
    <3>2. CASE who[d] = u
      <4>1. settled'[u] = 0 /\ age[d] \in 0..TTL
        BY <1>1, <2>1
      <4> QED
        BY <3>1, <3>2, <4>1
    <3>3. CASE who[d] # u
      <4>1. Wrong(d)
        BY <2>1, <2>2, <3>1, <3>3 DEF Wrong
      <4>2. settled'[who[d]] = settled[who[d]]
        BY <1>1, <2>1, <3>1, <3>3
      <4> QED
        BY <3>1, <4>1, <4>2 DEF CacheInv
    <3> QED
      BY <3>2, <3>3
  <2> QED
    BY <2>1, <2>2 DEF CacheInv
<1>5. CASE Tick
  <2>1. /\ settled' = [u \in Users |-> Aged(settled[u])]
        /\ age' = [c \in Conns |-> Aged(age[c])]
        /\ UNCHANGED <<members, online, who, cache, failed>>
    BY <1>5 DEF Tick
  <2>2. ASSUME NEW m \in 0..TTL, NEW n \in 0..TTL, m <= n
        PROVE  Aged(m) <= Aged(n)
    BY <2>2 DEF Aged
  <2>3. ASSUME NEW d \in Conns, Wrong(d)'
        PROVE  settled'[who'[d]] <= age'[d]
    <3>1. Wrong(d) /\ who[d] \in Users
      BY <1>1, <2>1, <2>3 DEF Wrong
    <3>2. settled[who[d]] <= age[d] /\ settled[who[d]] \in 0..TTL /\ age[d] \in 0..TTL
      BY <1>1, <3>1 DEF CacheInv
    <3> QED
      BY <2>1, <2>2, <3>1, <3>2
  <2> QED
    BY <2>1, <2>3 DEF CacheInv
<1>6. CASE RestartRelay
  BY <1>6 DEF RestartRelay, CacheInv, Wrong
<1>7. ASSUME UNCHANGED <<groupVars, online, who, cacheVars>> PROVE CacheInv'
  BY <1>7, CacheSame DEF groupVars, cacheVars
<1>8. ASSUME NEW c \in Conns, NEW e \in Events, Post(c, e) PROVE CacheInv'
  BY <1>7, <1>8 DEF Post, connVars
<1>9. ASSUME NEW c \in Conns, StoreStep(c) PROVE CacheInv'
  BY <1>7, <1>9 DEF StoreStep, connVars
<1>10. ASSUME NEW c \in Conns, Broadcast(c) \/ Register(c) PROVE CacheInv'
  BY <1>7, <1>10 DEF Broadcast, Register
<1>11. ASSUME NEW c \in Conns, NEW f \in Filters, NEW ok \in BOOLEAN, Query(c, f, ok)
       PROVE  CacheInv'
  BY <1>7, <1>11 DEF Query
<1>12. ASSUME NEW c \in Conns, NEW s \in Subs, NEW fs \in SUBSET Filters, Req(c, s, fs)
       PROVE  CacheInv'
  BY <1>7, <1>12 DEF Req
<1>13. ASSUME NEW c \in Conns, NEW s \in Subs, Close(c, s) PROVE CacheInv'
  BY <1>7, <1>13 DEF Close
<1>14. CASE UNCHANGED vars
  BY <1>7, <1>14 DEF vars, connVars
<1> QED
  BY <1>2, <1>3, <1>4, <1>5, <1>6, <1>8, <1>9, <1>10, <1>11, <1>12, <1>13, <1>14,
     AuthCache, DeliverCache, DeliveryAssumption
  DEF Next

\* Outside a REQ, only a delivery sends an event.
LEMMA OnlyDeliverySends ==
  ASSUME TypeOK, [Next]_vars, NEW c \in Conns, NEW s \in Subs, opening[c] = NoSub,
         NEW e, e \in received'[c][s], e \notin received[c][s]
  PROVE  \E ok \in BOOLEAN :
           Deliver(c, ok) /\ e = Head(inbox[c]) /\ VisibleTo(e, who[c], cache'[c])
<1>1. received \in [Conns -> [Subs -> SUBSET Events]]
  BY DEF TypeOK
<1>2. received' # received
  OBVIOUS
<1>3. ASSUME NEW d \in Conns, Connect(d) PROVE FALSE
  BY <1>2, <1>3 DEF Connect, sentVars
<1>4. ASSUME NEW d \in Conns, Disconnect(d) PROVE FALSE
  <2>1. received' = [received EXCEPT ![d] = Cleared]
    BY <1>4 DEF Disconnect
  <2>2. received'[c] = received[c] \/ received'[c] = Cleared
    BY <1>1, <2>1
  <2> QED
    BY <2>2 DEF Cleared
<1>5. ASSUME NEW d \in Conns, StoreStep(d) PROVE FALSE
  BY <1>2, <1>5 DEF StoreStep, connVars, sentVars
<1>6. ASSUME NEW d \in Conns, Broadcast(d) PROVE FALSE
  BY <1>2, <1>6 DEF Broadcast
<1>7. ASSUME NEW d \in Conns, Register(d) PROVE FALSE
  <2>1. d # c
    BY <1>7 DEF Register
  <2>2. UNCHANGED sentVars \/ received' = [received EXCEPT ![d][opening[d]] = found[d]]
    BY <1>7 DEF Register
  <2>3. received'[c] = received[c]
    BY <1>1, <2>1, <2>2 DEF sentVars
  <2> QED
    BY <2>3
<1>8. ASSUME NEW d \in Conns, NEW f \in Filters, NEW ok \in BOOLEAN, Query(d, f, ok) PROVE FALSE
  BY <1>2, <1>8 DEF Query, sentVars
<1>9. ASSUME NEW d \in Conns, NEW f \in Events, Post(d, f) PROVE FALSE
  BY <1>2, <1>9 DEF Post, connVars, sentVars
<1>10. ASSUME NEW d \in Conns, NEW u \in Users, NEW ok \in BOOLEAN, Auth(d, u, ok) PROVE FALSE
  BY <1>2, <1>10 DEF Auth, sentVars
<1>11. ASSUME NEW d \in Conns, NEW t \in Subs, NEW fs \in SUBSET Filters, Req(d, t, fs) PROVE FALSE
  BY <1>2, <1>11 DEF Req, sentVars
<1>12. ASSUME NEW d \in Conns, NEW t \in Subs, Close(d, t) PROVE FALSE
  <2>1. received' = [received EXCEPT ![d][t] = {}]
    BY <1>12 DEF Close
  <2>2. received'[c][s] = received[c][s] \/ received'[c][s] = {}
    BY <1>1, <2>1
  <2> QED
    BY <2>2
<1>13. ASSUME NEW u \in Users, ChangeMembership(u) PROVE FALSE
  BY <1>2, <1>13 DEF ChangeMembership, connVars, sentVars
<1>14. CASE Tick
  BY <1>2, <1>14 DEF Tick, sentVars
<1>15. CASE RestartRelay
  BY <1>15 DEF RestartRelay, Cleared
<1>16. CASE UNCHANGED vars
  BY <1>2, <1>16 DEF vars, connVars, sentVars
<1>17. ASSUME NEW d \in Conns, NEW ok \in BOOLEAN, Deliver(d, ok)
       PROVE  d = c /\ e = Head(inbox[c]) /\ VisibleTo(e, who[c], cache'[c])
  <2> DEFINE h == Head(inbox[d])
             S == Matching(d, h)
  <2>1. IF VisibleTo(h, who[d], cache'[d])
        THEN received' = [received EXCEPT ![d] = Add(received[d], S, h)] ELSE received' = received
    BY <1>17 DEF Deliver
  <2>2. received'[d][s] \subseteq received[d][s] \cup {h}
        /\ \A b \in Conns \ {d} : received'[b] = received[b]
    <3>1. Add(received[d], S, h)[s] \subseteq received[d][s] \cup {h}
      BY DEF Add
    <3> HIDE DEF S, h
    <3> QED
      BY <1>1, <2>1, <3>1
  <2> HIDE DEF S
  <2> QED
    BY <1>2, <2>1, <2>2
<1> QED
  BY <1>3, <1>4, <1>5, <1>6, <1>7, <1>8, <1>9, <1>10, <1>11, <1>12, <1>13, <1>14, <1>15, <1>16,
     <1>17, DeliveryAssumption
  DEF Next

\* However AUTHs, joins, kicks, broadcasts and reconnects interleave, a group's
\* message is sent to no one who left it more than MEMBERSHIP_TTL ago, unless
\* the membership query fails.
THEOREM KickedIsCutOffAlways == Spec => KickedIsCutOff
<1> DEFINE A(c, s, e) ==
      /\ opening[c] = NoSub /\ e \in received'[c][s]
      /\ who[c] \notin members \cup {Author[e]} \cup Tagged[e]
      => settled[who[c]] < TTL \/ failed'[c]
<1>1. TypeOK /\ CacheInv /\ [Next]_vars =>
        \A c \in Conns, s \in Subs : \A e \in Grouped \ received[c][s] : A(c, s, e)
  <2> SUFFICES ASSUME TypeOK, CacheInv, [Next]_vars, NEW c \in Conns, NEW s \in Subs,
                      NEW e \in Grouped \ received[c][s],
                      opening[c] = NoSub, e \in received'[c][s],
                      who[c] \notin members \cup {Author[e]} \cup Tagged[e],
                      ~failed'[c]
               PROVE  settled[who[c]] < TTL
    OBVIOUS
  <2>1. PICK ok \in BOOLEAN :
          Deliver(c, ok) /\ e = Head(inbox[c]) /\ VisibleTo(e, who[c], cache'[c])
    BY OnlyDeliverySends
  <2>2. who[c] # NoUser /\ cache'[c]
    BY <2>1 DEF VisibleTo
  <2>3. who' = who /\ members' = members
    BY <2>1 DEF Deliver, groupVars
  <2>4. Wrong(c)'
    BY <2>2, <2>3 DEF Wrong
  <2> QED
    BY <2>1, <2>4, DeliverCache
<1>2. TypeOK /\ CacheInv /\ [Next]_vars =>
        [\A c \in Conns, s \in Subs : \A e \in Grouped \ received[c][s] : A(c, s, e)]_vars
  BY <1>1
<1> QED
  BY <1>2, CacheInit, CacheStep, DeliveryTypeInvariant, PTL DEF Spec, KickedIsCutOff

\* And who joined it longer ago than that is shown every message of the group.
THEOREM JoinedIsServedAlways == Spec => JoinedIsServed
<1> DEFINE A(c, ok) ==
      Deliver(c, ok) /\ Head(inbox[c]) \in Grouped \ Unlisted /\ who[c] \in members
        /\ ~VisibleTo(Head(inbox[c]), who[c], cache'[c])
      => settled[who[c]] < TTL \/ failed'[c]
<1>1. TypeOK /\ CacheInv /\ [Next]_vars => \A c \in Conns, ok \in BOOLEAN : A(c, ok)
  <2> SUFFICES ASSUME TypeOK, CacheInv, NEW c \in Conns, NEW ok \in BOOLEAN, Deliver(c, ok),
                      Head(inbox[c]) \in Grouped \ Unlisted, who[c] \in members,
                      ~VisibleTo(Head(inbox[c]), who[c], cache'[c]), ~failed'[c]
               PROVE  settled[who[c]] < TTL
    OBVIOUS
  <2>1. who[c] # NoUser
    BY DEF TypeOK
  <2>2. ~cache'[c]
    BY <2>1 DEF VisibleTo
  <2>3. who' = who /\ members' = members
    BY DEF Deliver, groupVars
  <2>4. Wrong(c)'
    BY <2>1, <2>2, <2>3 DEF Wrong
  <2> QED
    BY <2>4, DeliverCache
<1>2. TypeOK /\ CacheInv /\ [Next]_vars => [\A c \in Conns, ok \in BOOLEAN : A(c, ok)]_vars
  BY <1>1
<1> QED
  BY <1>2, CacheInit, CacheStep, DeliveryTypeInvariant, PTL DEF Spec, JoinedIsServed
=============================================================================
