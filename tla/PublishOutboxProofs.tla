------------------------- MODULE PublishOutboxProofs -------------------------
(***************************************************************************)
(* Proofs about PublishOutbox for any relays and events: the types, that an  *)
(* event whose row was saved is not lost, and that what is on its way is     *)
(* awaited.                                                                  *)
(***************************************************************************)
EXTENDS PublishOutbox, FiniteSetTheorems, TLAPS

USE OutboxAssumption

-----------------------------------------------------------------------------
\* Requests are queued, taken and put in a row.
LEMMA SetToSeqType ==
  ASSUME NEW S, IsFiniteSet(S)
  PROVE  SetToSeq(S) \in Seq(S)
<1> DEFINE n == Cardinality(S)
<1>1. n \in Nat /\ ExistsBijection(1..n, S)
  BY FS_CardinalityType
<1>2. PICK f \in [1..n -> S] : IsInjective(f)
  BY <1>1 DEF ExistsBijection, Bijection, Injection, IsInjective
<1>3. SetToSeq(S) \in [1..n -> S]
  BY <1>2 DEF SetToSeq
<1> QED
  BY <1>1, <1>3

LEMMA SeqMono ==
  ASSUME NEW S, NEW T, S \subseteq T, NEW s \in Seq(S)
  PROVE  s \in Seq(T)
OBVIOUS

LEMMA TakeFirst ==
  ASSUME NEW S, NEW s \in Seq(S), s # << >>
  PROVE  Head(s) \in S /\ Tail(s) \in Seq(S)
OBVIOUS

\* A request that is legal keeps the queue legal.
LEMMA AskedType ==
  ASSUME TypeOK, recorded \subseteq recorded', NEW q \in Requests', Asked(q)
  PROVE  db' \in Seq(Requests')
<1>1. Requests \subseteq Requests'
  BY DEF Requests, Read
<1>2. db \in Seq(Requests')
  BY <1>1, SeqMono DEF TypeOK
<1> HIDE DEF Requests
<1> QED
  BY <1>2 DEF Asked

\* What is published has been recorded; what is queued waits for a socket.
LEMMA PublishType ==
  ASSUME TypeOK, recorded \subseteq recorded', NEW S \in SUBSET recorded', Publish(S),
         UNCHANGED <<connections, everConnected, open, stored>>
  PROVE  /\ messageQueue' \in [Relays -> SUBSET recorded']
         /\ wire' \in [Relays -> SUBSET recorded'] /\ stored' \in [Relays -> SUBSET recorded']
         /\ \A r \in Relays : /\ r \in open' => messageQueue'[r] = {}
                              /\ r \notin open' => wire'[r] = {}
<1>1. /\ messageQueue \in [Relays -> SUBSET recorded'] /\ wire \in [Relays -> SUBSET recorded']
      /\ stored \in [Relays -> SUBSET recorded']
  BY DEF TypeOK
<1>2. \A r \in Relays : (r \in open => messageQueue[r] = {}) /\ (r \notin open => wire[r] = {})
  BY DEF TypeOK
<1> QED
  BY <1>1, <1>2 DEF Publish

\* The first request, and what remains.
LEMMA FirstType ==
  ASSUME TypeOK, db # << >>
  PROVE  /\ Tail(db) \in Seq(Requests)
         /\ Head(db).op \in {"put", "delete"} => Head(db).e \in recorded
<1>1. Head(db) \in Requests /\ Tail(db) \in Seq(Requests)
  <2> HIDE DEF Requests
  <2> QED
    BY TakeFirst DEF TypeOK
<1> QED
  BY <1>1 DEF Requests, Read

LEMMA ReplayType ==
  ASSUME TypeOK, Replay, UNCHANGED recorded
  PROVE  db' \in Seq(Requests') /\ replaying' \in BOOLEAN
<1>1. CASE replaying
  BY <1>1 DEF Replay, TypeOK, Requests, Read
<1>2. CASE ~replaying
  <2>1. Read \in Requests'
    BY DEF Requests
  <2>2. Asked(Read) /\ replaying' = TRUE
    BY <1>2 DEF Replay
  <2> QED
    BY <2>1, <2>2, AskedType
<1> QED
  BY <1>1, <1>2

LEMMA InitTypes == Init => TypeOK
<1> SUFFICES ASSUME Init PROVE TypeOK
  OBVIOUS
<1>1. db \in Seq(Requests)
  BY DEF Init
<1> QED
  BY <1>1 DEF Init, TypeOK

\* Every step keeps the types.
LEMMA TypeStep == TypeOK /\ [Next]_vars => TypeOK'
<1> SUFFICES ASSUME TypeOK, [Next]_vars PROVE TypeOK'
  OBVIOUS
<1>1. CASE UNCHANGED vars
  <2>1. Requests' = Requests
    BY <1>1 DEF Requests, Read, vars, historyVars
  <2> QED
    BY <1>1, <2>1 DEF TypeOK, vars, connVars, relayVars, outboxVars, historyVars
<1>2. ASSUME NEW e \in Events, SignAndPublish(e) PROVE TypeOK'
  <2>1. recorded' = recorded \cup {e} /\ e \in recorded'
    BY <1>2 DEF SignAndPublish
  <2>2. Op("put", e) \in Requests'
    BY <2>1 DEF Requests, Op
  <2>3. db' \in Seq(Requests')
    BY <1>2, <2>1, <2>2, AskedType DEF SignAndPublish
  <2>4. {e} \in SUBSET recorded' /\ Publish({e})
    BY <1>2, <2>1 DEF SignAndPublish
  <2>5. /\ messageQueue' \in [Relays -> SUBSET recorded']
        /\ wire' \in [Relays -> SUBSET recorded'] /\ stored' \in [Relays -> SUBSET recorded']
        /\ \A r \in Relays : /\ r \in open' => messageQueue'[r] = {}
                             /\ r \notin open' => wire'[r] = {}
    BY <1>2, <2>1, <2>4, PublishType DEF SignAndPublish
  <2> QED
    BY <1>2, <2>1, <2>3, <2>5 DEF SignAndPublish, TypeOK
<1>3. ASSUME NEW e \in Events, Appears(e) PROVE TypeOK'
  <2>1. Requests' = Requests
    BY <1>3 DEF Appears, historyVars, Requests, Read
  <2> QED
    BY <1>3, <2>1 DEF Appears, TypeOK, connVars, relayVars, outboxVars, historyVars
<1>4. ASSUME NEW r \in Relays, NEW e \in Events, HandleOK(r, e) PROVE TypeOK'
  <2>1. UNCHANGED recorded /\ e \in recorded /\ Requests' = Requests
    BY <1>4 DEF HandleOK, TypeOK, historyVars, Requests, Read
  <2>2. Op("delete", e) \in Requests'
    BY <2>1 DEF Requests, Op
  <2>3. db' \in Seq(Requests') /\ pending' \subseteq recorded
    <3>1. CASE e \in pending
      BY <1>4, <3>1, <2>1, <2>2, AskedType DEF HandleOK, TypeOK
    <3>2. CASE e \notin pending
      BY <1>4, <3>2, <2>1 DEF HandleOK, TypeOK
    <3> QED
      BY <3>1, <3>2
  <2>4. wire' \in [Relays -> SUBSET recorded] /\ \A q \in Relays : wire'[q] \subseteq wire[q]
    BY <1>4 DEF HandleOK, TypeOK
  <2> QED
    BY <1>4, <2>1, <2>3, <2>4 DEF HandleOK, TypeOK, connVars, historyVars
<1>5. CASE ReplayAtLaunch
  <2>1. UNCHANGED recorded
    BY <1>5 DEF ReplayAtLaunch, historyVars
  <2>2. db' \in Seq(Requests') /\ replaying' \in BOOLEAN
    BY <1>5, <2>1, ReplayType DEF ReplayAtLaunch
  <2> QED
    BY <1>5, <2>1, <2>2 DEF ReplayAtLaunch, TypeOK, connVars, relayVars, historyVars
<1>6. CASE ReplayRows
  <2>1. UNCHANGED recorded /\ Requests' = Requests /\ db # << >>
    BY <1>6 DEF ReplayRows, First, Requests, Read
  <2>2. PICK old \in SUBSET rows :
          LET dropped == old \cup {e \in rows : HasNewer(e)} IN
          /\ lapsed' = lapsed \cup old
          /\ db' = Tail(db) \o SetToSeq({Op("delete", e) : e \in dropped})
          /\ pending' = pending \cup (rows \ dropped)
          /\ Publish(rows \ dropped)
    BY <1>6 DEF ReplayRows
  <2> DEFINE dropped == old \cup {e \in rows : HasNewer(e)}
             deletes == {Op("delete", e) : e \in dropped}
  <2>3. dropped \subseteq recorded /\ rows \subseteq recorded /\ old \subseteq recorded
    BY DEF TypeOK
  <2>4. deletes \subseteq Requests' /\ IsFiniteSet(deletes)
    <3>1. dropped \subseteq Events
      BY <2>3 DEF TypeOK
    <3>2. IsFiniteSet(dropped)
      BY <3>1, FS_Subset
    <3>3. IsFiniteSet(deletes)
      <4> DEFINE f == [e \in dropped |-> Op("delete", e)]
      <4>1. f \in Surjection(dropped, deletes)
        BY DEF Surjection
      <4> HIDE DEF f, dropped, deletes
      <4> QED
        BY <3>2, <4>1, FS_Surjection
    <3> QED
      BY <2>1, <2>3, <3>3 DEF Requests, Op
  <2>5. db' \in Seq(Requests')
    <3> HIDE DEF Requests, deletes, dropped
    <3>1. Tail(db) \in Seq(Requests')
      BY <2>1, FirstType
    <3>2. SetToSeq(deletes) \in Seq(Requests')
      BY <2>4, SetToSeqType, SeqMono
    <3>3. db' = Tail(db) \o SetToSeq(deletes)
      BY <2>2 DEF deletes, dropped
    <3> QED
      BY <3>1, <3>2, <3>3
  <2>6. /\ messageQueue' \in [Relays -> SUBSET recorded']
        /\ wire' \in [Relays -> SUBSET recorded'] /\ stored' \in [Relays -> SUBSET recorded']
        /\ \A r \in Relays : /\ r \in open' => messageQueue'[r] = {}
                             /\ r \notin open' => wire'[r] = {}
    <3>1. rows \ dropped \in SUBSET recorded' /\ Publish(rows \ dropped)
      BY <2>1, <2>2, <2>3
    <3>2. UNCHANGED <<connections, everConnected, open, stored>>
      BY <1>6 DEF ReplayRows
    <3> QED
      BY <2>1, <3>1, <3>2, PublishType
  <2>7. lapsed' \subseteq recorded /\ pending' \subseteq recorded
    BY <2>2, <2>3 DEF TypeOK
  <2> QED
    BY <1>6, <2>1, <2>5, <2>6, <2>7 DEF ReplayRows, TypeOK
<1>7. CASE Put \/ Delete \/ RequestFails
  <2>1. db # << >> /\ UNCHANGED recorded /\ db' = Tail(db)
    BY <1>7 DEF Put, Delete, RequestFails, First, historyVars
  <2>2. Requests' = Requests
    BY <2>1 DEF Requests, Read
  <2>3. db' \in Seq(Requests')
    BY <2>1, <2>2, FirstType
  <2>4. CASE Put
    <3>1. Head(db).e \in recorded
      BY <2>1, <2>4, FirstType DEF Put, First
    <3> QED
      BY <2>1, <2>3, <2>4, <3>1 DEF Put, TypeOK, connVars, relayVars, outboxVars
  <2>5. CASE Delete
    BY <2>1, <2>3, <2>5 DEF Delete, TypeOK, connVars, relayVars, outboxVars, historyVars
  <2>6. CASE RequestFails
    BY <2>1, <2>3, <2>6 DEF RequestFails, TypeOK, connVars, relayVars, historyVars
  <2> QED
    BY <1>7, <2>4, <2>5, <2>6
<1>8. ASSUME NEW r \in Relays, OnOpen(r) PROVE TypeOK'
  <2>1. UNCHANGED recorded /\ Requests' = Requests
    BY <1>8 DEF OnOpen, historyVars, Requests, Read
  <2>2. db' \in Seq(Requests') /\ replaying' \in BOOLEAN
    <3>1. CASE r \in everConnected
      BY <1>8, <2>1, <3>1, ReplayType DEF OnOpen
    <3>2. CASE r \notin everConnected
      BY <1>8, <2>1, <3>2 DEF OnOpen, TypeOK
    <3> QED
      BY <3>1, <3>2
  <2>3. /\ messageQueue' \in [Relays -> SUBSET recorded] /\ wire' \in [Relays -> SUBSET recorded]
        /\ open' = open \cup {r} /\ everConnected' = everConnected \cup {r}
        /\ \A q \in Relays : /\ q \in open' => messageQueue'[q] = {}
                             /\ q \notin open' => wire'[q] = {}
    BY <1>8 DEF OnOpen, TypeOK
  <2>4. open' \subseteq everConnected' /\ everConnected' \subseteq connections
    BY <1>8 DEF OnOpen, TypeOK
  <2> QED
    BY <1>8, <2>1, <2>2, <2>3, <2>4 DEF OnOpen, TypeOK, historyVars
<1>9. ASSUME NEW r \in Relays, OnClose(r) \/ Connect(r) \/ Disconnect(r) PROVE TypeOK'
  <2>1. Requests' = Requests
    BY <1>9 DEF OnClose, Connect, Disconnect, historyVars, Requests, Read
  <2> QED
    BY <1>9, <2>1 DEF OnClose, Connect, Disconnect, TypeOK, connVars, relayVars, outboxVars, historyVars
<1>10. ASSUME NEW r \in Relays, NEW e \in Events, Accept(r, e) \/ Refuse(r, e) PROVE TypeOK'
  <2>1. Requests' = Requests
    BY <1>10 DEF Accept, Refuse, historyVars, Requests, Read
  <2> QED
    BY <1>10, <2>1 DEF Accept, Refuse, TypeOK, connVars, outboxVars, historyVars
<1>11. CASE Restart
  <2>1. db' \in Seq(Requests')
    BY <1>11 DEF Restart
  <2> QED
    BY <1>11, <2>1 DEF Restart, TypeOK, historyVars
<1> QED
  BY <1>1, <1>2, <1>3, <1>4, <1>5, <1>6, <1>7, <1>8, <1>9, <1>10, <1>11 DEF Next

\* Every variable keeps its type, whatever the relays and events; what is queued waits
\* for a socket.
THEOREM TypeInvariant == Spec => []TypeOK
<1> QED
  BY InitTypes, TypeStep, PTL DEF Spec

-----------------------------------------------------------------------------
\* What is on its way and nowhere stored is awaited.
LEMMA TrackedStep == TypeOK /\ InFlightTracked /\ [Next]_vars => InFlightTracked'
<1> SUFFICES ASSUME TypeOK, InFlightTracked, [Next]_vars,
                    NEW r \in Relays, NEW e, e \in messageQueue'[r] \cup wire'[r]
             PROVE  Stored(e)' \/ e \in pending'
  BY DEF InFlightTracked
<1>0. Stored(e) => Stored(e)'
  BY DEF Next, vars, connVars, relayVars, outboxVars, historyVars, TypeOK, Stored, SignAndPublish,
         Appears, OnOpen, OnClose, Connect, Disconnect, Accept, Refuse, HandleOK, ReplayAtLaunch,
         ReplayRows, Put, Delete, RequestFails, Restart
<1>1. ASSUME e \in messageQueue[r] \cup wire[r], e \notin pending' PROVE Stored(e)'
  <2>1. Stored(e) \/ e \in pending
    BY <1>1 DEF InFlightTracked
  <2>2. CASE \E q \in Relays, d \in Events : HandleOK(q, d)
    BY <1>0, <1>1, <2>1, <2>2 DEF HandleOK, Stored
  <2>3. CASE Restart
    BY <1>1, <2>3 DEF Restart
  <2>4. CASE ~Restart /\ ~\E q \in Relays, d \in Events : HandleOK(q, d)
    <3>1. pending \subseteq pending'
      BY <2>4 DEF Next, vars, connVars, relayVars, outboxVars, historyVars, SignAndPublish,
         Appears, OnOpen, OnClose, Connect, Disconnect, Accept, Refuse, ReplayAtLaunch,
         ReplayRows, Put, Delete, RequestFails
    <3> QED
      BY <1>0, <1>1, <2>1, <3>1
  <2> QED
    BY <2>2, <2>3, <2>4
<1>2. ASSUME e \notin messageQueue[r] \cup wire[r] PROVE e \in pending'
  <2>1. CASE \E d \in Events : SignAndPublish(d)
    BY <1>2, <2>1 DEF SignAndPublish, Publish
  <2>2. CASE ReplayRows
    BY <1>2, <2>2 DEF ReplayRows, Publish
  <2>3. CASE ~ReplayRows /\ ~\E d \in Events : SignAndPublish(d)
    BY <1>2, <2>3 DEF Next, vars, connVars, relayVars, TypeOK,
         Appears, OnOpen, OnClose, Connect, Disconnect, Accept, Refuse, HandleOK, ReplayAtLaunch,
         Put, Delete, RequestFails, Restart
  <2> QED
    BY <2>1, <2>2, <2>3
<1> QED
  BY <1>1, <1>2

\* What is on the way to a relay, and at none yet, is awaited by the outbox.
THEOREM InFlightTrackedInvariant == Spec => []InFlightTracked
<1>1. Init => InFlightTracked
  BY DEF Init, InFlightTracked
<1> QED
  BY <1>1, TypeInvariant, TrackedStep, PTL DEF Spec

-----------------------------------------------------------------------------
\* Only rows that may go are asked to be deleted: without it, a request that waits
\* might remove the last copy of an event.
MayGo(e) == Stored(e) \/ e \in lapsed \/ Superseded(e)
Justified == {q \in Requests : q.op = "delete" => MayGo(q.e)}
DeletesJustified == db \in Seq(Justified)

\* What may go once may go ever after.
LEMMA MayGoMono ==
  ASSUME TypeOK, [Next]_vars, NEW e, MayGo(e)
  PROVE  MayGo(e)'
<1>1. /\ appeared \subseteq appeared' /\ lapsed \subseteq lapsed'
      /\ \A r \in Relays : stored[r] \subseteq stored'[r]
  BY DEF Next, vars, connVars, relayVars, outboxVars, historyVars, TypeOK, SignAndPublish,
         Appears, OnOpen, OnClose, Connect, Disconnect, Accept, Refuse, HandleOK, ReplayAtLaunch,
         ReplayRows, Put, Delete, RequestFails, Restart
<1> QED
  BY <1>1 DEF MayGo, Stored, Superseded

LEMMA JustifiedStep == TypeOK /\ DeletesJustified /\ [Next]_vars => DeletesJustified'
<1> SUFFICES ASSUME TypeOK, DeletesJustified, [Next]_vars PROVE DeletesJustified'
  OBVIOUS
<1>1. recorded \subseteq recorded'
  BY DEF Next, vars, historyVars, SignAndPublish,
         Appears, OnOpen, OnClose, Connect, Disconnect, Accept, Refuse, HandleOK, ReplayAtLaunch,
         ReplayRows, Put, Delete, RequestFails, Restart
<1>2. Justified \subseteq Justified'
  <2> SUFFICES ASSUME NEW q \in Justified PROVE q \in Justified'
    OBVIOUS
  <2>1. q \in Requests'
    BY <1>1 DEF Justified, Requests, Read
  <2>2. q.op = "delete" => MayGo(q.e)'
    BY MayGoMono DEF Justified
  <2> QED
    BY <2>1, <2>2 DEF Justified
<1>3. db \in Seq(Justified')
  BY <1>2, SeqMono DEF DeletesJustified
<1>4. ASSUME NEW q \in Justified', Asked(q) PROVE DeletesJustified'
  <2> HIDE DEF Justified
  <2> QED
    BY <1>3, <1>4 DEF Asked, DeletesJustified
<1>5. ASSUME db # << >>, db' = Tail(db) PROVE DeletesJustified'
  <2> HIDE DEF Justified
  <2> QED
    BY <1>3, <1>5, TakeFirst DEF DeletesJustified
<1>6. ASSUME UNCHANGED db PROVE DeletesJustified'
  <2> HIDE DEF Justified
  <2> QED
    BY <1>3, <1>6 DEF DeletesJustified
<1>7. ASSUME Replay PROVE DeletesJustified'
  <2>1. Read \in Justified'
    BY DEF Justified, Requests, Read
  <2> QED
    BY <1>4, <1>6, <1>7, <2>1 DEF Replay
<1>8. ASSUME NEW e \in Events, SignAndPublish(e) PROVE DeletesJustified'
  <2>1. Op("put", e) \in Justified'
    BY <1>8 DEF SignAndPublish, Justified, Requests, Op
  <2> QED
    BY <1>4, <1>8, <2>1 DEF SignAndPublish
<1>9. ASSUME NEW r \in Relays, NEW e \in Events, HandleOK(r, e) PROVE DeletesJustified'
  <2>1. Op("delete", e) \in Justified'
    <3>1. e \in recorded' /\ MayGo(e)'
      BY <1>9 DEF HandleOK, TypeOK, historyVars, MayGo, Stored
    <3>2. Op("delete", e).e = e /\ Op("delete", e) \in Requests'
      BY <3>1 DEF Op, Requests
    <3> QED
      BY <3>1, <3>2 DEF Justified
  <2> QED
    BY <1>4, <1>6, <1>9, <2>1 DEF HandleOK
<1>10. CASE ReplayRows
  <2>1. PICK old \in SUBSET rows :
          LET dropped == old \cup {e \in rows : HasNewer(e)} IN
          /\ lapsed' = lapsed \cup old
          /\ db' = Tail(db) \o SetToSeq({Op("delete", e) : e \in dropped})
    BY <1>10 DEF ReplayRows
  <2> DEFINE dropped == old \cup {e \in rows : HasNewer(e)}
             deletes == {Op("delete", e) : e \in dropped}
  <2>2. UNCHANGED <<recorded, known, appeared>> /\ db # << >>
    BY <1>10 DEF ReplayRows, First
  <2>3. ASSUME NEW e \in dropped PROVE Op("delete", e) \in Justified'
    <3>1. e \in recorded' /\ known \subseteq appeared'
      BY <2>2 DEF TypeOK
    <3>2. MayGo(e)'
      BY <2>1, <2>2, <3>1 DEF MayGo, Superseded, HasNewer
    <3>3. Op("delete", e).e = e /\ Op("delete", e) \in Requests'
      BY <3>1 DEF Op, Requests
    <3> QED
      BY <3>2, <3>3 DEF Justified
  <2>4. IsFiniteSet(deletes)
    <3>1. IsFiniteSet(dropped)
      <4>1. dropped \subseteq Events
        BY DEF TypeOK
      <4> QED
        BY <4>1, FS_Subset
    <3> DEFINE f == [e \in dropped |-> Op("delete", e)]
    <3>2. f \in Surjection(dropped, deletes)
      BY DEF Surjection
    <3> HIDE DEF f, dropped, deletes
    <3> QED
      BY <3>1, <3>2, FS_Surjection
  <2>5. deletes \subseteq Justified'
    BY <2>3
  <2>6. db' = Tail(db) \o SetToSeq(deletes)
    BY <2>1
  <2> HIDE DEF Justified, deletes, dropped
  <2>7. Tail(db) \in Seq(Justified')
    BY <1>3, <2>2, TakeFirst
  <2>8. SetToSeq(deletes) \in Seq(Justified')
    BY <2>4, <2>5, SetToSeqType, SeqMono
  <2> QED
    BY <2>6, <2>7, <2>8 DEF DeletesJustified
<1>11. CASE Restart
  BY <1>11 DEF Restart, DeletesJustified
<1>12. ASSUME NEW r \in Relays, OnOpen(r) PROVE DeletesJustified'
  BY <1>6, <1>7, <1>12 DEF OnOpen
<1>13. CASE Put \/ Delete \/ RequestFails
  BY <1>5, <1>13 DEF Put, Delete, RequestFails, First
<1>14. CASE ReplayAtLaunch
  BY <1>7, <1>14 DEF ReplayAtLaunch
<1>15. ASSUME NEW e \in Events, Appears(e) PROVE DeletesJustified'
  BY <1>6, <1>15 DEF Appears
<1>16. ASSUME NEW r \in Relays, OnClose(r) \/ Connect(r) \/ Disconnect(r) PROVE DeletesJustified'
  BY <1>6, <1>16 DEF OnClose, Connect, Disconnect
<1>17. ASSUME NEW r \in Relays, NEW e \in Events, Accept(r, e) \/ Refuse(r, e)
       PROVE DeletesJustified'
  BY <1>6, <1>17 DEF Accept, Refuse
<1>18. CASE UNCHANGED vars
  BY <1>6, <1>18 DEF vars
<1> QED
  BY <1>8, <1>9, <1>10, <1>11, <1>12, <1>13, <1>14, <1>15, <1>16, <1>17, <1>18 DEF Next

LEMMA DurableStep ==
  TypeOK /\ DeletesJustified /\ Durable /\ [Next]_vars => Durable'
<1> SUFFICES ASSUME TypeOK, DeletesJustified, Durable, [Next]_vars, NEW e \in saved'
             PROVE  MayGo(e)' \/ e \in rows'
  BY DEF Durable, MayGo
<1>1. CASE Put
  BY <1>1, MayGoMono DEF Put, Durable, MayGo
<1>2. CASE Delete
  <2>1. Head(db) \in Justified
    <3> HIDE DEF Justified
    <3> QED
      BY <1>2, TakeFirst DEF DeletesJustified, Delete, First
  <2>2. MayGo(Head(db).e)
    BY <1>2, <2>1 DEF Justified, Delete, First
  <2> QED
    BY <1>2, <2>2, MayGoMono DEF Delete, historyVars, Durable, MayGo
<1>3. CASE ~Put /\ ~Delete
  <2>1. UNCHANGED <<rows, saved>>
    BY <1>3 DEF Next, vars, historyVars, SignAndPublish,
         Appears, OnOpen, OnClose, Connect, Disconnect, Accept, Refuse, HandleOK, ReplayAtLaunch,
         ReplayRows, RequestFails, Restart
  <2> QED
    BY <2>1, MayGoMono DEF Durable, MayGo
<1> QED
  BY <1>1, <1>2, <1>3

\* An event whose row was saved is at a relay or still saved, unless it grew too old
\* or the store held a later version of it, published or only saved locally.
THEOREM DurableInvariant == Spec => []Durable
<1>1. Init => Durable /\ DeletesJustified
  BY DEF Init, Durable, DeletesJustified
<1> QED
  BY <1>1, TypeInvariant, JustifiedStep, DurableStep, PTL DEF Spec
=============================================================================
