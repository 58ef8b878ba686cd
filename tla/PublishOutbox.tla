---------------------------- MODULE PublishOutbox ----------------------------
(***************************************************************************)
(* How a signed event reaches the relays: relayManager.publish over the      *)
(* connections' message queues, and the outbox that records it in the local  *)
(* database and publishes it again on every reconnect and at the next        *)
(* launch (publishOutbox.ts).  Only the side of a connection that carries    *)
(* EVENT and OK is here; RelayConnection has the subscriptions.  All relays  *)
(* are read+write.                                                           *)
(*                                                                          *)
(* The database works off its requests in order; a crash loses those that    *)
(* wait.  Sending an event twice is the same as sending it once, so queues   *)
(* and wires are sets.                                                       *)
(***************************************************************************)
EXTENDS Sequences, FiniteSets, SequencesExt

CONSTANTS Relays, Events,
  Targets,  \* the relays an event is published to; none for one that goes to all
  Newer     \* Newer[e]: the later versions of a replaceable event

ASSUME OutboxAssumption ==
  /\ IsFiniteSet(Events)
  /\ Targets \in [Events -> SUBSET Relays]
  /\ Newer \in [Events -> SUBSET Events] /\ \A e \in Events : e \notin Newer[e]

VARIABLES
  connections,   \* the relays that have one
  everConnected, \* those that were connected before, this session
  open,          \* those whose socket is open
  messageQueue,  \* per connection, what waits for the socket
  wire,          \* per relay, the events sent and not answered
  stored,        \* per relay
  rows,          \* the outbox table
  db,            \* requests to the database: [op, e], or [op |-> "read"]
  pending, replaying,
  launching,     \* the login has not come to its replay yet
  known,         \* the event store
  \* history
  recorded, saved, lapsed,
  appeared       \* versions the event store has held

connVars    == <<connections, everConnected, open, messageQueue>>
relayVars   == <<wire, stored>>
outboxVars  == <<pending, replaying>>
historyVars == <<recorded, saved, lapsed, appeared>>
vars == <<connVars, relayVars, rows, db, outboxVars, launching, known, historyVars>>

Read == [op |-> "read"]
Op(op, e) == [op |-> op, e |-> e]
Asked(request) == db' = Append(db, request)

-----------------------------------------------------------------------------
\* relayManager.publish: to the targets that have a connection, or to every relay
\* that is connected.
Aims(e) == IF Targets[e] = {} THEN open ELSE Targets[e] \cap connections

\* Each connection sends what it is given, or queues it.
Publish(S) ==
  LET given(r) == {e \in S : r \in Aims(e)} IN
  /\ wire' = [r \in Relays |-> IF r \in open THEN wire[r] \cup given(r) ELSE wire[r]]
  /\ messageQueue' = [r \in Relays |->
       IF r \in open THEN messageQueue[r] ELSE messageQueue[r] \cup given(r)]

\* signAndPublish once the event is signed: sent, then recorded.
SignAndPublish(e) ==
  /\ e \notin recorded \cup appeared
  /\ Publish({e})
  /\ pending' = pending \cup {e}
  /\ Asked(Op("put", e))
  /\ recorded' = recorded \cup {e}
  /\ UNCHANGED <<connections, everConnected, open, stored, rows, replaying, launching,
                 known, saved, lapsed, appeared>>

\* An event that may supersede another comes into the event store: one that was
\* published is processed locally or comes back from a relay, one that never was is
\* only saved (signAndSaveLocally) or was made elsewhere, and either is loaded again.
Appears(e) ==
  /\ e \notin known /\ \E f \in Events : e \in Newer[f]
  /\ known' = known \cup {e} /\ appeared' = appeared \cup {e}
  /\ UNCHANGED <<connVars, relayVars, rows, db, outboxVars, launching, recorded, saved, lapsed>>

\* What a relay has stored it answers with a success, and the first one clears the
\* row.
HandleOK(r, e) ==
  /\ e \in wire[r] \cap stored[r]
  /\ wire' = [wire EXCEPT ![r] = @ \ {e}]
  /\ IF e \in pending
     THEN pending' = pending \ {e} /\ Asked(Op("delete", e))
     ELSE UNCHANGED <<pending, db>>
  /\ UNCHANGED <<connVars, stored, rows, replaying, launching, known, historyVars>>

-----------------------------------------------------------------------------
\* replay up to its await: one at a time.
Replay ==
  IF replaying THEN UNCHANGED <<replaying, db>> ELSE replaying' = TRUE /\ Asked(Read)

\* After the login, for what the last session left.
ReplayAtLaunch ==
  /\ launching /\ launching' = FALSE
  /\ Replay
  /\ UNCHANGED <<connVars, relayVars, rows, pending, known, historyVars>>

HasNewer(e) == Newer[e] \cap known # {}

First(op) == db # << >> /\ Head(db).op = op

\* Mutant of ReplayRows: what is sent again is not awaited again.
ReplayRows_Untracked ==
  /\ First("read")
  /\ \E old \in SUBSET rows : LET dropped == old \cup {e \in rows : HasNewer(e)} IN
     /\ lapsed' = lapsed \cup old
     /\ db' = Tail(db) \o SetToSeq({Op("delete", e) : e \in dropped})
     /\ Publish(rows \ dropped)
  /\ replaying' = FALSE
  /\ UNCHANGED <<connections, everConnected, open, stored, rows, launching, known,
                 pending, recorded, saved, appeared>>

\* The rows are read, and gone through in the same task: those that are too old or
\* superseded go, the others are sent again.
ReplayRows ==
  /\ First("read")
  /\ \E old \in SUBSET rows : LET dropped == old \cup {e \in rows : HasNewer(e)} IN
     /\ lapsed' = lapsed \cup old
     /\ db' = Tail(db) \o SetToSeq({Op("delete", e) : e \in dropped})
     /\ pending' = pending \cup (rows \ dropped)
     /\ Publish(rows \ dropped)
  /\ replaying' = FALSE
  /\ UNCHANGED <<connections, everConnected, open, stored, rows, launching, known,
                 recorded, saved, appeared>>

Put ==
  /\ First("put")
  /\ rows' = rows \cup {Head(db).e} /\ saved' = saved \cup {Head(db).e}
  /\ db' = Tail(db)
  /\ UNCHANGED <<connVars, relayVars, outboxVars, launching, known, recorded, lapsed, appeared>>

Delete ==
  /\ First("delete")
  /\ rows' = rows \ {Head(db).e}
  /\ db' = Tail(db)
  /\ UNCHANGED <<connVars, relayVars, outboxVars, launching, known, historyVars>>

\* Mutant of RequestFails: a failed read leaves the guard set.
RequestFails_KeepsGuard ==
  /\ db # << >> /\ db' = Tail(db)
  /\ UNCHANGED <<connVars, relayVars, rows, outboxVars, launching, known, historyVars>>

\* A request the database refuses: nobody is told, and a replay gives up.
RequestFails ==
  /\ db # << >> /\ db' = Tail(db)
  /\ replaying' = (replaying /\ ~First("read"))
  /\ UNCHANGED <<connVars, relayVars, rows, pending, launching, known, historyVars>>

-----------------------------------------------------------------------------
\* Mutant of OnOpen: the queue is sent, and kept.
OnOpen_KeepsQueue(r) ==
  /\ r \in connections \ open
  /\ open' = open \cup {r} /\ everConnected' = everConnected \cup {r}
  /\ wire' = [wire EXCEPT ![r] = @ \cup messageQueue[r]]
  /\ IF r \in everConnected THEN Replay ELSE UNCHANGED <<replaying, db>>
  /\ UNCHANGED <<connections, messageQueue, stored, rows, pending, launching, known,
                 historyVars>>

\* onopen: the queue is sent; a reconnect replays, a first connect does not.
OnOpen(r) ==
  /\ r \in connections \ open
  /\ open' = open \cup {r} /\ everConnected' = everConnected \cup {r}
  /\ wire' = [wire EXCEPT ![r] = @ \cup messageQueue[r]]
  /\ messageQueue' = [messageQueue EXCEPT ![r] = {}]
  /\ IF r \in everConnected THEN Replay ELSE UNCHANGED <<replaying, db>>
  /\ UNCHANGED <<connections, stored, rows, pending, launching, known, historyVars>>

\* The socket closes: what is on it is lost.
OnClose(r) ==
  /\ r \in open
  /\ open' = open \ {r}
  /\ wire' = [wire EXCEPT ![r] = {}]
  /\ UNCHANGED <<connections, everConnected, messageQueue, stored, rows, db, outboxVars,
                 launching, known, historyVars>>

\* relayManager.connect and disconnect: a connection that goes takes its queue with
\* it, and one that comes back starts anew.
Connect(r) ==
  /\ r \notin connections
  /\ connections' = connections \cup {r}
  /\ UNCHANGED <<everConnected, open, messageQueue, relayVars, rows, db, outboxVars, launching,
                 known, historyVars>>

Disconnect(r) ==
  /\ r \in connections
  /\ connections' = connections \ {r} /\ everConnected' = everConnected \ {r}
  /\ open' = open \ {r} /\ messageQueue' = [messageQueue EXCEPT ![r] = {}]
  /\ wire' = [wire EXCEPT ![r] = {}]
  /\ UNCHANGED <<stored, rows, db, outboxVars, launching, known, historyVars>>

\* The application ends, and starts again.
Restart ==
  /\ connections' = {} /\ everConnected' = {} /\ open' = {}
  /\ messageQueue' = [r \in Relays |-> {}]
  /\ wire' = [r \in Relays |-> {}]
  /\ db' = << >> /\ pending' = {} /\ replaying' = FALSE
  /\ launching' = TRUE /\ known' = {}
  /\ UNCHANGED <<stored, rows, historyVars>>

\* The relay stores an event.
Accept(r, e) ==
  /\ e \in wire[r] \ stored[r]
  /\ stored' = [stored EXCEPT ![r] = @ \cup {e}]
  /\ UNCHANGED <<connVars, wire, rows, db, outboxVars, launching, known, historyVars>>

\* Mutant of Refuse: the OK that refuses clears the row, too.
Refuse_ClearsRow(r, e) ==
  /\ e \in wire[r]
  /\ wire' = [wire EXCEPT ![r] = @ \ {e}]
  /\ pending' = pending \ {e} /\ Asked(Op("delete", e))
  /\ UNCHANGED <<connVars, stored, rows, replaying, launching, known, recorded,
                 saved, lapsed, appeared>>

\* It refuses: handleOK leaves the row for the next replay.
Refuse(r, e) ==
  /\ e \in wire[r]
  /\ wire' = [wire EXCEPT ![r] = @ \ {e}]
  /\ UNCHANGED <<connVars, stored, rows, db, outboxVars, launching, known, recorded,
                 saved, lapsed, appeared>>

-----------------------------------------------------------------------------
Init ==
  /\ connections = {} /\ everConnected = {} /\ open = {}
  /\ messageQueue = [r \in Relays |-> {}]
  /\ wire = [r \in Relays |-> {}] /\ stored = [r \in Relays |-> {}]
  /\ rows = {} /\ db = << >>
  /\ pending = {} /\ replaying = FALSE /\ launching = TRUE /\ known = {}
  /\ recorded = {} /\ saved = {} /\ lapsed = {} /\ appeared = {}

Next ==
  \/ \E e \in Events : SignAndPublish(e) \/ Appears(e)
  \/ \E r \in Relays : OnOpen(r) \/ OnClose(r) \/ Connect(r) \/ Disconnect(r)
  \/ \E r \in Relays, e \in Events : Accept(r, e) \/ Refuse(r, e) \/ HandleOK(r, e)
  \/ ReplayAtLaunch \/ ReplayRows \/ Put \/ Delete \/ RequestFails \/ Restart

Spec == Init /\ [][Next]_vars

\* The database goes on, and does not refuse every read.
Fairness == WF_vars(Put) /\ WF_vars(Delete) /\ SF_vars(ReplayRows)

LiveSpec == Spec /\ Fairness

-----------------------------------------------------------------------------
Stored(e) == \E r \in Relays : e \in stored[r]
Superseded(e) == Newer[e] \cap appeared # {}
Requests == [op : {"put", "delete"}, e : recorded] \cup {Read}

\* Types; what is queued waits for a socket, what is on a wire has one.
TypeOK ==
  /\ open \subseteq everConnected /\ everConnected \subseteq connections /\ connections \subseteq Relays
  /\ messageQueue \in [Relays -> SUBSET recorded]
  /\ wire \in [Relays -> SUBSET recorded] /\ stored \in [Relays -> SUBSET recorded]
  /\ \A r \in Relays :
       /\ r \in open => messageQueue[r] = {}
       /\ r \notin open => wire[r] = {}
  /\ rows \subseteq saved /\ saved \subseteq recorded
  /\ recorded \subseteq Events
  /\ db \in Seq(Requests)
  /\ pending \subseteq recorded /\ known \subseteq appeared /\ appeared \subseteq Events
  /\ lapsed \subseteq recorded
  /\ launching \in BOOLEAN /\ replaying \in BOOLEAN

\* An event whose row was saved is not lost: a relay has it, or its row is still
\* there, unless it grew too old or the event store held a later version of it, one
\* that was published or one that was only saved locally (publishOutbox.ts:25-29,
\* "a relay drop / refresh can't silently lose a publish"; 86-95).
Durable ==
  \A e \in saved : Stored(e) \/ e \in rows \/ e \in lapsed \/ Superseded(e)

\* What is on the way to a relay, and at none yet, is awaited: its OK clears the row,
\* also when the event comes from a session before (publishOutbox.ts:32, 73).
InFlightTracked ==
  \A r \in Relays : \A e \in (messageQueue[r] \cup wire[r]) : Stored(e) \/ e \in pending

\* While a relay reconnects again and again, replays go on: one that failed, or whose
\* reconnect found another under way, does not stop them (publishOutbox.ts:58-65).
Reconnects(r) == OnOpen(r) /\ r \in everConnected
ReplaysGoOn ==
  (<>[][~Restart]_vars /\ \E r \in Relays : []<><<Reconnects(r)>>_vars)
  => []<><<ReplayRows>>_vars
=============================================================================
