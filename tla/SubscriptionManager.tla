------------------------- MODULE SubscriptionManager -------------------------
(***************************************************************************)
(* The client's subscriptionManager (client/src/lib/nostr/                  *)
(* subscriptionManager.ts) on top of relayManager's routing of EOSE and     *)
(* CLOSE (relayManager.ts), over several relays.                            *)
(*                                                                         *)
(* A relay connection is reduced to what these two layers see of it (module *)
(* RelayConnection has the rest): the ids it tracks, whether it is          *)
(* connected, and which of the REQs sent on it may still be answered by an  *)
(* EOSE.  Events and filters are left out, but for whether the filters are  *)
(* safe for an indexer relay.                                               *)
(***************************************************************************)
EXTENDS Naturals, Sequences

CONSTANTS
  Ids,       \* the ids (nanoid) of the subscriptions the application opens
  Relays,    \* normalized relay URLs
  Indexers,  \* INDEXER_SET
  Listeners, \* the subscriptions opened with an onEOSE callback
  Once       \* those opened by subscribeOnce, whose onEOSE closes them

ASSUME IdsAssumption == Once \subseteq Listeners /\ Listeners \subseteq Ids
ASSUME RelaysAssumption == Indexers \subseteq Relays

VARIABLES
  \* subscriptionManager
  created,        \* ids handed out
  subscriptions,  \* keys of the Map: the subscriptions not closed yet
  quorum,         \* per id, the keys of eoseReceived
  eosed,          \* per id, those of them marked true
  eoseTimer,      \* ids whose backstop timer is armed
  microtask,      \* ids with a queued "no-relays" microtask
  eoseFired,      \* ids whose eoseFired flag is set
  \* relayManager, whose ids are not those of the subscriptionManager
  callbacks,      \* ids with onEvent and onEOSE callbacks
  intended,       \* pendingSubscriptions: per id, its URLs ({} when absent)
  dialed,         \* keys of connections
  \* the relay connections
  connected,      \* those whose status is "connected"
  tracked,        \* per relay, the ids it has subscribed
  awaiting,       \* per relay, the ids whose EOSE may still arrive
  \* history
  reasons,        \* per id, the reasons its onEOSE was called with
  answered        \* per id, the relays that have sent an EOSE for it

mapVars     == <<created, subscriptions>>
eoseVars    == <<quorum, eosed>>
managerVars == <<callbacks, intended>>
linkVars    == <<dialed, connected>>
vars == <<mapVars, eoseVars, eoseTimer, microtask, eoseFired, managerVars, linkVars,
          tracked, awaiting, reasons, answered>>

\* nextSubId: relayManager.subscribe generates an id of its own, and
\* subscriptionManager drops it.
SubId(id) == <<"sub", id>>
SubIds == {SubId(id) : id \in Ids}

-----------------------------------------------------------------------------
\* relayManager

\* The indexer strip: relays that only serve indexer kinds get no other REQ.
Targets(urls, safe) == IF safe THEN urls ELSE urls \ Indexers

\* relayManager.closeSubscription for every id of S: callbacks, pending entry
\* and the tracking of every connection, under the id it is given.
CloseAtManager(S) ==
  /\ callbacks' = callbacks \ S
  /\ intended' = [h \in SubIds |-> IF h \in S THEN {} ELSE intended[h]]
  /\ tracked' = [r \in Relays |-> tracked[r] \ S]

-----------------------------------------------------------------------------
\* subscriptionManager

\* onEOSE is called, and the flag and the timer are settled first.
\* subscribeOnce's onEOSE closes the subscription at once.
CallOnEose(id, reason) ==
  /\ eoseFired' = eoseFired \cup {id}
  /\ eoseTimer' = eoseTimer \ {id}
  /\ reasons' = IF id \in Listeners
                THEN [reasons EXCEPT ![id] = Append(@, reason)] ELSE reasons
  /\ IF id \in Once
     THEN subscriptions' = subscriptions \ {id} /\ CloseAtManager({id})
     ELSE UNCHANGED <<subscriptions, managerVars, tracked>>

StaySilent == UNCHANGED <<subscriptions, eoseTimer, eoseFired, managerVars, tracked, reasons>>

\* Mutant of FireEose: it does not check that the subscription is active.
FireEose_AfterClose(id, reason) ==
  IF id \in eoseFired THEN StaySilent ELSE CallOnEose(id, reason)

\* Mutant of FireEose: it does not check that it has not fired before.
FireEose_Twice(id, reason) ==
  IF id \in subscriptions THEN CallOnEose(id, reason) ELSE StaySilent

\* fireEose: once, and only while the subscription is active.
FireEose(id, reason) ==
  IF id \in subscriptions \ eoseFired THEN CallOnEose(id, reason) ELSE StaySilent

\* subscribe: the EOSE quorum is recorded and the backstop armed, then
\* relayManager registers the callbacks, dials what was never dialed and hands
\* the subscription to each connection.
Subscribe(id, urls, safe) ==
  LET h == SubId(id)
      targets == Targets(urls, safe)
      waited == IF safe THEN urls ELSE urls \ Indexers
  IN  /\ id \notin created
      /\ created' = created \cup {id}
      /\ subscriptions' = subscriptions \cup {id}
      /\ quorum' = [quorum EXCEPT ![id] = waited]
      /\ eosed' = [eosed EXCEPT ![id] = {}]
      /\ eoseTimer' = IF id \in Listeners /\ waited # {} THEN eoseTimer \cup {id} ELSE eoseTimer
      /\ microtask' = IF id \in Listeners /\ waited = {} THEN microtask \cup {id} ELSE microtask
      /\ callbacks' = callbacks \cup {h}
      /\ intended' = [intended EXCEPT ![h] = targets]
      /\ dialed' = dialed \cup targets
      /\ tracked' = [r \in Relays |-> IF r \in targets THEN tracked[r] \cup {h} ELSE tracked[r]]
      /\ awaiting' = [r \in Relays |-> IF r \in targets \cap connected
                                       THEN awaiting[r] \cup {h} ELSE awaiting[r]]
      /\ UNCHANGED <<eoseFired, connected, reasons, answered>>

\* The backstop timer fires.
EoseTimeout(id) ==
  /\ id \in eoseTimer
  /\ FireEose(id, "timeout")
  /\ UNCHANGED <<created, eoseVars, microtask, linkVars, awaiting, answered>>

\* Mutant of NoRelays: the case of an empty quorum is forgotten.
NoRelays_Never(id) == FALSE /\ UNCHANGED vars

\* The microtask queued for an empty quorum runs.
NoRelays(id) ==
  /\ id \in microtask
  /\ microtask' = microtask \ {id}
  /\ FireEose(id, "no-relays")
  /\ UNCHANGED <<created, eoseVars, linkVars, awaiting, answered>>

\* Mutant of Close: the backstop timer is left armed.
Close_TimerKept(id) ==
  /\ id \in subscriptions
  /\ subscriptions' = subscriptions \ {id}
  /\ CloseAtManager({id})
  /\ UNCHANGED <<created, eoseVars, eoseTimer, microtask, eoseFired, linkVars, awaiting,
                 reasons, answered>>

\* close(): a no-op for an id that is closed already.
Close(id) ==
  /\ id \in subscriptions
  /\ subscriptions' = subscriptions \ {id}
  /\ eoseTimer' = eoseTimer \ {id}
  /\ CloseAtManager({id})
  /\ UNCHANGED <<created, eoseVars, microtask, eoseFired, linkVars, awaiting, reasons, answered>>

\* Logout or account switch: closeAll, then relayManager.disconnectAll.
Logout ==
  /\ subscriptions' = {} /\ eoseTimer' = {}
  /\ callbacks' = {} /\ intended' = [h \in SubIds |-> {}]
  /\ dialed' = {} /\ connected' = {}
  /\ tracked' = [r \in Relays |-> {}] /\ awaiting' = [r \in Relays |-> {}]
  /\ UNCHANGED <<created, eoseVars, microtask, eoseFired, reasons, answered>>

\* Mutant of AllEosed: one relay is as good as all.
AllEosed_Any(id, got) == got # {}

\* The quorum is complete.
AllEosed(id, got) == quorum[id] \subseteq got

-----------------------------------------------------------------------------
\* The relays

\* relayManager.connect(url), by any feature.
Dial(r) ==
  /\ r \notin dialed
  /\ dialed' = dialed \cup {r}
  /\ UNCHANGED <<mapVars, eoseVars, eoseTimer, microtask, eoseFired, managerVars, connected,
                 tracked, awaiting, reasons, answered>>

\* relayManager.disconnect(url): the connection and all it tracks is dropped.
Drop(r) ==
  /\ r \in dialed
  /\ dialed' = dialed \ {r} /\ connected' = connected \ {r}
  /\ tracked' = [tracked EXCEPT ![r] = {}] /\ awaiting' = [awaiting EXCEPT ![r] = {}]
  /\ UNCHANGED <<mapVars, eoseVars, eoseTimer, microtask, eoseFired, managerVars,
                 reasons, answered>>

\* The socket opens: what the connection tracks is sent again, and the pending
\* subscriptions that are meant for it and still have a callback are forwarded.
Open(r) ==
  LET forward == {h \in callbacks : r \in intended[h]}
  IN  /\ r \in dialed \ connected
      /\ connected' = connected \cup {r}
      /\ tracked' = [tracked EXCEPT ![r] = @ \cup forward]
      /\ awaiting' = [awaiting EXCEPT ![r] = tracked[r] \cup forward]
      /\ UNCHANGED <<mapVars, eoseVars, eoseTimer, microtask, eoseFired, managerVars,
                     dialed, reasons, answered>>

\* The socket closes; the connection keeps its subscriptions.
Lose(r) ==
  /\ r \in connected
  /\ connected' = connected \ {r}
  /\ awaiting' = [awaiting EXCEPT ![r] = {}]
  /\ UNCHANGED <<mapVars, eoseVars, eoseTimer, microtask, eoseFired, managerVars,
                 dialed, tracked, reasons, answered>>

\* The relay CLOSEs a subscription instead of serving it.
Refuse(r, id) ==
  /\ SubId(id) \in awaiting[r]
  /\ awaiting' = [awaiting EXCEPT ![r] = @ \ {SubId(id)}]
  /\ tracked' = [tracked EXCEPT ![r] = @ \ {SubId(id)}]
  /\ UNCHANGED <<mapVars, eoseVars, eoseTimer, microtask, eoseFired, managerVars,
                 linkVars, reasons, answered>>

\* An EOSE arrives: relayManager routes it by its own id to the callback, which
\* counts it if the subscription is active and waits for this relay.
Eose(r, id) ==
  LET h == SubId(id)
      got == eosed[id] \cup {r}
  IN  /\ h \in awaiting[r]
      /\ awaiting' = [awaiting EXCEPT ![r] = @ \ {h}]
      /\ answered' = [answered EXCEPT ![id] = @ \cup {r}]
      /\ IF h \in callbacks /\ id \in subscriptions /\ r \in quorum[id]
         THEN /\ eosed' = [eosed EXCEPT ![id] = got]
              /\ IF AllEosed(id, got) THEN FireEose(id, "all-eose") ELSE StaySilent
         ELSE UNCHANGED eosed /\ StaySilent
      /\ UNCHANGED <<created, quorum, microtask, linkVars>>

-----------------------------------------------------------------------------
Init ==
  /\ created = {} /\ subscriptions = {}
  /\ quorum = [id \in Ids |-> {}] /\ eosed = [id \in Ids |-> {}]
  /\ eoseTimer = {} /\ microtask = {} /\ eoseFired = {}
  /\ callbacks = {} /\ intended = [h \in SubIds |-> {}]
  /\ dialed = {} /\ connected = {}
  /\ tracked = [r \in Relays |-> {}] /\ awaiting = [r \in Relays |-> {}]
  /\ reasons = [id \in Ids |-> << >>] /\ answered = [id \in Ids |-> {}]

Next ==
  \/ \E id \in Ids, urls \in SUBSET Relays, safe \in BOOLEAN : Subscribe(id, urls, safe)
  \/ \E id \in Ids : EoseTimeout(id) \/ NoRelays(id) \/ Close(id)
  \/ \E r \in Relays : Dial(r) \/ Drop(r) \/ Open(r) \/ Lose(r)
  \/ \E r \in Relays, id \in Ids : Refuse(r, id) \/ Eose(r, id)
  \/ Logout

Spec == Init /\ [][Next]_vars

\* Armed timers and queued microtasks run.
LiveSpec ==
  /\ Spec
  /\ \A id \in Ids : WF_vars(EoseTimeout(id)) /\ WF_vars(NoRelays(id))

-----------------------------------------------------------------------------
\* Every variable stays within its type, and only a subscription that is
\* still open has a backstop armed.
TypeOK ==
  /\ subscriptions \subseteq created /\ created \subseteq Ids
  /\ quorum \in [Ids -> SUBSET Relays] /\ eosed \in [Ids -> SUBSET Relays]
  /\ eoseTimer \subseteq subscriptions \cap Listeners /\ microtask \subseteq Listeners
  /\ eoseFired \subseteq created
  /\ callbacks \subseteq SubIds /\ intended \in [SubIds -> SUBSET Relays]
  /\ connected \subseteq dialed /\ dialed \subseteq Relays
  /\ tracked \in [Relays -> SUBSET SubIds] /\ awaiting \in [Relays -> SUBSET SubIds]
  /\ reasons \in [Ids -> Seq({"all-eose", "timeout", "no-relays"})]
  /\ answered \in [Ids -> SUBSET Relays]

\* onEOSE is called at most once, however EOSEs, reconnects, the backstop and
\* close() race (eoseFired, subscriptionManager.ts:41).
EoseAtMostOnce == \A id \in Ids : Len(reasons[id]) <= 1

\* "all-eose" is honest: every relay the relay manager sent the subscription to
\* has answered it (subscriptionManager.ts:12-16; pagination stops on it).
HonestAllEose ==
  \A id \in Ids : reasons[id] = <<"all-eose">> =>
    intended[SubId(id)] \subseteq answered[id] /\ answered[id] # {}

\* Once a subscription is closed its onEOSE stays silent: no timer, microtask
\* or EOSE that was already under way calls back into a page that is gone.
SilentAfterClose ==
  [][\A id \in Ids \ subscriptions : reasons'[id] = reasons[id]]_vars

\* Whoever waits for onEOSE gets an answer, unless it closes first: a relay that
\* never answers, drops, refuses or was stripped cannot leave it loading
\* (subscriptionManager.ts:18-21).
EoseEventually ==
  \A id \in Listeners :
    id \in subscriptions ~> (Len(reasons[id]) > 0 \/ id \notin subscriptions)
=============================================================================
