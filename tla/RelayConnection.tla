-------------------------- MODULE RelayConnection --------------------------
(***************************************************************************)
(* One RelayConnection of the client (client/src/lib/nostr/                 *)
(* relayConnection.ts), the part of the relay manager that feeds it          *)
(* subscriptions (relayManager.ts), and the relay's side of the same         *)
(* WebSocket (services/relay: connection.rs, handler.rs, subscription.rs).   *)
(*                                                                         *)
(* The client is a single JavaScript thread: every API call, socket event,  *)
(* timer and promise continuation runs to completion, so each is one action *)
(* here.  What interleaves is their order, and the relay's steps.           *)
(*                                                                         *)
(* A subscription is its id; filters are abstracted away (an id never       *)
(* changes its filters: relayManager.subscribe generates a fresh one).      *)
(* pendingEOSE, latencies, counters and log lines are never read by the     *)
(* code that decides anything and are left out.  Time is abstracted: any    *)
(* armed timer may fire.                                                    *)
(***************************************************************************)
EXTENDS ListOps

CONSTANTS
  Subs,              \* the subscription ids the application may create
  Protected,         \* those the relay serves only to an authenticated client
  DefaultCap,        \* DEFAULT_MAX_SUBS, the cap assumed before NIP-11 answers
  RelayCap,          \* MAX_SUBSCRIPTIONS of the relay, advertised by NIP-11
  BatchSize,         \* BATCH_SIZE of resubscribe
  MaxClosedRetries,  \* MAX_CLOSED_RETRIES
  SendsChallenge,    \* does the relay open with a NIP-42 AUTH challenge?
  CancelsSubs        \* may the relay CLOSE a subscription it had accepted?

ASSUME SubsAssumption == IsFiniteSet(Subs) /\ Protected \subseteq Subs
ASSUME CapAssumption ==
  /\ DefaultCap \in Nat \ {0} /\ RelayCap \in Nat \ {0}
  /\ BatchSize \in Nat \ {0}  /\ MaxClosedRetries \in Nat
ASSUME RelayAssumption == SendsChallenge \in BOOLEAN /\ CancelsSubs \in BOOLEAN

VARIABLES
  \* relayManager, for the subscriptions that target this relay
  used,                  \* ids nextSubId has already handed out
  pendingSubscriptions,  \* keys of the Map of the same name, insertion order
  dialed,                \* the manager's connections Map holds this connection
  \* RelayConnection
  status, socket, reconnectTimer,
  subscriptions,         \* keys of the Map, insertion order
  deferredSubs, closedRetries, maxSubscriptions, messageQueue,
  reqGate, heldReqs, everChallenged,
  pendingAuthChallenge,  \* is a challenge of this socket cached, unanswered?
  lastAuthEventId,       \* the challenge the AUTH whose OK is outstanding answers, or "none"
  signing,               \* onAuth promises in flight: for this socket's challenge, or an older one
  batches,               \* resubscribe batches of this socket still on a timer
  staleBatches,          \* batches whose timer outlived the socket it was set for
  \* the wire and the relay's per-connection state
  toRelay, toClient, relaySubs, authed,
  \* history: may this socket have carried a REQ that was not held for AUTH?
  unheld

managerVars == <<used, pendingSubscriptions, dialed>>
linkVars    == <<status, socket, reconnectTimer>>
subVars     == <<subscriptions, deferredSubs, closedRetries, maxSubscriptions, messageQueue>>
authVars    == <<everChallenged, pendingAuthChallenge, lastAuthEventId, signing>>
timerVars   == <<batches, staleBatches>>
relayVars   == <<relaySubs, authed>>
vars == <<managerVars, linkVars, subVars, reqGate, heldReqs, authVars,
          timerVars, toRelay, toClient, relayVars, unheld>>

Tracked == Range(subscriptions)
Deferred == Range(deferredSubs)
Held == Range(heldReqs)
Pending == Range(pendingSubscriptions)

-----------------------------------------------------------------------------
\* Messages

Req(s)   == [type |-> "REQ", sub |-> s]
Close(s) == [type |-> "CLOSE", sub |-> s]
Auth(c)  == [type |-> "AUTH", challenge |-> c]   \* c: "current" or "old"

Eose(s)      == [type |-> "EOSE", sub |-> s]
Closed(s, r) == [type |-> "CLOSED", sub |-> s, reason |-> r]
Ok(c, b)     == [type |-> "OK", challenge |-> c, success |-> b]
Challenge    == [type |-> "AUTH"]

\* Why a relay CLOSEs: its own cap, a private group, the answer to our CLOSE
\* (an empty reason), or its own decision.
Reasons == {"too many subscriptions", "auth-required", "", "cancelled"}

Reqs(q) == [i \in DOMAIN q |-> Req(q[i])]

ClientMessages ==
  [type : {"REQ", "CLOSE"}, sub : Subs]
    \cup [type : {"AUTH"}, challenge : {"current", "old"}]
RelayMessages ==
  [type : {"EOSE"}, sub : Subs] \cup [type : {"CLOSED"}, sub : Subs, reason : Reasons]
    \cup [type : {"OK"}, challenge : {"current", "old"}, success : BOOLEAN]
    \cup {Challenge}

-----------------------------------------------------------------------------
\* Sending

\* sendReq for each id of q in turn, when held is the hold queue and `before`
\* has just been written to the wire: held while the gate is engaged, dropped
\* when the socket is not open (resubscribe sends it then).
SendReqs(held, before, q) ==
  IF reqGate = "holding"
  THEN /\ heldReqs' = held \o Keep(q, Subs \ Range(held))
       /\ toRelay' = toRelay \o before
  ELSE /\ heldReqs' = held
       /\ toRelay' = IF socket = "open" THEN toRelay \o before \o Reqs(q) ELSE toRelay

\* How many entries drainDeferred shifts off q when ord is tracked: it stops at
\* the first one still tracked (which it sends), when no slot is free, or at
\* the end.
Shifted(q, ord) ==
  LET stop == {n \in 0 .. Len(q) :
                 \/ n = Len(q)
                 \/ Len(ord) - (Len(q) - n) >= maxSubscriptions
                 \/ n > 0 /\ q[n] \in Range(ord)}
  IN  CHOOSE n \in stop : \A m \in stop : n <= m

\* The subscription drainDeferred sends, if any.
Drained(q, ord) ==
  LET n == Shifted(q, ord)
  IN  IF n > 0 /\ q[n] \in Range(ord) THEN <<q[n]>> ELSE << >>

\* Mutant of Room: activeSent is read before the new subscription is counted.
Room_OffByOne(ord, q) ==
  LET r == maxSubscriptions + 1 - (Len(ord) - Len(q)) IN IF r < 0 THEN 0 ELSE r

\* Room for more REQs under the cap, given what is tracked and deferred.
Room(ord, q) ==
  LET r == maxSubscriptions - (Len(ord) - Len(q)) IN IF r < 0 THEN 0 ELSE r

-----------------------------------------------------------------------------
\* Dialing

\* The state of a RelayConnection object that has just been constructed.
FreshConnection ==
  /\ subscriptions' = << >> /\ deferredSubs' = << >> /\ heldReqs' = << >>
  /\ closedRetries' = [s \in Subs |-> 0]
  /\ maxSubscriptions' = DefaultCap
  /\ messageQueue' = << >>
  /\ reqGate' = "open" /\ everChallenged' = FALSE
  /\ pendingAuthChallenge' = FALSE /\ lastAuthEventId' = "none" /\ signing' = {}
  /\ batches' = << >> /\ staleBatches' = {}

\* connect() when no socket exists: a new WebSocket is being opened.
OpenSocket == status' = "connecting" /\ socket' = "connecting"

\* relayManager.connect(url): construct the connection and connect it, or call
\* connect() on the one there is, which returns early when it has a socket.
Connect ==
  /\ socket = "none"
  /\ dialed' = TRUE
  /\ OpenSocket
  /\ UNCHANGED <<used, pendingSubscriptions, reconnectTimer, subVars, reqGate, heldReqs,
                 authVars, timerVars, toRelay, toClient, relayVars, unheld>>

\* The reconnect timer fires and calls connect().
ReconnectTimer ==
  /\ reconnectTimer
  /\ reconnectTimer' = FALSE
  /\ IF socket = "none" THEN OpenSocket ELSE UNCHANGED <<status, socket>>
  /\ UNCHANGED <<managerVars, subVars, reqGate, heldReqs, authVars, timerVars,
                 toRelay, toClient, relayVars, unheld>>

\* connect(), from the manager or from the timer, when the WebSocket
\* constructor throws: another attempt is scheduled.
ConnectThrows ==
  /\ socket = "none"
  /\ dialed' = TRUE
  /\ status' = "error" /\ reconnectTimer' = TRUE
  /\ UNCHANGED <<used, pendingSubscriptions, socket, subVars, reqGate, heldReqs,
                 authVars, timerVars, toRelay, toClient, relayVars, unheld>>

\* relayManager.disconnect(url): the connection forgets everything and is
\* dropped from the manager; a later dial constructs a new one.
Disconnect ==
  /\ dialed
  /\ dialed' = FALSE
  /\ status' = "disconnected" /\ socket' = "none" /\ reconnectTimer' = FALSE
  /\ FreshConnection
  /\ toRelay' = << >> /\ toClient' = << >> /\ relaySubs' = {} /\ authed' = FALSE
  /\ unheld' = FALSE
  /\ UNCHANGED <<used, pendingSubscriptions>>

-----------------------------------------------------------------------------
\* The application's calls, through the relay manager

\* relayManager.subscribe with this relay among its URLs: it is dialed if it
\* was not, and the subscription is sent, or deferred at the cap.
Subscribe(s) ==
  /\ s \notin used
  /\ used' = used \cup {s}
  /\ pendingSubscriptions' = Append(pendingSubscriptions, s)
  /\ dialed' = TRUE
  /\ IF dialed THEN UNCHANGED <<status, socket>> ELSE OpenSocket
  /\ subscriptions' = Append(subscriptions, s)
  /\ IF Room(subscriptions, deferredSubs) = 0
     THEN /\ deferredSubs' = Append(deferredSubs, s)
          /\ UNCHANGED <<heldReqs, toRelay>>
     ELSE /\ SendReqs(heldReqs, << >>, <<s>>)
          /\ UNCHANGED deferredSubs
  /\ UNCHANGED <<reconnectTimer, closedRetries, maxSubscriptions, messageQueue, reqGate,
                 authVars, timerVars, toClient, relayVars, unheld>>

\* relayManager.subscribe without URLs: only the read relays connected now get
\* it (then it is as above); the others when they connect.
SubscribeLater(s) ==
  /\ s \notin used /\ status # "connected"
  /\ used' = used \cup {s}
  /\ pendingSubscriptions' = Append(pendingSubscriptions, s)
  /\ UNCHANGED <<dialed, linkVars, subVars, reqGate, heldReqs, authVars, timerVars,
                 toRelay, toClient, relayVars, unheld>>

\* relayManager.closeSubscription: the connection that tracks it sends CLOSE
\* (or queues it) and drains one deferred subscription into the freed slot.
CloseSubscription(s) ==
  /\ s \in Pending
  /\ pendingSubscriptions' = Without(pendingSubscriptions, s)
  /\ IF s \in Tracked
     THEN LET ord  == Without(subscriptions, s)
              rest == Without(deferredSubs, s)
              held == Without(heldReqs, s)
          IN  /\ subscriptions' = ord
              /\ closedRetries' = [closedRetries EXCEPT ![s] = 0]
              /\ IF socket = "open"
                 THEN /\ deferredSubs' = Suffix(rest, Shifted(rest, ord))
                      /\ SendReqs(held, <<Close(s)>>, Drained(rest, ord))
                      /\ UNCHANGED messageQueue
                 ELSE /\ deferredSubs' = rest
                      /\ messageQueue' = Append(messageQueue, Close(s))
                      /\ heldReqs' = held
                      /\ UNCHANGED toRelay
     ELSE UNCHANGED <<subscriptions, closedRetries, deferredSubs, messageQueue,
                      heldReqs, toRelay>>
  /\ UNCHANGED <<used, dialed, linkVars, maxSubscriptions, reqGate, authVars, timerVars,
                 toClient, relayVars, unheld>>

\* tryAuth: start signing the cached challenge (relayManager.replayAuth, after
\* the signer becomes available).
ReplayAuth ==
  /\ pendingAuthChallenge /\ socket = "open"
  /\ signing' = signing \cup {"current"}
  /\ UNCHANGED <<managerVars, linkVars, subVars, reqGate, heldReqs, everChallenged,
                 pendingAuthChallenge, lastAuthEventId, timerVars, toRelay, toClient,
                 relayVars, unheld>>

\* fetchNip11 resolves: setMaxSubscriptions.
LearnCap ==
  /\ dialed
  /\ maxSubscriptions' = RelayCap
  /\ UNCHANGED <<managerVars, linkVars, subscriptions, deferredSubs, closedRetries,
                 messageQueue, reqGate, heldReqs, authVars, timerVars, toRelay, toClient,
                 relayVars, unheld>>

-----------------------------------------------------------------------------
\* Socket events

\* resubscribe's later batches, in the order their timers fire.
Chunks(q) ==
  [k \in 1 .. ((Len(q) + BatchSize - 1) \div BatchSize) |->
     Prefix(Suffix(q, (k - 1) * BatchSize), BatchSize)]

\* What resubscribe defers; with nothing to resubscribe it leaves the queue be.
Overflow ==
  IF subscriptions = << >> THEN deferredSubs ELSE Suffix(subscriptions, maxSubscriptions)

\* onopen: engage the gate if this relay has ever challenged us, flush the
\* message queue, resubscribe (the first batch at once, the others on timers,
\* the overflow deferred), and only then announce "connected", upon which the
\* manager forwards the pending subscriptions this connection does not track.
\* On the relay's side the connection starts, with its AUTH challenge.
SocketOpen ==
  LET toSend   == Prefix(subscriptions, maxSubscriptions)
      forward  == Keep(pendingSubscriptions, Subs \ Tracked)
      room     == Room(subscriptions, Overflow)
      now      == Prefix(toSend, BatchSize) \o Prefix(forward, room)
  IN  /\ socket = "connecting"
      /\ status' = "connected" /\ socket' = "open"
      /\ reqGate' = IF everChallenged THEN "holding" ELSE "open"
      /\ unheld' = ~everChallenged
      /\ messageQueue' = << >>
      /\ subscriptions' = subscriptions \o forward
      /\ deferredSubs' = Overflow \o Suffix(forward, room)
      /\ batches' = Chunks(Suffix(toSend, BatchSize))
      /\ IF everChallenged
         THEN heldReqs' = now /\ toRelay' = messageQueue
         ELSE heldReqs' = << >> /\ toRelay' = messageQueue \o Reqs(now)
      /\ toClient' = IF SendsChallenge THEN <<Challenge>> ELSE << >>
      /\ relaySubs' = {} /\ authed' = FALSE
      /\ UNCHANGED <<managerVars, reconnectTimer, closedRetries, maxSubscriptions,
                     authVars, staleBatches>>

\* onclose (after onerror, in the same task, when the connection failed): the
\* subscriptions and their deferral survive, the session's AUTH state does not,
\* and the batch timers keep running.
SocketClose ==
  /\ socket # "none"
  /\ status' = "disconnected" /\ socket' = "none" /\ reconnectTimer' = TRUE
  /\ pendingAuthChallenge' = FALSE /\ lastAuthEventId' = "none"
  /\ signing' = IF signing = {} THEN {} ELSE {"old"}
  /\ reqGate' = "open" /\ heldReqs' = << >>
  /\ batches' = << >> /\ staleBatches' = staleBatches \cup Range(batches)
  /\ toRelay' = << >> /\ toClient' = << >> /\ relaySubs' = {} /\ authed' = FALSE
  /\ unheld' = FALSE
  /\ UNCHANGED <<managerVars, subVars, everChallenged>>

\* Mutant of BatchTimer: the batch is sent as it was when the timer was set.
BatchTimer_Unchecked ==
  /\ batches # << >>
  /\ batches' = Tail(batches)
  /\ SendReqs(heldReqs, << >>, Head(batches))
  /\ UNCHANGED <<managerVars, linkVars, subVars, reqGate, authVars, staleBatches,
                 toClient, relayVars, unheld>>

\* A batch timer of this socket fires.
BatchTimer ==
  /\ batches # << >>
  /\ batches' = Tail(batches)
  /\ SendReqs(heldReqs, << >>, Keep(Head(batches), Tracked))
  /\ UNCHANGED <<managerVars, linkVars, subVars, reqGate, authVars, staleBatches,
                 toClient, relayVars, unheld>>

\* A batch timer set for an earlier socket fires: it only checks that some
\* socket is open now.
StaleBatchTimer ==
  \E b \in staleBatches :
    /\ staleBatches' = staleBatches \ {b}
    /\ SendReqs(heldReqs, << >>, Keep(b, Tracked))
    /\ UNCHANGED <<managerVars, linkVars, subVars, reqGate, authVars, batches,
                   toClient, relayVars, unheld>>

\* Mutant of ReleaseReqGate: the hold queue is cleared before it is copied.
ReleaseReqGate_Lost ==
  /\ reqGate' = "open"
  /\ heldReqs' = << >>
  /\ UNCHANGED toRelay

\* releaseReqGate.
ReleaseReqGate ==
  /\ reqGate' = "open"
  /\ heldReqs' = << >>
  /\ toRelay' = toRelay \o Reqs(Keep(heldReqs, Tracked))

\* Mutant of AuthWedgeTimer: there is no wedge timer.
AuthWedgeTimer_Never == FALSE /\ UNCHANGED vars

\* The AUTH_WEDGE_MS timer, armed exactly while the gate is engaged.
AuthWedgeTimer ==
  /\ reqGate = "holding"
  /\ ReleaseReqGate
  /\ unheld' = TRUE
  /\ UNCHANGED <<managerVars, linkVars, subVars, authVars, timerVars, toClient, relayVars>>

\* onAuth resolves with a signed event: sent only if the challenge it answers
\* is still the cached one.
SignDone(c) ==
  /\ c \in signing
  /\ signing' = signing \ {c}
  /\ IF socket = "open" /\ pendingAuthChallenge /\ c = "current"
     THEN /\ toRelay' = Append(toRelay, Auth(c))
          /\ pendingAuthChallenge' = FALSE
          /\ lastAuthEventId' = c
     ELSE UNCHANGED <<toRelay, pendingAuthChallenge, lastAuthEventId>>
  /\ UNCHANGED <<managerVars, linkVars, subVars, reqGate, heldReqs, everChallenged,
                 timerVars, toClient, relayVars, unheld>>

\* onAuth resolves with null (no signer yet, AUTH suppressed) or rejects.
SignDeclined(c) ==
  /\ c \in signing
  /\ signing' = signing \ {c}
  /\ UNCHANGED <<managerVars, linkVars, subVars, reqGate, heldReqs, everChallenged,
                 pendingAuthChallenge, lastAuthEventId, timerVars, toRelay, toClient,
                 relayVars, unheld>>

-----------------------------------------------------------------------------
\* handleMessage

Receive(m) == toClient # << >> /\ Head(toClient) = m /\ toClient' = Tail(toClient)

ReceiveEose(s) ==
  /\ Receive(Eose(s))
  /\ closedRetries' = [closedRetries EXCEPT ![s] = 0]
  /\ UNCHANGED <<managerVars, linkVars, subscriptions, deferredSubs, maxSubscriptions,
                 messageQueue, reqGate, heldReqs, authVars, timerVars, toRelay,
                 relayVars, unheld>>

\* Mutant of ReceiveTooMany: drain on CLOSED, sending the subscription again.
ReceiveTooMany_Resend(s) ==
  /\ Receive(Closed(s, "too many subscriptions"))
  /\ s \in Tracked
  /\ SendReqs(heldReqs, << >>, <<s>>)
  /\ UNCHANGED <<managerVars, linkVars, subVars, reqGate, authVars, timerVars, relayVars,
                 unheld>>

\* Mutant of ReceiveTooMany: one retry more than MAX_CLOSED_RETRIES is counted.
ReceiveTooMany_OffByOne(s) ==
  /\ Receive(Closed(s, "too many subscriptions"))
  /\ s \in Tracked /\ closedRetries[s] <= MaxClosedRetries
  /\ closedRetries' = [closedRetries EXCEPT ![s] = @ + 1]
  /\ deferredSubs' = IF s \in Deferred THEN deferredSubs ELSE Append(deferredSubs, s)
  /\ UNCHANGED <<managerVars, linkVars, subscriptions, maxSubscriptions, messageQueue,
                 reqGate, heldReqs, authVars, timerVars, toRelay, relayVars, unheld>>

\* CLOSED "too many subscriptions", with retries left: back to the deferred queue.
ReceiveTooMany(s) ==
  /\ Receive(Closed(s, "too many subscriptions"))
  /\ s \in Tracked /\ closedRetries[s] < MaxClosedRetries
  /\ closedRetries' = [closedRetries EXCEPT ![s] = @ + 1]
  /\ deferredSubs' = IF s \in Deferred THEN deferredSubs ELSE Append(deferredSubs, s)
  /\ UNCHANGED <<managerVars, linkVars, subscriptions, maxSubscriptions, messageQueue,
                 reqGate, heldReqs, authVars, timerVars, toRelay, relayVars, unheld>>

\* Any other CLOSED: the subscription is forgotten by the connection (not by
\* the manager), and nothing is drained into its slot.
ReceiveClosed(s, r) ==
  /\ Receive(Closed(s, r))
  /\ ~ (/\ r = "too many subscriptions" /\ s \in Tracked
        /\ closedRetries[s] < MaxClosedRetries)
  /\ subscriptions' = Without(subscriptions, s)
  /\ closedRetries' = [closedRetries EXCEPT ![s] = 0]
  /\ UNCHANGED <<managerVars, linkVars, deferredSubs, maxSubscriptions, messageQueue,
                 reqGate, heldReqs, authVars, timerVars, toRelay, relayVars, unheld>>

\* Mutant of ReceiveOk: any OK of our AUTH event releases the gate.
ReceiveOk_AnyVerdict(c, success) ==
  /\ Receive(Ok(c, success))
  /\ lastAuthEventId' = IF c = lastAuthEventId THEN "none" ELSE lastAuthEventId
  /\ IF c = lastAuthEventId /\ reqGate = "holding"
     THEN ReleaseReqGate
     ELSE UNCHANGED <<reqGate, heldReqs, toRelay>>
  /\ UNCHANGED <<managerVars, linkVars, subVars, everChallenged, pendingAuthChallenge,
                 signing, timerVars, relayVars, unheld>>

\* The OK of our AUTH event releases the gate; a refusal leaves it engaged.
ReceiveOk(c, success) ==
  /\ Receive(Ok(c, success))
  /\ lastAuthEventId' = IF c = lastAuthEventId THEN "none" ELSE lastAuthEventId
  /\ IF c = lastAuthEventId /\ success /\ reqGate = "holding"
     THEN ReleaseReqGate
     ELSE UNCHANGED <<reqGate, heldReqs, toRelay>>
  /\ UNCHANGED <<managerVars, linkVars, subVars, everChallenged, pendingAuthChallenge,
                 signing, timerVars, relayVars, unheld>>

\* A NIP-42 challenge: cached, and answered if it can be.
ReceiveChallenge ==
  /\ Receive(Challenge)
  /\ everChallenged' = TRUE
  /\ pendingAuthChallenge' = TRUE
  /\ signing' = signing \cup {"current"}
  /\ UNCHANGED <<managerVars, linkVars, subVars, reqGate, heldReqs, lastAuthEventId,
                 timerVars, toRelay, relayVars, unheld>>

-----------------------------------------------------------------------------
\* The relay's end of the connection: one task, one message at a time

Take(m) == toRelay # << >> /\ Head(toRelay) = m /\ toRelay' = Tail(toRelay)
Answer(m) == toClient' = Append(toClient, m)

clientVars == <<managerVars, linkVars, subVars, reqGate, heldReqs, authVars, timerVars, unheld>>

\* handle_req: an anonymous REQ for a private group is refused, then the
\* per-connection cap is enforced; re-using an id replaces its filters.
RelayReq(s) ==
  /\ Take(Req(s))
  /\ \/ /\ s \in Protected /\ ~authed
        /\ Answer(Closed(s, "auth-required"))
        /\ UNCHANGED relaySubs
     \/ /\ s \notin Protected \/ authed
        /\ s \notin relaySubs /\ Cardinality(relaySubs) >= RelayCap
        /\ Answer(Closed(s, "too many subscriptions"))
        /\ UNCHANGED relaySubs
     \/ /\ s \notin Protected \/ authed
        /\ s \in relaySubs \/ Cardinality(relaySubs) < RelayCap
        /\ relaySubs' = relaySubs \cup {s}
        /\ Answer(Eose(s))
  /\ UNCHANGED <<clientVars, authed>>

\* handle_close.
RelayClose(s) ==
  /\ Take(Close(s))
  /\ relaySubs' = relaySubs \ {s}
  /\ Answer(Closed(s, ""))
  /\ UNCHANGED <<clientVars, authed>>

\* handle_auth: an event for another challenge fails, and one for ours may
\* (relay URL, clock).
RelayAuth(c) ==
  /\ Take(Auth(c))
  /\ \E success \in BOOLEAN :
       /\ success => c = "current"
       /\ authed' = (authed \/ success)
       /\ Answer(Ok(c, success))
  /\ UNCHANGED <<clientVars, relaySubs>>

\* A relay that cancels a subscription on its own account.
RelayCancels(s) ==
  /\ CancelsSubs /\ s \in relaySubs
  /\ relaySubs' = relaySubs \ {s}
  /\ Answer(Closed(s, "cancelled"))
  /\ UNCHANGED <<clientVars, toRelay, authed>>

-----------------------------------------------------------------------------
Init ==
  /\ used = {} /\ pendingSubscriptions = << >> /\ dialed = FALSE
  /\ status = "disconnected" /\ socket = "none" /\ reconnectTimer = FALSE
  /\ subscriptions = << >> /\ deferredSubs = << >> /\ heldReqs = << >>
  /\ closedRetries = [s \in Subs |-> 0]
  /\ maxSubscriptions = DefaultCap
  /\ messageQueue = << >>
  /\ reqGate = "open" /\ everChallenged = FALSE
  /\ pendingAuthChallenge = FALSE /\ lastAuthEventId = "none" /\ signing = {}
  /\ batches = << >> /\ staleBatches = {}
  /\ toRelay = << >> /\ toClient = << >> /\ relaySubs = {} /\ authed = FALSE
  /\ unheld = FALSE

Call ==
  \/ Connect \/ Disconnect \/ ReplayAuth \/ LearnCap
  \/ \E s \in Subs : Subscribe(s) \/ SubscribeLater(s) \/ CloseSubscription(s)

Timer == ReconnectTimer \/ ConnectThrows \/ BatchTimer \/ StaleBatchTimer \/ AuthWedgeTimer

Signer == \E c \in {"current", "old"} : SignDone(c) \/ SignDeclined(c)

ReceiveMessage ==
  \/ \E s \in Subs : ReceiveEose(s) \/ ReceiveTooMany(s)
  \/ \E s \in Subs, r \in Reasons : ReceiveClosed(s, r)
  \/ \E c \in {"current", "old"}, b \in BOOLEAN : ReceiveOk(c, b)
  \/ ReceiveChallenge

RelayStep ==
  \/ \E s \in Subs : RelayReq(s) \/ RelayClose(s)
  \/ \E c \in {"current", "old"} : RelayAuth(c)

Next ==
  \/ Call \/ Timer \/ Signer
  \/ SocketOpen \/ SocketClose \/ ReceiveMessage
  \/ RelayStep \/ \E s \in Subs : RelayCancels(s)

Spec == Init /\ [][Next]_vars

\* Armed timers fire, the thread handles every message that arrives, and the
\* relay answers every message it gets while the socket lives.
Fairness ==
  /\ WF_vars(ReceiveMessage) /\ WF_vars(RelayStep)
  /\ WF_vars(BatchTimer) /\ WF_vars(AuthWedgeTimer)

LiveSpec == Spec /\ Fairness

-----------------------------------------------------------------------------
\* Every variable stays within its type; in particular a socket is open exactly
\* when the status says "connected", only a connection the manager holds has a
\* socket or a reconnect pending, and the gate is only engaged on an open socket.
TypeOK ==
  /\ used \in SUBSET Subs /\ pendingSubscriptions \in Seq(Subs) /\ dialed \in BOOLEAN
  /\ status \in {"disconnected", "connecting", "connected", "error"}
  /\ socket \in {"none", "connecting", "open"} /\ reconnectTimer \in BOOLEAN
  /\ socket = "open" <=> status = "connected"
  /\ socket # "none" \/ reconnectTimer => dialed
  /\ subscriptions \in Seq(Subs) /\ deferredSubs \in Seq(Subs) /\ heldReqs \in Seq(Subs)
  /\ closedRetries \in [Subs -> 0 .. MaxClosedRetries]
  /\ maxSubscriptions \in {DefaultCap, RelayCap}
  /\ messageQueue \in Seq([type : {"CLOSE"}, sub : Subs])
  /\ reqGate \in {"open", "holding"} /\ (reqGate = "holding" => socket = "open")
  /\ everChallenged \in BOOLEAN /\ pendingAuthChallenge \in BOOLEAN
  /\ lastAuthEventId \in {"none", "current", "old"}
  /\ signing \in SUBSET {"current", "old"}
  /\ batches \in Seq(Seq(Subs)) /\ staleBatches \in SUBSET Seq(Subs)
  /\ toRelay \in Seq(ClientMessages) /\ toClient \in Seq(RelayMessages)
  /\ relaySubs \in SUBSET Subs /\ authed \in BOOLEAN /\ unheld \in BOOLEAN

\* What can happen to a tracked subscription on an open socket: it waits in one
\* of the client's queues, its REQ is on the way, the relay serves it, or a
\* CLOSED that settles it is on the way back.
Accounted(s) ==
  \/ s \in Deferred \/ s \in Held
  \/ \E b \in Range(batches) : s \in Range(b)
  \/ Req(s) \in Range(toRelay)
  \/ s \in relaySubs
  \/ \E r \in Reasons : Closed(s, r) \in Range(toClient)

\* No subscription the connection tracks is silently lost while the socket is
\* open, whatever the order of calls, reconnects, timers and CLOSEDs
\* (relayConnection.test.ts:434, "either on the wire or in the deferred queue").
NoneForgotten == socket = "open" => \A s \in Tracked : Accounted(s)

\* The relay never serves a subscription the client has let go of, unless the
\* message that will tell one side about it is on the way (closeSubscription
\* and the has() checks of releaseReqGate and the batch timers).
NoZombies ==
  \A s \in relaySubs \ Tracked :
    \/ Close(s) \in Range(toRelay)
    \/ \E r \in Reasons : Closed(s, r) \in Range(toClient)

\* With the client's cap in step with the relay's, the relay never has to
\* refuse a REQ for its cap: what is deferred, held, staggered or in flight is
\* always counted (activeSent, relayConnection.ts:306).
NeverOverflows ==
  \A s \in Subs : Closed(s, "too many subscriptions") \notin Range(toClient)

\* On a relay known to ask for AUTH, no REQ for a private group is answered
\* "auth-required", unless the wedge timer had to open the gate first
\* (the REQ-AUTH cold-start race, relayConnection.ts:86).
NoColdStartRace ==
  ~unheld => \A s \in Subs : Closed(s, "auth-required") \notin Range(toClient)

\* On a socket that stays open, every tracked subscription that is not deferred
\* reaches the relay, is refused by it, or is closed: neither the AUTH hold (the
\* wedge timer, relayConnection.ts:38) nor the staggered batches strand it.
EventuallyServed ==
  <>[](socket = "open") =>
    \A s \in Subs : [](s \in Tracked =>
      <>(s \in relaySubs \/ s \in Deferred \/ s \notin Tracked))

\* A relay at its cap is not flooded with retries: on a socket that stays open,
\* once the application has no more ids to open or close, the wire falls silent
\* (a CLOSED re-defers a bounded number of times and drains nothing,
\* relayConnection.ts:416-422).
WireQuiesces ==
  <>[](socket = "open") => <>[](toRelay = << >> /\ toClient = << >>)
=============================================================================
