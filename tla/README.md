# TheWired: specifications, model checks and proofs

TheWired is a Nostr client (web and desktop, TypeScript) with its own relay
(Rust), a backend API (TypeScript) and a gateway (Go). This directory holds
TLA+ modules of the parts where order matters: the client's connection to a
relay, its subscriptions, its outbox, its event pipeline, its accounts with their
direct messages, and its calls; on the relay's side the event store, the delivery
of events to subscribers and the state of NIP-29 groups. TLC checks them on
small instances; TLAPS proves every one of their safety properties for every instance.

    tlc -config RelayConnection_cap.cfg MCRelayConnection     # one run
    tlapm RelayConnectionProofs.tla                           # one module's proofs

`PROJECT.json` lists the components, the runs, the source lines behind every
definition (`map`), the hazards of the code and the properties that watch them,
a mutation of the model for every property, and the theorems.

## 1. Inventory

The client is one JavaScript thread: an API call, a socket event, a timer or the
continuation of an `await` runs to its end. The relay is a tokio program: one
task per WebSocket, which interleaves with the others at every `.await`, that
is, at every SQL statement. SQLite gives it one connection and transactions,
Postgres a pool, mostly without transactions.

| Component | State | Operations | Hard behaviour | What makes it correct |
|---|---|---|---|---|
| **Relay connection** `relayConnection.ts` | socket and status, `subscriptions`, `deferredSubs`, `heldReqs`, cap, AUTH challenge and gate, timers | connect, disconnect, subscribe, closeSubscription, reconnect, resubscribe in batches, AUTH, CLOSED with retry, NIP-11 cap | timers outliving their socket; the cap learnt late; challenges answered after a reconnect | no subscription lost, none leaked at the relay, the cap kept, every one served in the end |
| **Subscription manager** `subscriptionManager.ts`, `relayManager.ts` | subscriptions with a quorum and the EOSEs seen, callbacks and pending subscriptions of the relay manager | subscribe, subscribeOnce, close, EOSE, timeout, late connection, logout | backstop timer, microtask, EOSE and close race; two layers with ids of their own | onEOSE honest, once, never after close, always in the end; close releases everything |
| **Relay event store** `event_store.rs`, `sqlite.rs`, `moderation.rs` | the events table with its unique indexes | store (DELETE older, INSERT), delete by kind:5 | two stores of one address at once; crash between statements; equal timestamps | one version per address; the newest one accepted survives; replacement looks atomic |
| **Relay delivery** `connection.rs`, `handler.rs`, `subscription.rs` | per connection: identity, membership cache, broadcast receiver, subscriptions | EVENT, REQ, CLOSE, AUTH, broadcast, refresh of the cache | a REQ is history first, registration second; bounded channel; stale cache; failed queries | no event between history and live; a kicked user cut off, a joined one served, within the cache's TTL |
| **NIP-29 group state** `nip29/*.rs`, `group_store.rs` | group, members, roles, the published 39000/39001/39002 | join, leave, put, remove, edit, create, delete; republication | several statements each, no transaction, one-second timestamps | what is published is the group; an admin is a member; nothing dropped |
| Relay manager registry `relayManager.ts` | connections, user's relay list, disabled relays | connect, disconnect, reconcileUserRelays, publish | status callbacks of removed connections | registry, list and Redux record agree |
| **Publish path and outbox** `publish.ts`, `publishOutbox.ts` | pending set, durable rows, message queues, OK callbacks | record, handleOK, replay, publishWithConfirmation | crash, duplicate and late OKs, two publishes of one event, EVENTs before AUTH | every signed event reaches a relay or stays in the outbox |
| Signing queue `signingQueue.ts` | queue, running flag | enqueue, drain with timeout | an operation that outlives its timeout | one signer operation at a time |
| Verification bridge `verifyWorkerBridge.ts` | pending table, timers, restart history | verify, timeout, restart, fallback, drain | restart with work in flight; isolated and consecutive timeouts | every verification settles once; never unverified |
| **Event pipeline** `eventPipeline.ts`, `eventsSlice.ts`, `musicSlice.ts` | deduplicator, verifications under way, buffer, entities and feeds, pending deletions | receive, verify, apply, flush, sweep, forget, load a space, restart | a deletion before its target; the buffer behind the store; caps that forget; private tracks decrypted late | what was deleted stays deleted; nobody else deletes; nothing is swallowed by the deduplicator |
| **Accounts and their messages** `loginFlow.ts`, `dmPersistence.ts`, `decryptQueue.ts` | identity, signer, storage prefix, session, DM store and its save timer, wrap queue | log in, switch, add and remove an account, log out, restart; receive, queue and decrypt a wrap | identity read before an await and used after it; a save timer over a switch; a switch that fails half-way | nothing saved is lost; nothing of one account reaches another |
| Group subscriptions, profile cache | batches, caches | subscribe per space, fetch profiles | batch timers, quorum of a batch | every request is answered |
| Friend requests, kicks | records per partner | request, accept, remove, kick | duplicated and reordered wraps | both sides agree in the end |
| **Calls** `callService.ts`, `callSlice.ts`, `livekitClient.ts` | active call, invite, peer connection, media, room, timers, suspended functions | initiate, answer, decline, signals, ICE changes, fallback and upgrade to LiveKit, hang up | check, await, use; both sides hang up; a timer or a connection of the call before | one call's timers and continuations never end another; media released |
| AI write gate `approveWrite.ts` | pending writes with a status | approve, cancel, reload | reload while publishing | a draft is published at most once, and only when approved |
| Backend `services/backend` | SQL tables, queues | invites, roles, onboarding, ingest, workers | check and increment in separate statements | limits and permissions hold |
| Gateway `services/gateway` | replay keys, token buckets | authenticate, limit, proxy | Redis unavailable | one use per signed request |
| Desktop shell, landing site, packages, UI, caches, wallet | | | platform I/O, presentation, pure functions | |

How they interact. A feature calls `subscriptionManager.subscribe`, which calls
`relayManager.subscribe`, which calls `RelayConnection.subscribe` of every target
and remembers the subscription for relays that connect later; EOSE comes back
along callbacks of the same layers. On the relay, a task handles `EVENT` by
checking, storing, and sending on a broadcast channel that every connection's
task receives from; `REQ` queries the same table and then registers its filters
with the task's own subscription table. Group management events change group
tables, then build, sign, store and broadcast the group's addressable events.

In the client, a relay's EVENT goes through the pipeline (deduplicate, verify, apply,
buffer); gift wraps leave it for the decryption queue, which feeds messages, call
invites and friend requests to their stores. What the user publishes is sent, recorded
in the outbox and fed to the same pipeline. A switch of the account tears all of
this down and builds it again, one await at a time.

The rows in bold are modelled. The others are listed in `PROJECT.json` with
the reason, and most of them are in the plan (section 7).

## 2. Modules

| Module | What it is |
|---|---|
| `ListOps` | filtering an insertion-ordered list (`Map.delete`, `Array.filter`), written without recursion |
| `RelayConnection` | one connection of the client, the relay manager in front of it, the wire, and the relay's REQ/CLOSE/AUTH behind it |
| `SubscriptionManager` | the subscription manager and the relay manager over several connections, each reduced to up or down |
| `LatestStore` | abstract: a store that replaces versions of an address atomically and never by an older one |
| `EventStore` | the relay's store, statement by statement, with `Transactional` for the backend; `Latest` maps it to `LatestStore` |
| `RelayDelivery` | extends `EventStore` with subscribers: history, broadcast, membership cache |
| `GroupMetadata` | one NIP-29 group and the events that publish it |
| `EventPipeline` | the client's event pipeline with the store it writes: events and the two kinds of deletion |
| `Session` | accounts, their login and switch, their saved messages, and the wraps decrypted meanwhile |
| `CallService` | one client's calls, with every function suspended at its awaits |
| `PublishOutbox` | publishing over several connections, the outbox table and its replays |
| `RelayConnectionProofs`, `SubscriptionManagerProofs`, `RelayDeliveryProofs` (of `EventStore` too), `GroupMetadataProofs`, `EventPipelineProofs`, `SessionProofs`, `CallServiceProofs`, `PublishOutboxProofs` | theorems |
| `MC*` | model values for the runs |

### RelayConnection
State: the fields of the class under their own names (`subscriptions`,
`deferredSubs`, `heldReqs`, `maxSubscriptions`, `closedRetries`, `reqGate`, ...),
of the manager what decides about one relay (`used`, `pendingSubscriptions`,
`dialed`), and the wire as two queues. The remaining timers are data: `batches`
are resubscribe batches not yet sent on this socket, `staleBatches` those whose
timer outlived its socket (the code does not cancel them), `signing` the AUTH
signatures under way, for this socket's challenge or an older one. Actions: one
per API call (`Connect`, `Disconnect`, `Subscribe`, `CloseSubscription`,
`ReplayAuth`, `LearnCap`), per timer (`ReconnectTimer`, `BatchTimer`,
`StaleBatchTimer`, `AuthWedgeTimer`), per socket event (`SocketOpen`,
`SocketClose`, `ConnectThrows`), per message type (`Receive...`), and per message
the relay handles. The relay is this repository's own, or with `CancelsSubs` one
that also closes subscriptions of its own accord. Time is left open: an armed
timer may fire at any moment, so every delay and backoff is covered.

### SubscriptionManager
An id stands for one call of `subscribe`; `SubId(id)` is the different id the
relay manager gives it, and the model keeps the two apart exactly where the code
does. `Subscribe` chooses the URLs and whether indexers may carry it. A relay
dials, opens, loses its socket, refuses (CLOSED) and sends EOSE in any order.
`reasons` is a history of the onEOSE calls, `answered` of the relays heard from.

### EventStore and LatestStore
A connection works on one event at a time; `step` says which statement comes
next. With `Transactional` (SQLite) the DELETE and the INSERT of `store_event` are
one step, `StoreTransaction`; without it (Postgres) they are `DeleteOlder` and
`Insert`, and other connections, and `Restart`, fall between them. A kind:5 first
erases what its tags name, tag by tag, then is stored itself. An address stands
for (kind, author) or (kind, author, d tag). The code keeps no record of deletions:
an event that arrives after the kind:5 that names it is stored, in the model too.
`LatestStore` says what readers may rely on: `Put` replaces a version by a newer
one and by nothing else, and `Delete` needs a deletion of the author that names the
event, or its address up to the deletion's time, and that is being handled.

### RelayDelivery
A connection's task either handles a message or receives from its broadcast
channel, never both: `Free`. A REQ is `Req`, then one `Query` per filter, then
`Register`, which sends what was found and makes the subscription live; events
stored meanwhile wait in `inbox`, which keeps the last `Capacity` and drops the oldest.
`Query`, `Auth` and `Deliver` may fail (`ok = FALSE`) where the code turns an error
into an empty result. `cache` is the membership cache for the one group, `age`
its age in ticks up to `TTL`. `received` and `skipped` are histories.

### GroupMetadata
`step` says what a connection does next: change, (for a removal) the roles,
(for a creation) the flags, then for each of the three kinds read, replace,
delete older and insert. `now` is the clock of `created_at`, in seconds; two
republications in one second are the case the code deletes first for. The
model follows Postgres: on SQLite some of these steps are one, so every
behaviour of SQLite is one of these. `alone`, `fresh` and `interrupted` are histories
that state when a property may be expected.

### EventPipeline
`Deliver` is `processIncomingEvent` up to its await of the verification. The continuation is
one of five actions, by what the code finds: `Unverified`; `DropDeleted`, where a pending
deletion of the author waits; `Show`, a note, a message or a track into the view (a record of the
store's parts) and the buffer; `Delete`, which flushes the buffer before it looks for its
targets; and `Defer`, a moderator's deletion whose space is not known. A `moment` says whether the
buffer then waits, is flushed, or is flushed and swept. A private track is shown
after its decryption (`Decrypted`). Of a deletion's targets, those unknown before the
loop over its tags begins are added to the pending table, the oldest entry leaving it when it is full.
What a deletion removes leaves the store, but not every index: `stay` are the ids that indices other than
the one named go on listing (replies, quotes, a space's feed, the default channel).
`Sweep` is the soft cap of the store, `Forget` that of the deduplicator, `LoadSpace` what a
space brings when it becomes known, `Expire` the eviction of a deletion's row after seven days. `Restart`
empties the memory and reads deletions back: `read` is any subset of the rows there are, because the code
reads the first 500 of a table that holds the deletions of everybody (loginFlow.ts:886); as many of
their targets wait as the cap of the pending table leaves, in any order. `applied` (since the start, or read
back at it) and `forgotten` are histories.

### Session
A `flow` is one call of `performLogin`, `switchAccount` or `performLogout`; its actions are
the stretches between its awaits, each of which may fail where the code catches. `LoginThrows` is an await
after the identity is set that nobody catches: the account is shown with what was done so far, and `threw`, a
history, says how far that was. `me`
is the account in the store, `key` the prefix of what it reads and saves, `signer` the key that decrypts,
`session` what a restart would come back to; `dm` the messages of the store and `saved` those
of each account in IndexedDB. `handling` is what each worker of the wrap queue runs.
The save timer, the queue with its workers, and the two
decryptions of a handler interleave with all of it. The number of workers is that of one kind of
signer; that it changes when an account with another kind takes over is left out. The loads and saves of the other slices,
done in the same places in the same way, are left out.

### CallService
`active`, `incoming` and the media (`pc`, `open`, `joined`, `currentRoom`) are those of the code, and `tasks` the
functions that wait at an await, with the call they were called for and where they stand. A LiveKit room is an object of its
own, `[room, copy]`: every connect makes one, `joined` are those that are connected, and `currentRoom` names
the last that connected. So two connects at once leave one joined that nobody names, a disconnect clears
the reference whatever it names by then, and a room that drops runs its handler whether it is named or not. The partner sends
invites, declines, hang-ups and signals for any room it knows, at any time, also late and twice; wraps
are told apart by `processed`. A hang-up publishes first and then releases and ends whatever
call there is, as the code does. `astray` and `endedBy` are histories: the calls the code leaves something of
behind (set up during their hang-up, ended otherwise than by it, or with a room that is joined and forgotten), and what
ended each.

### PublishOutbox
A connection is reduced to its EVENT side: absent, dialled or open, with a `messageQueue` for when it
is not open. `db` is the sequence of requests to the database, each of which may be refused and
all of which a restart loses; `getAll` answers and the loop over the rows runs in one task,
`ReplayRows`, where every row is dropped for its age (chosen freely), dropped for a later version
in the event store (`known`), or sent and awaited again. A later version `Appears` in that store whether or not
it was published: `signAndSaveLocally` puts one there that never is. A relay stores (`Accept`) or refuses
(`Refuse`) what is on the wire, and answers what it has stored with an OK (`HandleOK`), unless
the socket closes before. `recorded`, `saved`, `lapsed` and
`appeared` are histories.

## 3. Runs

| Run | Shows | Bounds |
|---|---|---|
| `connection_cap` | `NoZombies`, `NeverOverflows` | 3 subscriptions over a cap of 2, batches of 1, no AUTH |
| `connection_auth` | `TypeOK`, `NoneForgotten`, `NoColdStartRace`, and under fairness `EventuallyServed`, `WireQuiesces` | 2 subscriptions, one for a private group, batches of 1; cap learnt as 1 after 2 was assumed; a relay that cancels subscriptions of its own accord; one batch timer that outlived its socket and one signature at a time |
| `subscription_eose` | `TypeOK`, `EoseAtMostOnce`, `HonestAllEose`, `SilentAfterClose`, `EoseEventually` | 2 subscriptions, one of them one-shot; a relay and an indexer |
| `store_sqlite` | `EventsTypeOK`, `NewestKept`, `OneVersion`, `ImplementsLatest` | 2 connections; 4 versions of one event at 3 times (two equal), a note, a deletion of both by id and address |
| `store_postgres` | violates `SupersededByNewer` (finding 1) | the same on Postgres |
| `delivery` | `TypeOK`, `NoGap`, `KickedIsCutOff`, `JoinedIsServed` | a publisher and a subscriber, 2 users, a group message and an unlisted track, 2 subscription ids with a cap of 1, a channel of 1, a TTL of 1 tick |
| `group_metadata` | `TypeOK`, `PublishedIsGroup`, `AdminsAreMembers` | 2 connections, 2 users, 1 name, 2 seconds, any number of restarts |
| `event_pipeline` | `TypeOK`, `DeletedStaysDeleted`, `NoCensorship`, `SeenIsAccounted` | a note, a group message, a public and a private track, their author's deletion of all four, a forged one, a moderator's, rows that expire; caps of 2, one verification at a time |
| `session` | `TypeOK`, `KnownBeforeAsked`, `NoneSwallowed`, `OnlyLateStray`, `SessionMatches`, `HistoryKept` | 2 accounts, 2 wraps for one and 1 for the other, 1 worker, a queue of 1 |
| `session_removed` | violates `RemovedIsGone` (finding 2) | the same with fewer wraps |
| `calls` | `TypeOK`, `HeldByCall`, `EndedByOwn` | 2 calls out of 3 (two placed, one received), 2 LiveKit rooms of each at a time, 2 suspended functions, 2 wraps |
| `outbox` | `TypeOK`, `Durable`, `InFlightTracked`, and under fairness `ReplaysGoOn` | 2 relays; a profile for all of them, a later version for one |

Why the bounds suffice. Two actors on one resource are what each race in this
code takes: two stores of an address, a publisher and a subscriber, two
management events, a timer and a call. A cap of 2 with 3 subscriptions has room,
is full, and overflows; a batch size of 1, in both runs of the connection, makes every reconnection staggered,
with a timer pending between any two REQs; `MaxClosedRetries = 1` reaches the limit. A channel of one event
lags as soon as two events are stored while a REQ is handled, which is what
4096 events do in the code. A TTL of one tick tells fresh from stale, and
the clock of two seconds gives equal and newer timestamps. Nothing else is
cut off: reconnects, restarts, failures and membership changes are unlimited, and
the queues need no constraint because each subscription id is created once.

Four constraints cut something. `event_pipeline` does not mix the note and the moderator's
deletion with the tracks, nor the message with the private one (`Apart`): they share nothing but the buffer,
which a message and a public track fill as well. A row expires there while nothing is under way
(`ExpiresAtRest`): what it changes is seen at the restart, which drops what is under way.
One event is verified at a time: another may be delivered, applied
and forgotten in between only after it, but the decryption of a private track does overlap with
every other event. `connection_auth` lets one batch timer at a time outlive its socket, and one signature be
under way (`OneStale`): `connection_cap` and the theorems about the safety
properties have no such bound, but the two liveness properties are checked on behaviours within it only.
`calls` lets two calls of the three take place, because
every hazard here is the call before meeting the call after, and two
functions wait at once: the hang-up of one and the set-up or the fallback of the other, or two connects
(`Bounded`, which also counts wraps and functions together, up to three). Two rooms of a call are the one
forgotten and the one named.
In `session` one flow runs at a time, which is the overlay of the application and not a bound.
In `outbox` two relays are what tells a first OK from the others and a reconnect of one from a replay
to the other; two events of which one supersedes the other fill the queue of requests in every
order; the profile goes to whoever is open and its successor waits for its relay.

Symmetry: subscription ids in `connection_cap` and `delivery`, connections and
users in the group runs, the copies of a room in `calls`; no liveness run uses it, and no `CHOOSE` picks among symmetric
values there. Deadlock is checked in every run but `calls`, where all calls may be over.

What the properties are about, beyond their comments in the modules:

- `NoZombies` and `NeverOverflows` are checked where the relay refuses nothing but
  REQs over its cap. The timers of `resubscribe` are not cancelled when their socket
  closes, so a batch may be sent again on the next socket (`StaleBatchTimer`); when
  the relay refuses or cancels the first copy, the client forgets a subscription
  that the second copy then opens. With `SendsChallenge` and a protected subscription
  TLC finds both properties violated that way, so they are claimed, and proved, without it only
  (`InStep`, section 6).
- `NoColdStartRace` leaves out sockets on which a REQ was sent unheld: the first
  connection to a relay, and one whose wedge timer opened the gate.
- `NoGap` says that a stored event matching a live subscription was sent, or left
  out for a reason the model names (not visible to the user, dropped by the
  bounded channel, a failed query), or is on its way. It does not say that lag is harmless.
- `KickedIsCutOff` and `JoinedIsServed` hold "unless the last load of the
  memberships failed": the code keeps the old cache then, and says so.
- `AdminsAreMembers` excepts a removal cut in two by a restart, and
  `PublishedIsGroup` an operation that overlapped another: the code has no
  transaction there, and the exceptions are the exact extent of that.
- `DeletedStaysDeleted` speaks of the deletions the client knows, applied since the start or read back at it. One that
  a restart does not read back, because its row is not among the first 500 or was evicted after seven days, is
  not known any more, and what it named may be shown until it is delivered again. The property also excepts a
  deletion that waited for its target and was pushed out of the capped table, and private tracks:
  the check is made before the decryption and not after it, so a deletion that comes meanwhile finds nothing, and the
  track appears after it.
- `OnlyLateStray` is the exact extent of what the code allows: a message whose *last* decryption was under
  way when the account changed is put into the new account's messages. The queue's comment
  says that handlers guard themselves; they do so between the two decryptions only.
- `HeldByCall` excepts calls hung up during their set-up: neither the caller nor the callee
  looks at the call again after `getUserMedia`, so a call that is hung up while the permission is
  asked for opens camera and microphone afterwards (callService.ts:368). It also excepts an
  upgrade to LiveKit whose microphone fails, which leaves the room joined (callService.ts:551), a room whose
  disconnect is under way, and a call one of whose rooms was forgotten: of two connects at once the later
  overwrites `currentRoom` (livekitClient.ts:308), and a disconnect or a drop of one room clears the reference to another.
- `EndedByOwn` excepts a hang-up that was still publishing or leaving when the next call began: its
  continuation ends that one; and a LiveKit room that drops, or fails to connect, while it is on its way in or
  out or belongs to a call astray: the handler ends whatever call is in LiveKit.
- `HistoryKept` excepts the account in use when its login threw between the identity and the loading of its
  messages: the store is empty then, and leaving the account saves it (section 5). `SessionMatches` excepts a login
  that threw before it saved the session.
- `Durable` excepts a row dropped for a later version in the event store, though that version was
  only saved locally and is at no relay (section 5). It speaks of rows that were saved: a crash or a refusal
  before the `put` is done loses the row, which the code calls best effort. It does not say that a saved event is sent
  soon: replays come with a *re*connect and once at the end of the login, so a relay that
  is connected later for the first time gets nothing until something reconnects.
- `InFlightTracked` is what makes the OK of an event of an earlier session clear its row; without it the
  event would be sent again on every reconnect until it is a day old.

## 4. Fairness

`connection_auth`: messages that arrived are handled (the JavaScript event loop),
the relay answers what it received (its task loops on the socket), and armed
timers fire (`setTimeout`). Nothing is assumed of the user, of reconnection or of
the signer; both properties are stated for sockets that stay open, `<>[](socket = "open")`.
`subscription_eose`: the backstop timer and the queued microtask run. No fairness
is assumed of any relay: a relay that never answers is the case of interest.
`outbox`: the database works off its requests, and does not refuse a read that is asked for again and
again (strong fairness of `ReplayRows`). Nothing is assumed of the relays or the sockets:
that a relay reconnects again and again, and that the application is not restarted for ever, are
premises of `ReplaysGoOn`.

## 5. Findings

1. **A newer version is dropped on Postgres** (`store_postgres`). Its DELETE runs
   before an older version is inserted, its INSERT meets that row, and it is
   answered as a duplicate.
2. **A removed account's messages come back** (`session_removed`). Removing the account in use clears its
   data and then switches away from it, and the switch begins by saving the messages of
   the store under the prefix that still is the removed account's.

Other places where the code does not do what is written about it, met while modelling and
excepted by name in a property or left unstated, each with its hazard or here:

- A REQ for a private group refused with `auth-required` on a first connection is deleted and
  not sent again after AUTH, although the relay's comment relies on the client retrying.
- The subscription manager closes under its own id what the relay manager knows under
  another: no CLOSE is sent, and the REQ is repeated on every reconnect (subscriptionManager.ts:119).
- Two republications of a group within one second may both delete the published version; the second INSERT
  meets the first's row and is neither stored nor broadcast.
- `processedWrapIds` of the pipeline is said to survive a reload but is never saved (eventPipeline.ts:1459):
  within the minute an invite is fresh, a restart rings again for a call that was declined.
- Queued EVENTs are flushed before AUTH (relayConnection.ts:145); what a relay refuses for that is
  sent again at the next reconnect only. `disconnect` drops the queue (relayConnection.ts:199).
- A login that throws after it set the identity (loginFlow.ts:577) and before it loaded the account's
  messages (1163) shows the account over an empty store, and no caller takes the identity back. The next switch
  begins with `flushPendingSave` (dmPersistence.ts:77-84, "flush any pending debounced save"), which saves whether or
  not a save is pending: the saved history is overwritten. A login that throws before 1300 shows an account no restart
  comes back to.
- Of two LiveKit connects that overlap one room stays joined, its microphone live, with nobody to leave it
  (livekitClient.ts:57-60, 278, 308), although the fallback says "don't leave an orphaned LiveKit room
  behind" (callService.ts:465-467). Its drop later ends a call that is in another room (livekitClient.ts:243).
- An outbox row of an unacknowledged publish is dropped when the event store holds a later version of the
  address (publishOutbox.ts:73-76, 86-95), also one that was only saved locally (publish.ts:49-70, a track edited to
  be local, EditTrackModal.tsx:109-110). Then no version reaches a relay, although "a relay drop / refresh can't
  silently lose a publish" (publishOutbox.ts:25-29).
- The outbox is one table for all accounts: after a switch, what the account before had not got
  through is published to the relays of the new one.
- A second `publishWithConfirmation` of one event replaces the first one's callback, and
  the first one's timeout deletes the second's (relayManager.ts:528).

## 6. Proofs

Every invariant and every action property that a passing run checks is a theorem, for every value of
the constants under the named assumptions of the modules (finite sets of subscriptions,
positive caps, a value `Nothing` that is not a record, and so on). A theorem with a further hypothesis
says so in an `ASSUME`; there are two: `Transactional`, the SQLite store, and
`InStep`, below. All proofs have the same shape: the invariant holds
initially; one step per action, and under it one per part that the action disturbs; the
last step puts them together with `PTL`.

### RelayConnectionProofs
- `TypeInvariant`: `TypeOK` is inductive once it is known how lists behave under `Keep`, `Without`,
  `Prefix` and `Suffix`; the module begins with those lemmas.
- `NoneForgottenInvariant`: inductive with `TypeOK`. The interesting
  steps move a subscription from one place to the next (deferred to sent,
  held to sent, on the wire to served, refused to deferred); it is
  in the new place before it has left the old one.
- `NoColdStartRaceInvariant`, by `ColdStart`: on an open socket whose REQs were all held and that is not yet
  authenticated, the gate is engaged and no REQ is on the wire; a positive OK is on the wire only after the
  relay has taken the AUTH; a socket that is not open carries nothing.
- `NeverOverflowsInvariant` and `NoZombiesInvariant`, by `CapInv`. Neither property is inductive: the relay
  learns of a REQ or CLOSE only when it takes it off the wire. `Wire` says that after every
  prefix of what is on the wire the relay serves no more than its cap, that in the end it serves only what
  the client counts as sent, and that no REQ follows the CLOSE of its id. `Ledger` is the client's own account: its
  lists repeat nothing, what is tracked and not deferred fits the cap, and a resubscribe batch, even one that outlived
  its socket, holds only what is among the first subscriptions or closed for good. `HeldActive` says that a held
  REQ is counted already. Both theorems assume `InStep`: the client's default cap is within the
  relay's, no subscription is protected, and the relay cancels none of its own accord. It is the
  setting of `connection_cap`; outside it TLC refutes both (section 3).

### SubscriptionManagerProofs
- `TypeInvariant`; `OneEose`, by `FlagInv` (an id is in `eoseFired` as soon as it has a reason); `NoEoseAfterClose`,
  an action property that follows from the types.
- `HonestAllEoseInvariant`, by `HonestInv`: whoever is in the manager's set of EOSEs has answered,
  and the quorum the manager waits for holds every relay the relay manager sent the subscription to.

### RelayDeliveryProofs
Of the store:
- `TypeInvariant`; `OneVersionInvariant` on either backend, since the
  unique index alone keeps it, whatever crosses.
- `NewestKeptInvariant` and `Refinement` for transactional backends. The refinement
  needs `OneVersion` for its mapping: with one version per address, `CurrentIn` is a
  function of the table, and every statement is a `Put`, one `Delete` that a deletion
  under way covers, the beginning or end of a deletion, or a stutter. The part of
  `EventsTypeOK` about the tags left to handle is what shows that a deletion covers
  what it removes. Without `Transactional` the refinement is false: the DELETE of
  `store_event` empties an address that no deletion names.

Of the delivery:
- `DeliveryImplementsStore`: every step of the relay with subscribers is a step of the store or leaves it alone,
  so the store's theorems hold of the whole (`DeliveryKeepsOneVersion`, `DeliveryImplementsLatest`).
- `DeliveryTypeInvariant`, and `NoGapInvariant` on either
  backend. `NoGap` says nothing of a subscription before it is registered, so it is
  not inductive; `Gaps` adds `OpeningNoGap` (while a REQ is handled, what is stored and
  matches a filter already queried was found, was missed, waits in the receiver or is
  about to be broadcast) and `Offline` (a closed connection has nothing open). The
  publishing side enters through one lemma, `StoreKeepsSending`: a row is added only by
  a connection that goes on to broadcast it.
- `KickedIsCutOffAlways` and `JoinedIsServedAlways`, by `CacheInv`: a cache that disagrees with the
  memberships though no load of it failed does so about a change younger than its own age, and
  a connection that is closed has no user. A cache
  as old as the TTL is loaded again before a group's event is sent, so what is sent follows every
  change that is a TTL old.

### GroupMetadataProofs
`TypeInvariant`; `AdminsAreMembersInvariant`, inductive with the types
alone; and `PublishedIsGroupInvariant`, by three strengthenings: `Overlap` (an
operation that is alone is the only one under way, and while the group counts as fresh only
such a one is), `Drafting` (of which kind and when a draft is) and `Progress` (an operation
that is alone has made current every kind it is done with, holds what the relay would say
now of the next, and nothing is stored for it when it inserts).

### EventPipelineProofs
One inductive invariant, `Inv`, from which `TypeInvariant`, `NoCensorshipInvariant`,
`SeenIsAccountedInvariant` and `DeletedStaysDeletedInvariant` follow. Its parts: `Asked`, every pending
request comes from a deletion that was applied and names the target; `Addressed`, the time kept
for a track's address is that of the latest deletion by its author, and a public track in the store is
newer; `Remembered`, a note or message whose author deleted it is hidden, deleted, waited for in the
pending table, or forgotten by its cap; `Absent`, one that is in the store or the buffer is neither waited
for nor deleted; `FeedsKnown`, what an index lists is in the store or was deleted; `Accounted`, what
the deduplicator holds is under way, stored, or has had its effect.
The long part is the loop over a deletion's tags, a recursive function of the position.
Its values for every input are an induction over data, and the library's induction theorems
cannot be instantiated; the proofs take the least position at which the loop would be undefined, or break
what it keeps, and derive a contradiction (`NatLeast`, `LoopExists`).

### SessionProofs
- One inductive invariant, `IInv`, from which `TypeInvariant`,
  `KnownBeforeAskedInvariant`, `SessionMatchesInvariant` and the action property
  `HistoryKeptProperty` follow. Its heart is `Loaded`: outside the stretch between a
  sign-in and the loading, and outside a logout, the prefix is the account's and the store holds at
  least what is saved under it, unless the login threw before it loaded them (`threw`), the one exception of
  `HistoryKept`. So a flush, which overwrites, can otherwise only add. `FlowShape` says at which
  points of a flow saving and the subscriptions are off.
- `OnlyLateStrayInvariant`, by `OwnInv`: what is delivered or queued is addressed to the account subscribed, a
  handler runs under the account its wrap is addressed to, the signer is that of the account in use, and what is
  in the store or saved is its account's, unless its last decryption crossed a change of the account.
- `NoneSwallowedInvariant` follows every wrap the deduplicator holds to its place: with the verification, in the
  queue, with a worker, in the messages, or failed. It needs of `OwnInv` that the deduplicator is empty
  while nobody is subscribed, for that is when the store is emptied.

### CallServiceProofs
`TypeInvariant`, `HeldByCallInvariant` and `EndedByOwnInvariant`, from one inductive invariant over the
calls and the suspended functions. `Waits` lists where each function can wait; `Joining` says that a set-up that
will acquire media belongs to the call there is or to one that went astray, `Crossing` that a hang-up
and a set-up of one call put it astray, `Departing` and `Released` what a hang-up has left and released when it
waits, `Accounted` that a room which is joined is the one referred to, is being left, or is of a call astray,
`Connected` that a call one of whose rooms is joined knows it or is about to.

### PublishOutboxProofs
`TypeInvariant`; `InFlightTrackedInvariant`, inductive with the
types; and `DurableInvariant`, by `DeletesJustified`: every delete that waits in the
database's queue is for an event that a relay stores, that has lapsed or that is
superseded by a version the event store has held, which stays so once it is.

### Only model-checked
What holds under fairness (`EventuallyServed`, `WireQuiesces`,
`EoseEventually`, `ReplaysGoOn`): the prover handles neither liveness under fairness nor `ENABLED`.
Induction over data is out of its reach too, which is why the list
operations are defined by rank and not recursively. The two violation runs refute what they check.

## 7. Plan

The modules that exist, in the order they were written: `RelayConnection`,
`SubscriptionManager`, `EventStore` refining `LatestStore`, `RelayDelivery` on top of
it, `GroupMetadata`, `EventPipeline`, `Session`, `CallService`, `PublishOutbox`. Next:

1. `publishWithConfirmation` and the OK callbacks, with `PublishOutbox` over two accounts.
2. `SigningQueue` (an operation that outlives its timeout) and `VerifyWorkerBridge`.
3. `RelayRegistry`: `reconcileUserRelays`, disabled relays, status callbacks, the
   read and write modes that `SubscriptionManager` leaves out.
4. `FriendRequests` over a reordering network; `ListenTogether`.
5. `InviteRedemption` and `Roles` of the backend, statement by statement;
   `Ingest`; `ApproveWrite`; the gateway's limiter.

As they arrive, runs of a part move into a run of the whole where that asks the same
question: `store_sqlite` into `delivery` on SQLite.

Theorems next, now that each safety property has one: abstract specifications of the other
components and their refinements, as `LatestStore` is for the store (an outbox that is a
set of events not yet stored; a pipeline that is a set of events minus those deleted); and `NoZombies` with protected subscriptions, for batches sent on their own socket only.

## 8. What is left out of the modelled components

- `RelayConnection`: EVENT publishing (in `PublishOutbox`) and the `pendingEOSE` wait; latencies and counters.
- `SubscriptionManager`: read and write modes; the filters.
- `EventStore`: deletion by a group admin (9005) and the hosted-only gate, both
  checks before these steps; the generated columns of music events.
- `RelayDelivery`: COUNT, search, limits of a filter; only which group a filter names is kept.
- `GroupMetadata`: several `p` tags in one event, picture and about, the check of a
  platform id on creation.
- `EventPipeline`: edits, polls, reactions and the other kinds, which fold into an index; the reload of
  tracks from the database at a restart; which rows are the first 500; notifications.
- `Session`: private tracks and the other stores a login loads; two logins at once from the login screen;
  the list of accounts on the screen is taken to be the saved one, and a save of messages to succeed.
- `CallService`: ICE candidates, mute, camera and screen; an account switch during a call; voice
  channels, which connect through the same `connectToRoom`; a disconnect of LiveKit that fails. Whether a connect that
  fails runs the Disconnected handler is left open.
- `PublishOutbox`: the signing; `publishExisting` (publish.ts:73-78), which sends without recording, so that nothing
  sends its event again; `publishWithConfirmation`; write modes of relays; an empty list of targets.
- Of the hazards met, `PROJECT.json` lists those a property watches and the most telling of the others.
