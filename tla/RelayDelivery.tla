---------------------------- MODULE RelayDelivery ----------------------------
(***************************************************************************)
(* How a stored event reaches the relay's subscribers (services/relay:      *)
(* handle_connection, handle_req, is_event_visible_to): history by the      *)
(* query of a REQ, everything later by the broadcast channel, both filtered *)
(* by who may see what.  The publishing side is EventStore.                 *)
(*                                                                         *)
(* A connection is one loop: while it awaits a step of a message it does    *)
(* not read its broadcast receiver, whose channel keeps the last events.    *)
(* There is one group; its members change by the backend's join and kick    *)
(* and by the group's own moderation.                                      *)
(***************************************************************************)
EXTENDS EventStore, Sequences, FiniteSets

CONSTANTS
  Publishers,   \* the connections that send EVENTs
  Subscribers,  \* those that AUTH and send REQs
  Grouped,      \* the events with the group's h tag
  Unlisted,     \* the events with a visibility tag
  Tagged,       \* per event, the users its p tags name
  Private,      \* the group is private
  Filters,
  Matches,      \* per filter, the events it matches
  GroupFilters, \* the filters whose h_tags name the group
  Subs,         \* subscription ids
  MaxSubs,      \* MAX_SUBSCRIPTIONS
  Capacity,     \* of the broadcast channel
  TTL,          \* MEMBERSHIP_TTL, in ticks
  NoUser,
  NoSub

ASSUME DeliveryAssumption ==
  /\ Publishers \subseteq Conns /\ Subscribers \subseteq Conns
  /\ Grouped \subseteq Events /\ Unlisted \subseteq Events
  /\ Tagged \in [Events -> SUBSET Users]
  /\ Private \in BOOLEAN
  /\ Matches \in [Filters -> SUBSET Events] /\ GroupFilters \subseteq Filters
  /\ MaxSubs \in Nat /\ Capacity \in Nat \ {0} /\ TTL \in Nat \ {0}
  /\ NoUser \notin Users /\ NoSub \notin Subs

VARIABLES
  members,  \* the group's members, in the database
  settled,  \* per user, the ticks since that last changed, TTL at most
  online,   \* the connections that are open
  who,      \* authed_pubkey
  cache,    \* whether space_memberships has the group
  age,      \* ticks since memberships_refreshed_at, TTL at most
  failed,   \* history: the last load of space_memberships failed
  inbox,    \* broadcast_rx: the broadcasts not received yet
  subs,     \* per subscription, its filters ({} when absent)
  opening,  \* the subscription whose REQ is handled
  wanted,   \* its filters
  todo,     \* those not queried yet
  found,    \* what the queries returned (merged)
  missed,   \* history: what they and the channel left out meanwhile
  received, \* history, per subscription: the events sent since its REQ
  skipped   \* history, per subscription: the events left out since its REQ,
            \* hidden, dropped by a lag or missed by a failed query

groupVars == <<members, settled>>
cacheVars == <<cache, age, failed>>
reqVars   == <<opening, wanted, todo, found, missed>>
sentVars  == <<subs, received, skipped>>
connVars  == <<online, who, cacheVars, inbox, reqVars, sentVars>>
vars      == <<eventsVars, groupVars, connVars>>

-----------------------------------------------------------------------------
\* The visibility clauses of query_events.
Readable(e, u) ==
  /\ e \in Unlisted => u = Author[e] \/ u \in Tagged[e]
  /\ e \in Grouped  => u = Author[e] \/ u \in members

\* is_event_visible_to, for a cache that has the group or not.
VisibleTo(e, u, member) ==
  e \in Grouped \cup Unlisted =>
    /\ u # NoUser
    /\ u = Author[e] \/ u \in Tagged[e] \/ (e \in Grouped /\ member)

\* The events a subscription's filters match.
Covered(fs) == UNION {Matches[f] : f \in fs}

Matching(c, e) == {s \in Subs : e \in Covered(subs[c][s])}

Add(sets, S, e) == [s \in Subs |-> IF s \in S THEN sets[s] \cup {e} ELSE sets[s]]

\* Mutant of Free: the loop reads broadcasts while a REQ is handled.
Free_Always(c) == c \in online /\ step[c] = "idle"

\* The loop of c awaits its next message or broadcast.
Free(c) == c \in online /\ step[c] = "idle" /\ opening[c] = NoSub

Cleared == [s \in Subs |-> {}]

-----------------------------------------------------------------------------
\* The connection

Connect(c) ==
  /\ c \notin online
  /\ online' = online \cup {c}
  /\ age' = [age EXCEPT ![c] = 0]
  /\ UNCHANGED <<eventsVars, groupVars, who, cache, failed, inbox, reqVars, sentVars>>

Disconnect(c) ==
  /\ Free(c)
  /\ online' = online \ {c}
  /\ who' = [who EXCEPT ![c] = NoUser]
  /\ cache' = [cache EXCEPT ![c] = FALSE] /\ failed' = [failed EXCEPT ![c] = FALSE]
  /\ inbox' = [inbox EXCEPT ![c] = << >>]
  /\ subs' = [subs EXCEPT ![c] = Cleared]
  /\ received' = [received EXCEPT ![c] = Cleared] /\ skipped' = [skipped EXCEPT ![c] = Cleared]
  /\ UNCHANGED <<eventsVars, groupVars, age, reqVars>>

\* Mutant of LoadMemberships: what is loaded is added to the cache.
LoadMemberships_Adds(c, u, ok) ==
  /\ cache' = [cache EXCEPT ![c] = @ \/ (ok /\ u \in members)]
  /\ failed' = [failed EXCEPT ![c] = ~ok]

\* Loading space_memberships: an error leaves the cache as it is.
LoadMemberships(c, u, ok) ==
  /\ cache' = [cache EXCEPT ![c] = IF ok THEN u \in members ELSE @]
  /\ failed' = [failed EXCEPT ![c] = ~ok]

\* Mutant of Auth: AUTH does not load the memberships.
Auth_NoLoad(c, u, ok) ==
  /\ Free(c)
  /\ who' = [who EXCEPT ![c] = u]
  /\ age' = [age EXCEPT ![c] = IF who[c] = NoUser THEN 0 ELSE @]
  /\ UNCHANGED <<eventsVars, groupVars, online, cache, failed, inbox, reqVars, sentVars>>

\* handle_auth; the refresh time is stamped by the first success only.
Auth(c, u, ok) ==
  /\ Free(c)
  /\ who' = [who EXCEPT ![c] = u]
  /\ LoadMemberships(c, u, ok)
  /\ age' = [age EXCEPT ![c] = IF who[c] = NoUser THEN 0 ELSE @]
  /\ UNCHANGED <<eventsVars, groupVars, online, inbox, reqVars, sentVars>>

\* handle_event up to the publish gate, which asks the database.
Post(c, e) ==
  /\ Free(c)
  /\ e \in Grouped \ Deletions => Author[e] \in members
  /\ Publish(c, e)
  /\ UNCHANGED <<groupVars, connVars>>

\* The statements of handle_deletion and store_event.
StoreStep(c) == (Erase(c) \/ Store(c)) /\ UNCHANGED <<groupVars, connVars>>

\* Mutant of Dropped: the channel is not bounded.
Dropped_Never(c) == {}

\* The channel keeps the last Capacity events of a receiver that lags.
Dropped(c) == IF Len(inbox[c]) < Capacity THEN {} ELSE {Head(inbox[c])}

\* broadcast_tx.send: every receiver gets the event.
Broadcast(c) ==
  /\ Send(c)
  /\ inbox' = [d \in Conns |-> IF d \notin online THEN inbox[d]
                               ELSE IF Dropped(d) = {} THEN Append(inbox[d], event[c])
                               ELSE Append(Tail(inbox[d]), event[c])]
  /\ skipped' = [d \in Conns |->
                   [s \in Subs |-> skipped[d][s] \cup
                      (IF d \in online THEN Dropped(d) \cap Covered(subs[d][s]) ELSE {})]]
  /\ missed' = [d \in Conns |-> missed[d] \cup
                   (IF d \in online THEN Dropped(d) \cap Covered(wanted[d]) ELSE {})]
  /\ UNCHANGED <<groupVars, online, who, cacheVars, opening, wanted, todo, found, subs, received>>

-----------------------------------------------------------------------------
\* handle_req

\* A REQ arrives; an anonymous one for a private group is refused.
Req(c, s, fs) ==
  /\ Free(c)
  /\ ~(who[c] = NoUser /\ Private /\ fs \cap GroupFilters # {})
  /\ opening' = [opening EXCEPT ![c] = s]
  /\ wanted' = [wanted EXCEPT ![c] = fs] /\ todo' = [todo EXCEPT ![c] = fs]
  /\ UNCHANGED <<eventsVars, groupVars, online, who, cacheVars, inbox, found, missed, sentVars>>

\* query_events for one of its filters; an error returns nothing.
Query(c, f, ok) ==
  LET result == IF ok THEN {e \in rows \cap Matches[f] : Readable(e, who[c])} ELSE {}
  IN  /\ f \in todo[c]
      /\ todo' = [todo EXCEPT ![c] = @ \ {f}]
      /\ found' = [found EXCEPT ![c] = @ \cup result]
      /\ missed' = [missed EXCEPT ![c] = @ \cup ((rows \cap Matches[f]) \ result)]
      /\ UNCHANGED <<eventsVars, groupVars, online, who, cacheVars, inbox, opening, wanted, sentVars>>

\* The subscription is registered for live events and what was found is sent,
\* then EOSE; or it is one too many.
Register(c) ==
  LET s == opening[c]
      full == subs[c][s] = {} /\ Cardinality({t \in Subs : subs[c][t] # {}}) >= MaxSubs
  IN  /\ s # NoSub /\ todo[c] = {}
      /\ opening' = [opening EXCEPT ![c] = NoSub]
      /\ wanted' = [wanted EXCEPT ![c] = {}]
      /\ found' = [found EXCEPT ![c] = {}] /\ missed' = [missed EXCEPT ![c] = {}]
      /\ IF full
         THEN UNCHANGED sentVars
         ELSE /\ subs' = [subs EXCEPT ![c][s] = wanted[c]]
              /\ received' = [received EXCEPT ![c][s] = found[c]]
              /\ skipped' = [skipped EXCEPT ![c][s] = missed[c]]
      /\ UNCHANGED <<eventsVars, groupVars, online, who, cacheVars, inbox, todo>>

\* handle_close.
Close(c, s) ==
  /\ Free(c) /\ subs[c][s] # {}
  /\ subs' = [subs EXCEPT ![c][s] = {}]
  /\ received' = [received EXCEPT ![c][s] = {}] /\ skipped' = [skipped EXCEPT ![c][s] = {}]
  /\ UNCHANGED <<eventsVars, groupVars, online, who, cacheVars, inbox, reqVars>>

-----------------------------------------------------------------------------
\* maybe_refresh_memberships re-queries: for group events only.
Stale(c, e) == e \in Grouped /\ who[c] # NoUser /\ age[c] = TTL

\* A broadcast is received, shown to whom it may concern.
Deliver(c, ok) ==
  LET e == Head(inbox[c])
      S == Matching(c, e)
  IN  /\ Free(c) /\ inbox[c] # << >>
      /\ inbox' = [inbox EXCEPT ![c] = Tail(@)]
      /\ IF Stale(c, e)
         THEN /\ LoadMemberships(c, who[c], ok)
              /\ age' = [age EXCEPT ![c] = IF ok THEN 0 ELSE @]
         ELSE UNCHANGED cacheVars
      /\ IF VisibleTo(e, who[c], cache'[c])
         THEN received' = [received EXCEPT ![c] = Add(@, S, e)] /\ UNCHANGED skipped
         ELSE skipped' = [skipped EXCEPT ![c] = Add(@, S, e)] /\ UNCHANGED received
      /\ UNCHANGED <<eventsVars, groupVars, online, who, reqVars, subs>>

-----------------------------------------------------------------------------
\* The world

\* A user joins, leaves or is kicked.
ChangeMembership(u) ==
  /\ members' = IF u \in members THEN members \ {u} ELSE members \cup {u}
  /\ settled' = [settled EXCEPT ![u] = 0]
  /\ UNCHANGED <<eventsVars, connVars>>

Aged(n) == IF n < TTL THEN n + 1 ELSE n

Tick ==
  /\ settled' = [u \in Users |-> Aged(settled[u])]
  /\ age' = [c \in Conns |-> Aged(age[c])]
  /\ UNCHANGED <<eventsVars, members, online, who, cache, failed, inbox, reqVars, sentVars>>

\* The relay restarts: its connections are gone, its database is not.
RestartRelay ==
  /\ Restart
  /\ online' = {} /\ who' = [c \in Conns |-> NoUser]
  /\ cache' = [c \in Conns |-> FALSE] /\ failed' = [c \in Conns |-> FALSE]
  /\ inbox' = [c \in Conns |-> << >>]
  /\ opening' = [c \in Conns |-> NoSub]
  /\ wanted' = [c \in Conns |-> {}] /\ todo' = [c \in Conns |-> {}]
  /\ found' = [c \in Conns |-> {}] /\ missed' = [c \in Conns |-> {}]
  /\ subs' = [c \in Conns |-> Cleared]
  /\ received' = [c \in Conns |-> Cleared] /\ skipped' = [c \in Conns |-> Cleared]
  /\ UNCHANGED <<groupVars, age>>

Init ==
  /\ EventsInit
  /\ members \in SUBSET Users /\ settled = [u \in Users |-> TTL]
  /\ online = {} /\ who = [c \in Conns |-> NoUser]
  /\ cache = [c \in Conns |-> FALSE] /\ failed = [c \in Conns |-> FALSE]
  /\ age = [c \in Conns |-> 0]
  /\ inbox = [c \in Conns |-> << >>]
  /\ opening = [c \in Conns |-> NoSub]
  /\ wanted = [c \in Conns |-> {}] /\ todo = [c \in Conns |-> {}]
  /\ found = [c \in Conns |-> {}] /\ missed = [c \in Conns |-> {}]
  /\ subs = [c \in Conns |-> Cleared]
  /\ received = [c \in Conns |-> Cleared] /\ skipped = [c \in Conns |-> Cleared]

Next ==
  \/ \E c \in Conns :
       \/ Connect(c) \/ Disconnect(c) \/ StoreStep(c) \/ Broadcast(c) \/ Register(c)
       \/ \E f \in Filters, ok \in BOOLEAN : Query(c, f, ok)
       \/ \E ok \in BOOLEAN : Deliver(c, ok)
  \/ \E c \in Publishers, e \in Events : Post(c, e)
  \/ \E c \in Subscribers :
       \/ \E u \in Users, ok \in BOOLEAN : Auth(c, u, ok)
       \/ \E s \in Subs, fs \in SUBSET Filters \ {{}} : Req(c, s, fs)
       \/ \E s \in Subs : Close(c, s)
  \/ \E u \in Users : ChangeMembership(u)
  \/ Tick
  \/ RestartRelay

Spec == Init /\ [][Next]_vars

-----------------------------------------------------------------------------
\* Every variable keeps its type; no receiver holds more than the channel keeps,
\* and a query is only ever pending for the subscription being opened.
TypeOK ==
  /\ EventsTypeOK
  /\ members \subseteq Users /\ settled \in [Users -> 0..TTL]
  /\ online \subseteq Conns /\ who \in [Conns -> Users \cup {NoUser}]
  /\ cache \in [Conns -> BOOLEAN] /\ failed \in [Conns -> BOOLEAN] /\ age \in [Conns -> 0..TTL]
  /\ inbox \in [Conns -> Seq(Events)] /\ \A c \in Conns : Len(inbox[c]) <= Capacity
  /\ opening \in [Conns -> Subs \cup {NoSub}]
  /\ wanted \in [Conns -> SUBSET Filters] /\ todo \in [Conns -> SUBSET Filters]
  /\ found \in [Conns -> SUBSET Events] /\ missed \in [Conns -> SUBSET Events]
  /\ subs \in [Conns -> [Subs -> SUBSET Filters]]
  /\ received \in [Conns -> [Subs -> SUBSET Events]]
  /\ skipped \in [Conns -> [Subs -> SUBSET Events]]
  /\ \A c \in Conns : opening[c] = NoSub => todo[c] = {}

\* No event falls between a REQ's query and its live events: what is stored and
\* matches was sent, was left out for a reason, waits in the receiver, or is
\* about to be broadcast.
NoGap ==
  \A c \in online, s \in Subs :
    \A e \in rows \cap Covered(subs[c][s]) :
      \/ e \in received[c][s] \cup skipped[c][s]
      \/ \E i \in 1..Len(inbox[c]) : inbox[c][i] = e
      \/ \E d \in Conns : step[d] = "send" /\ event[d] = e

\* A user who is no member any more is cut off within MEMBERSHIP_TTL, if the
\* membership query succeeds (connection.rs:16-22).
KickedIsCutOff ==
  [][\A c \in Conns, s \in Subs : \A e \in Grouped \ received[c][s] :
       /\ opening[c] = NoSub /\ e \in received'[c][s]
       /\ who[c] \notin members \cup {Author[e]} \cup Tagged[e]
       => settled[who[c]] < TTL \/ failed'[c]]_vars

\* And a user who has joined sees the group's live events within the same time.
JoinedIsServed ==
  [][\A c \in Conns, ok \in BOOLEAN :
       Deliver(c, ok) /\ Head(inbox[c]) \in Grouped \ Unlisted /\ who[c] \in members
         /\ ~VisibleTo(Head(inbox[c]), who[c], cache'[c])
       => settled[who[c]] < TTL \/ failed'[c]]_vars
=============================================================================
