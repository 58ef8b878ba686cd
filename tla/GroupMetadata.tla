---------------------------- MODULE GroupMetadata ----------------------------
(***************************************************************************)
(* The state of one relay-native NIP-29 group and the events 39000, 39001   *)
(* and 39002 in which the relay publishes it (services/relay: the           *)
(* management branches of handle_event, nip29/*.rs, group_store).           *)
(*                                                                         *)
(* A management event is handled in steps, each an awaited statement: its   *)
(* check, its change, then for each of the three kinds a read of the group, *)
(* a signature, and a replacement in three statements.  Connections handle  *)
(* theirs at the same time.  The steps are those of Postgres: SQLite takes  *)
(* the two of remove_member, and the two of store_event, as one, and so     *)
(* shows nothing that is not here.  The sender's own event, stored like any *)
(* other (EventStore), changes nothing here and is left out.               *)
(***************************************************************************)
EXTENDS Naturals

CONSTANTS
  Conns,
  Users,
  Senders,       \* those of them who send management events
  Names,         \* what kind 9002 sets
  LastSecond,    \* bound on the clock
  Nothing

\* Nothing is no user, no name and no version of an event.
ASSUME GroupAssumption ==
  /\ Senders \subseteq Users /\ LastSecond \in Nat /\ Nothing \notin Users \cup Names
  /\ \A at \in 0..LastSecond :
       /\ \A data \in (Names \cup {Nothing}) \X BOOLEAN : Nothing # [at |-> at, data |-> data]
       /\ \A users \in SUBSET Users : Nothing # [at |-> at, data |-> <<users>>]

VARIABLES
  exists, name,    \* relay.groups: the group's row, and whether it is closed
  closed,
  members, admins, \* relay.group_members, relay.group_roles
  published,       \* per kind, the stored event: [at, data] or Nothing
  now,             \* the clock, in the seconds of created_at
  op,              \* per connection, the management event it has yet to apply, or Nothing
  step,            \* per connection, what it does next
  draft,           \* per connection, the event it has signed, or Nothing
  \* history
  alone,           \* connections whose operation no other has overlapped
  fresh,           \* the last republication was alone and nothing overlapped since
  interrupted      \* admins whose removal a restart cut in two

groupVars   == <<exists, name, closed, members, admins>>
taskVars    == <<op, step, draft>>
historyVars == <<alone, fresh, interrupted>>
vars == <<groupVars, published, now, taskVars, historyVars>>

Kinds == {39000, 39001, 39002}
AdminOps == {"put", "remove", "edit", "delete"}
Ops == [kind : {"put", "remove"}, by : Senders, arg : Users]
       \cup [kind : {"edit"}, by : Senders, arg : Names]
       \cup [kind : {"create"}, by : Senders, arg : Names,
             flags : {"none", "private", "closed"}]
       \cup [kind : {"join", "leave", "delete"}, by : Senders, arg : {Nothing}]

Busy == {c \in Conns : step[c] # "idle"}

\* What the relay would publish for a kind now, as the event's tags.
Data(kind) == CASE kind = 39000 -> <<name, closed>>
                [] kind = 39001 -> <<admins>>
                [] kind = 39002 -> <<members>>

-----------------------------------------------------------------------------
\* The operation ends; alone, if it has republished the group.
End(c) ==
  /\ op' = [op EXCEPT ![c] = Nothing]
  /\ step' = [step EXCEPT ![c] = "idle"]
  /\ draft' = [draft EXCEPT ![c] = Nothing]
  /\ alone' = alone \ {c}

\* is_admin for the admin's operations; a join needs the group.
Refused(o) ==
  \/ o.kind \in AdminOps /\ o.by \notin admins
  \/ o.kind = "join" /\ ~exists

\* A draft of the next kind, not read yet.
Unread(kind) == [kind |-> kind, at |-> 0, data |-> Nothing]

\* A management event arrives and passes its check.  A join of a closed group
\* changes nothing but republishes.
Begin(c, o) ==
  /\ step[c] = "idle" /\ ~Refused(o)
  /\ op' = [op EXCEPT ![c] = o]
  /\ step' = [step EXCEPT ![c] = IF o.kind = "join" /\ closed THEN "read" ELSE "change"]
  /\ draft' = [draft EXCEPT ![c] = Unread(39000)]
  /\ alone' = IF Busy = {} THEN {c} ELSE {}
  /\ fresh' = (fresh /\ Busy = {})
  /\ UNCHANGED <<groupVars, published, now, interrupted>>

Goes(c, next) == step' = [step EXCEPT ![c] = next] /\ UNCHANGED <<op, draft, alone>>

\* The change is done, or in the middle; fresh falls until the group is republished.
Changed(c, next) ==
  /\ step' = [step EXCEPT ![c] = next]
  /\ op' = IF next = "read" THEN [op EXCEPT ![c] = Nothing] ELSE op
  /\ UNCHANGED <<draft, alone>>
  /\ fresh' = FALSE
  /\ UNCHANGED <<published, now>>

\* add_member, for 9000 and 9021; the foreign key fails without the group.
AddMember(c) ==
  LET u == IF op[c].kind = "put" THEN op[c].arg ELSE op[c].by
  IN  /\ step[c] = "change" /\ op[c].kind \in {"put", "join"}
      /\ IF exists
         THEN members' = members \cup {u} /\ Changed(c, "read")
         ELSE End(c) /\ UNCHANGED <<members, published, now, fresh>>
      /\ UNCHANGED <<exists, name, closed, admins, interrupted>>

\* Whom 9001 and 9022 remove.
Removed(o) == IF o.kind = "remove" THEN o.arg ELSE o.by

\* remove_member: the membership, then the roles.
RemoveMember(c) ==
  /\ step[c] = "change" /\ op[c].kind \in {"remove", "leave"}
  /\ members' = members \ {Removed(op[c])}
  /\ Changed(c, "roles")
  /\ UNCHANGED <<exists, name, closed, admins, interrupted>>

\* Mutant of RemoveRoles: the roles stay.
RemoveRoles_Never(c) ==
  /\ step[c] = "roles"
  /\ interrupted' = interrupted \ {Removed(op[c])}
  /\ Changed(c, "read")
  /\ UNCHANGED groupVars

RemoveRoles(c) ==
  /\ step[c] = "roles"
  /\ admins' = admins \ {Removed(op[c])}
  /\ interrupted' = interrupted \ {Removed(op[c])}
  /\ Changed(c, "read")
  /\ UNCHANGED <<exists, name, closed, members>>

\* edit_metadata: no row, no change.
EditMetadata(c) ==
  /\ step[c] = "change" /\ op[c].kind = "edit"
  /\ name' = IF exists THEN op[c].arg ELSE name
  /\ Changed(c, "read")
  /\ UNCHANGED <<exists, closed, members, admins, interrupted>>

\* create_group: nothing that is there is overwritten, and the sender becomes a
\* member and an admin.
CreateGroup(c) ==
  /\ step[c] = "change" /\ op[c].kind = "create"
  /\ exists' = TRUE
  /\ name' = IF exists THEN name ELSE op[c].arg
  /\ members' = members \cup {op[c].by} /\ admins' = admins \cup {op[c].by}
  /\ interrupted' = interrupted \ {op[c].by}
  /\ Changed(c, IF op[c].flags = "none" THEN "read" ELSE "flags")
  /\ UNCHANGED closed

\* set_group_flags, a statement of its own: a group marked private only is open.
SetGroupFlags(c) ==
  /\ step[c] = "flags"
  /\ closed' = (exists /\ op[c].flags = "closed")
  /\ Changed(c, "read")
  /\ UNCHANGED <<exists, name, members, admins, interrupted>>

\* Mutant of DeleteGroup: the roles do not cascade.
DeleteGroup_KeepsRoles(c) ==
  /\ step[c] = "change" /\ op[c].kind = "delete"
  /\ exists' = FALSE /\ closed' = FALSE /\ members' = {} /\ name' = Nothing
  /\ End(c)
  /\ fresh' = FALSE
  /\ UNCHANGED <<admins, published, now, interrupted>>

\* delete_group: members and roles cascade.  Nothing is republished.
DeleteGroup(c) ==
  /\ step[c] = "change" /\ op[c].kind = "delete"
  /\ exists' = FALSE /\ closed' = FALSE /\ members' = {} /\ admins' = {} /\ name' = Nothing
  /\ interrupted' = {}
  /\ End(c)
  /\ fresh' = FALSE
  /\ UNCHANGED <<published, now>>

-----------------------------------------------------------------------------
\* publish_group_metadata, for one kind after the other: build and sign.
ReadGroup(c) ==
  LET kind == draft[c].kind
  IN  /\ step[c] = "read"
      /\ IF kind = 39000 /\ ~exists THEN End(c)
         ELSE /\ draft' = [draft EXCEPT ![c] = [kind |-> kind, at |-> now, data |-> Data(kind)]]
              /\ step' = [step EXCEPT ![c] = "replace"]
              /\ UNCHANGED <<op, alone>>
      /\ UNCHANGED <<groupVars, published, now, fresh, interrupted>>

\* Mutant of ReplaceAddressable: the prior version is left to store_event.
ReplaceAddressable_Skipped(c) ==
  /\ step[c] = "replace"
  /\ Goes(c, "older")
  /\ UNCHANGED <<groupVars, published, now, fresh, interrupted>>

\* replace_addressable: the prior version is deleted.
ReplaceAddressable(c) ==
  /\ step[c] = "replace"
  /\ published' = [published EXCEPT ![draft[c].kind] = Nothing]
  /\ Goes(c, "older")
  /\ UNCHANGED <<groupVars, now, fresh, interrupted>>

\* What store_event deletes before it inserts.
WithoutOlder(d) ==
  IF published[d.kind] # Nothing /\ published[d.kind].at < d.at
  THEN [published EXCEPT ![d.kind] = Nothing] ELSE published

\* store_event, the DELETE.
DeleteOlder(c) ==
  /\ step[c] = "older"
  /\ published' = WithoutOlder(draft[c])
  /\ Goes(c, "insert")
  /\ UNCHANGED <<groupVars, now, fresh, interrupted>>

\* store_event, the INSERT: it is dropped when a version is there.  Then the
\* next kind, or the end.
Insert(c) ==
  LET d == draft[c]
      stored == published[d.kind] = Nothing
  IN  /\ step[c] = "insert"
      /\ published' = IF stored THEN [published EXCEPT ![d.kind] = [at |-> d.at, data |-> d.data]]
                                ELSE published
      /\ IF d.kind = 39002
         THEN End(c) /\ fresh' = (fresh \/ c \in alone)
         ELSE /\ draft' = [draft EXCEPT ![c] = Unread(d.kind + 1)]
              /\ step' = [step EXCEPT ![c] = "read"]
              /\ UNCHANGED <<op, alone, fresh>>
      /\ UNCHANGED <<groupVars, now, interrupted>>

-----------------------------------------------------------------------------
Tick ==
  /\ now < LastSecond
  /\ now' = now + 1
  /\ UNCHANGED <<groupVars, published, taskVars, historyVars>>

\* The relay restarts: operations under way are cut where they are.
Restart ==
  /\ op' = [c \in Conns |-> Nothing] /\ step' = [c \in Conns |-> "idle"]
  /\ draft' = [c \in Conns |-> Nothing]
  /\ alone' = {}
  /\ fresh' = (fresh /\ Busy = {})
  /\ interrupted' = interrupted \cup {u \in admins : \E c \in Conns : step[c] = "roles" /\ Removed(op[c]) = u}
  /\ UNCHANGED <<groupVars, published, now>>

Init ==
  /\ exists = FALSE /\ name = Nothing /\ closed = FALSE /\ members = {} /\ admins = {}
  /\ published = [k \in Kinds |-> Nothing]
  /\ now = 0
  /\ op = [c \in Conns |-> Nothing] /\ step = [c \in Conns |-> "idle"]
  /\ draft = [c \in Conns |-> Nothing]
  /\ alone = {} /\ fresh = FALSE /\ interrupted = {}

Change(c) ==
  AddMember(c) \/ RemoveMember(c) \/ RemoveRoles(c) \/ EditMetadata(c) \/ CreateGroup(c)
  \/ SetGroupFlags(c) \/ DeleteGroup(c)
Republish(c) ==
  ReadGroup(c) \/ ReplaceAddressable(c) \/ DeleteOlder(c) \/ Insert(c)

Next ==
  \/ \E c \in Conns, o \in Ops : Begin(c, o)
  \/ \E c \in Conns : Change(c) \/ Republish(c)
  \/ Tick
  \/ Restart

Spec == Init /\ [][Next]_vars

-----------------------------------------------------------------------------
\* The types, and that a group that is not there has left no row behind, whoever
\* was adding a member or a role to it when it went (the foreign keys).
TypeOK ==
  /\ exists \in BOOLEAN /\ closed \in BOOLEAN /\ name \in Names \cup {Nothing}
  /\ members \subseteq Users /\ admins \subseteq Users
  /\ ~exists => members = {} /\ admins = {} /\ name = Nothing /\ ~closed
  /\ now \in 0..LastSecond
  /\ \A c \in Conns : step[c] \in {"change", "roles", "flags"} => op[c] \in Ops

\* After an operation that had the relay for itself, and until the next, what
\* the relay publishes is the group, whether or not it changed twice within a
\* second (metadata.rs:76-79).
PublishedIsGroup ==
  Busy = {} /\ fresh /\ exists =>
    \A k \in Kinds : published[k] # Nothing /\ published[k].data = Data(k)

\* An admin is a member: a removal that is over has taken both, however it
\* crossed other operations, unless a restart cut it in two.
AdminsAreMembers ==
  \A u \in admins \ members :
    u \in interrupted \/ \E c \in Conns : step[c] = "roles" /\ Removed(op[c]) = u
=============================================================================
