------------------------- MODULE GroupMetadataProofs -------------------------
(***************************************************************************)
(* Proofs about GroupMetadata for any connections, users and names: the      *)
(* types and the foreign keys, that admins are members, and that what is     *)
(* published after an operation that ran alone is the group.                 *)
(***************************************************************************)
EXTENDS GroupMetadata, TLAPS

LEMMA Constants == Senders \subseteq Users /\ LastSecond \in Nat /\ Nothing \notin Users \cup Names
BY GroupAssumption

USE Constants

-----------------------------------------------------------------------------
Changing == {"change", "roles", "flags"}
Republishing == {"read", "replace", "older", "insert"}

\* The connections' part of the types; TypeOK has the group's.
TaskTypes ==
  /\ op \in [Conns -> Ops \cup {Nothing}]
  /\ step \in [Conns -> {"idle"} \cup Changing \cup Republishing]
  /\ draft = [c \in Conns |-> draft[c]]
  /\ alone \subseteq Conns
  /\ \A c \in Conns : step[c] = "roles" => op[c].kind \in {"remove", "leave"}

Types == TypeOK /\ TaskTypes

\* What an operation of each kind carries.
LEMMA OpFields ==
  ASSUME NEW o \in Ops
  PROVE  /\ o.by \in Users /\ o.kind \in AdminOps \cup {"create", "join", "leave"}
         /\ o.kind \in {"put", "remove"} => o.arg \in Users
         /\ o.kind \in {"edit", "create"} => o.arg \in Names
BY DEF Ops, AdminOps

LEMMA TypesStep == Types /\ [Next]_vars => Types'
<1> SUFFICES ASSUME Types, [Next]_vars PROVE Types'
  OBVIOUS
<1> USE DEF Types, TypeOK, TaskTypes
<1>0. CASE UNCHANGED vars
  BY <1>0 DEF vars, groupVars, taskVars, historyVars
<1>1. ASSUME NEW c \in Conns, NEW o \in Ops, Begin(c, o) PROVE Types'
  BY <1>1 DEF Begin, groupVars, Changing, Republishing
<1>2. ASSUME NEW c \in Conns, AddMember(c) PROVE Types'
  BY <1>2, OpFields DEF AddMember, Changed, End, Changing, Republishing
<1>3. ASSUME NEW c \in Conns, RemoveMember(c) PROVE Types'
  BY <1>3, OpFields DEF RemoveMember, Changed, Changing, Republishing
<1>4. ASSUME NEW c \in Conns, RemoveRoles(c) PROVE Types'
  BY <1>4, OpFields DEF RemoveRoles, Changed, Changing, Republishing
<1>5. ASSUME NEW c \in Conns, EditMetadata(c) PROVE Types'
  BY <1>5, OpFields DEF EditMetadata, Changed, Changing, Republishing
<1>6. ASSUME NEW c \in Conns, CreateGroup(c) PROVE Types'
  BY <1>6, OpFields DEF CreateGroup, Changed, Changing, Republishing
<1>7. ASSUME NEW c \in Conns, SetGroupFlags(c) PROVE Types'
  BY <1>7, OpFields DEF SetGroupFlags, Changed, Changing, Republishing
<1>8. ASSUME NEW c \in Conns, DeleteGroup(c) PROVE Types'
  BY <1>8 DEF DeleteGroup, End, Changing, Republishing
<1>9. ASSUME NEW c \in Conns, ReadGroup(c) PROVE Types'
  BY <1>9 DEF ReadGroup, End, groupVars, Changing, Republishing
<1>10. ASSUME NEW c \in Conns, ReplaceAddressable(c) \/ DeleteOlder(c) PROVE Types'
  BY <1>10 DEF ReplaceAddressable, DeleteOlder, Goes, groupVars, Changing, Republishing
<1>11. ASSUME NEW c \in Conns, Insert(c) PROVE Types'
  BY <1>11 DEF Insert, End, groupVars, Changing, Republishing
<1>12. CASE Tick
  BY <1>12 DEF Tick, groupVars, taskVars, historyVars
<1>13. CASE Restart
  BY <1>13 DEF Restart, groupVars, Changing, Republishing
<1> QED
  BY <1>0, <1>1, <1>2, <1>3, <1>4, <1>5, <1>6, <1>7, <1>8, <1>9, <1>10, <1>11, <1>12, <1>13
  DEF Next, Change, Republish

-----------------------------------------------------------------------------
\* Why somebody may be an admin and no member.
Excused(u) == u \in interrupted \/ \E c \in Conns : step[c] = "roles" /\ Removed(op[c]) = u

LEMMA AdminsStep == Types /\ AdminsAreMembers /\ [Next]_vars => AdminsAreMembers'
<1> SUFFICES ASSUME Types, AdminsAreMembers, [Next]_vars, NEW u \in (admins \ members)'
             PROVE  Excused(u)'
  BY DEF AdminsAreMembers, Excused
<1> USE DEF Excused, Removed
<1> DEFINE Awaited == \E c \in Conns : step[c] = "roles" /\ Removed(op[c]) = u
<1>1. op \in [Conns -> Ops \cup {Nothing}] /\ DOMAIN step = Conns
  BY DEF Types, TaskTypes
\* Whoever was an admin and no member before the step is still accounted for
\* by what the step leaves alone.
<1>2. ASSUME u \in admins \ members PROVE u \in interrupted \/ Awaited
  BY <1>2 DEF AdminsAreMembers
<1>3. ASSUME NEW d \in Conns, step[d] # "roles", \A c \in Conns \ {d} : step'[c] = step[c] /\ op'[c] = op[c],
             interrupted' = interrupted, u \in admins \ members
      PROVE  Excused(u)'
  <2>1. CASE u \in interrupted
    BY <1>3, <2>1
  <2>2. CASE Awaited
    <3>1. PICK c \in Conns : step[c] = "roles" /\ Removed(op[c]) = u
      BY <2>2
    <3> QED
      BY <1>3, <3>1 DEF Removed
  <2> QED
    BY <1>2, <1>3, <2>1, <2>2
<1>4. CASE UNCHANGED <<admins, members, interrupted, op, step>>
  BY <1>2, <1>4 DEF Removed
<1>5. ASSUME NEW c \in Conns, NEW o \in Ops, Begin(c, o) PROVE Excused(u)'
  BY <1>1, <1>3, <1>5 DEF Begin, groupVars
<1>6. ASSUME NEW c \in Conns, AddMember(c) PROVE Excused(u)'
  BY <1>1, <1>3, <1>6 DEF AddMember, Changed, End
<1>7. ASSUME NEW c \in Conns, RemoveMember(c) PROVE Excused(u)'
  <2>1. members' = members \ {Removed(op[c])} /\ admins' = admins /\ step[c] = "change"
        /\ step' = [step EXCEPT ![c] = "roles"] /\ op' = op /\ interrupted' = interrupted
    BY <1>7 DEF RemoveMember, Changed
  <2>2. CASE u \in members
    BY <1>1, <2>1, <2>2 DEF Removed
  <2>3. CASE u \notin members
    BY <1>1, <1>3, <2>1, <2>3
  <2> QED
    BY <2>2, <2>3
<1>8. ASSUME NEW c \in Conns, RemoveRoles(c) PROVE Excused(u)'
  <2>1. /\ u # Removed(op[c]) /\ u \in admins \ members /\ interrupted' = interrupted \ {Removed(op[c])}
        /\ \A d \in Conns \ {c} : step'[d] = step[d] /\ op'[d] = op[d]
    BY <1>1, <1>8 DEF RemoveRoles, Changed
  <2>2. CASE u \in interrupted
    BY <2>1, <2>2
  <2>3. CASE Awaited
    <3>1. PICK d \in Conns : step[d] = "roles" /\ Removed(op[d]) = u
      BY <2>3
    <3> QED
      BY <2>1, <3>1 DEF Removed
  <2> QED
    BY <1>2, <2>1, <2>2, <2>3
<1>9. ASSUME NEW c \in Conns, EditMetadata(c) \/ SetGroupFlags(c) PROVE Excused(u)'
  BY <1>1, <1>3, <1>9 DEF EditMetadata, SetGroupFlags, Changed
<1>10. ASSUME NEW c \in Conns, CreateGroup(c) PROVE Excused(u)'
  <2>1. /\ u # op[c].by /\ u \in admins \ members /\ interrupted' = interrupted \ {op[c].by}
        /\ step[c] = "change"
        /\ \A d \in Conns \ {c} : step'[d] = step[d] /\ op'[d] = op[d]
    BY <1>1, <1>10 DEF CreateGroup, Changed
  <2>2. CASE u \in interrupted
    BY <2>1, <2>2
  <2>3. CASE Awaited
    <3>1. PICK d \in Conns : step[d] = "roles" /\ Removed(op[d]) = u
      BY <2>3
    <3> QED
      BY <2>1, <3>1 DEF Removed
  <2> QED
    BY <1>2, <2>1, <2>2, <2>3
<1>11. ASSUME NEW c \in Conns, DeleteGroup(c) PROVE FALSE
  BY <1>11 DEF DeleteGroup
<1>12. ASSUME NEW c \in Conns, Republish(c) PROVE Excused(u)'
  <2>1. /\ u \in admins \ members /\ step[c] # "roles" /\ interrupted' = interrupted
        /\ \A d \in Conns \ {c} : step'[d] = step[d] /\ op'[d] = op[d]
    BY <1>1, <1>12 DEF Republish, ReadGroup, ReplaceAddressable, DeleteOlder, Insert, Goes, End, groupVars
  <2> QED
    BY <1>3, <2>1
<1>13. CASE Tick \/ UNCHANGED vars
  BY <1>4, <1>13 DEF Tick, vars, groupVars, taskVars, historyVars
<1>14. CASE Restart
  BY <1>2, <1>14 DEF Restart, groupVars
<1> QED
  BY <1>5, <1>6, <1>7, <1>8, <1>9, <1>10, <1>11, <1>12, <1>13, <1>14 DEF Next, Change

-----------------------------------------------------------------------------
\* A kind is current when its stored event says what the relay would say now.
Current(k) == published[k] # Nothing /\ published[k].data = Data(k)

\* An operation that is alone is the only one; while the group counts as fresh only
\* such a one is under way.
Overlap == (\A c \in alone : Busy = {c}) /\ (fresh => Busy = alone)

Drafting ==
  /\ DOMAIN published = Kinds
  /\ \A c \in Conns : /\ step[c] \in Changing => draft[c].kind = 39000
                      /\ step[c] \in Republishing => draft[c].kind \in Kinds
                      /\ step[c] \in Republishing \ {"read"} => draft[c].at \in 0..LastSecond

\* What an operation is done with is current, and what it holds of the next kind is.
Done(c) ==
  /\ \A k \in Kinds : k < draft[c].kind => Current(k)
  /\ \A k \in Kinds : k = draft[c].kind /\ step[c] # "read" => draft[c].data = Data(k)
  /\ step[c] \in {"older", "insert"} => published[draft[c].kind] = Nothing
Progress == \A c \in alone : step[c] \in Republishing => Done(c)

\* What each step does to a connection's step and draft.
LEMMA StepShape ==
  ASSUME Types, Drafting, NEW c \in Conns, Change(c) \/ Republish(c)
  PROVE  /\ step[c] # "idle"
         /\ \A d \in Conns \ {c} : step'[d] = step[d] /\ draft'[d] = draft[d]
         /\ alone' = (IF step'[c] = "idle" THEN alone \ {c} ELSE alone)
         /\ step' \in [Conns -> {"idle"} \cup Changing \cup Republishing]
BY DEF Types, TaskTypes, Change, Republish, AddMember, RemoveMember, RemoveRoles, EditMetadata,
   CreateGroup, SetGroupFlags, DeleteGroup, ReadGroup, ReplaceAddressable, DeleteOlder, Insert,
   Changed, End, Goes, Changing, Republishing

LEMMA RepublishLeaves ==
  ASSUME NEW c \in Conns, Republish(c)
  PROVE  UNCHANGED groupVars
BY DEF Republish, ReadGroup, ReplaceAddressable, DeleteOlder, Insert

LEMMA FreshFalls ==
  ASSUME NEW c \in Conns, Change(c)
  PROVE  /\ UNCHANGED published
         /\ fresh' = FALSE \/ (fresh' = fresh /\ ~exists /\ ~exists')
BY DEF Change, AddMember, RemoveMember, RemoveRoles, EditMetadata, CreateGroup, SetGroupFlags,
   DeleteGroup, Changed

\* How fresh moves: it falls with a change, and rises only as an operation ends alone.
LEMMA FreshMoves ==
  ASSUME Types, NEW c \in Conns, Change(c) \/ Republish(c)
  PROVE  fresh' => fresh \/ (c \in alone /\ step'[c] = "idle" /\ step[c] = "insert")
<1>1. CASE Change(c)
  BY <1>1, FreshFalls
<1>2. CASE ReadGroup(c) \/ ReplaceAddressable(c) \/ DeleteOlder(c)
  <2>1. fresh' = fresh
    BY <1>2 DEF ReadGroup, ReplaceAddressable, DeleteOlder
  <2> QED
    BY <2>1
<1>3. CASE Insert(c)
  <2>1. step \in [Conns -> {"idle"} \cup Changing \cup Republishing] /\ step[c] = "insert"
    BY <1>3 DEF Types, TaskTypes, Insert
  <2>2. CASE draft[c].kind = 39002
    <3>1. step' = [step EXCEPT ![c] = "idle"]
      BY <1>3, <2>2 DEF Insert, End
    <3>2. fresh' = (fresh \/ c \in alone)
      BY <1>3, <2>2 DEF Insert
    <3> QED
      BY <2>1, <3>1, <3>2
  <2>3. CASE draft[c].kind # 39002
    <3>1. fresh' = fresh
      BY <1>3, <2>3 DEF Insert
    <3> QED
      BY <3>1
  <2> QED
    BY <2>2, <2>3
<1> QED
  BY <1>1, <1>2, <1>3 DEF Republish

LEMMA OverlapStep == Types /\ Drafting /\ Overlap /\ [Next]_vars => Overlap'
<1> SUFFICES ASSUME Types, Drafting, Overlap, [Next]_vars PROVE Overlap'
  OBVIOUS
<1>0. /\ step \in [Conns -> {"idle"} \cup Changing \cup Republishing] /\ alone \subseteq Conns
  BY DEF Types, TaskTypes
<1>1. CASE UNCHANGED <<step, alone, fresh>>
  BY <1>1 DEF Overlap, Busy
<1>2. ASSUME NEW c \in Conns, NEW o \in Ops, Begin(c, o) PROVE Overlap'
  <2>1. Busy' = Busy \cup {c}
    BY <1>0, <1>2 DEF Begin, Busy
  <2>2. alone' = (IF Busy = {} THEN {c} ELSE {}) /\ (fresh' => Busy = {})
    <3>1. alone' = IF Busy = {} THEN {c} ELSE {}
      BY <1>2 DEF Begin
    <3>2. fresh' = (fresh /\ Busy = {})
      BY <1>2 DEF Begin
    <3> QED
      BY <3>1, <3>2
  <2>3. CASE Busy = {}
    <3>1. Busy' = {c} /\ alone' = {c}
      BY <2>1, <2>2, <2>3
    <3> QED
      BY <3>1 DEF Overlap
  <2>4. CASE Busy # {}
    <3>1. alone' = {} /\ ~fresh'
      BY <2>2, <2>4
    <3> QED
      BY <3>1 DEF Overlap
  <2> QED
    BY <2>3, <2>4
<1>3. ASSUME NEW c \in Conns, Change(c) \/ Republish(c) PROVE Overlap'
  <2>1. c \in Busy /\ Busy' = IF step'[c] = "idle" THEN Busy \ {c} ELSE Busy
    BY <1>0, <1>3, StepShape DEF Busy
  <2>2. alone' = (IF step'[c] = "idle" THEN alone \ {c} ELSE alone)
    BY <1>3, StepShape
  <2>3. fresh' => fresh \/ (c \in alone /\ step'[c] = "idle")
    BY <1>3, FreshMoves
  <2> QED
    BY <2>1, <2>2, <2>3 DEF Overlap
<1>4. CASE Restart
  BY <1>4 DEF Restart, Overlap, Busy
<1> QED
  BY <1>1, <1>2, <1>3, <1>4 DEF Next, Tick, vars, taskVars, historyVars

LEMMA DraftingStep == Types /\ Drafting /\ [Next]_vars => Drafting'
<1> SUFFICES ASSUME Types, Drafting, [Next]_vars PROVE Drafting'
  OBVIOUS
<1>0. /\ step \in [Conns -> {"idle"} \cup Changing \cup Republishing] /\ DOMAIN draft = Conns
      /\ DOMAIN published = Kinds
  BY DEF Types, TaskTypes, Drafting
<1>1. CASE UNCHANGED <<step, draft, published>>
  BY <1>1 DEF Drafting
<1>2. ASSUME NEW c \in Conns, NEW o \in Ops, Begin(c, o) PROVE Drafting'
  BY <1>0, <1>2 DEF Begin, Drafting, Unread, Kinds
<1>3. ASSUME NEW c \in Conns, Change(c) PROVE Drafting'
  <2>1. step[c] \in Changing /\ published' = published
        /\ (step'[c] # "idle" => draft' = draft) /\ step'[c] \in {"idle", "read", "roles", "flags"}
    BY <1>0, <1>3 DEF Change, AddMember, RemoveMember, RemoveRoles, EditMetadata, CreateGroup,
       SetGroupFlags, DeleteGroup, Changed, End, Changing
  <2>2. \A d \in Conns \ {c} : step'[d] = step[d] /\ draft'[d] = draft[d]
    BY <1>3, StepShape
  <2>3. draft[c].kind = 39000 /\ 39000 \in Kinds
    BY <2>1 DEF Drafting, Kinds
  <2> QED
    BY <2>1, <2>2, <2>3 DEF Drafting, Changing, Republishing
<1>4. ASSUME NEW c \in Conns, Republish(c) PROVE Drafting'
  <2>1. \A d \in Conns \ {c} : step'[d] = step[d] /\ draft'[d] = draft[d]
    BY <1>4, StepShape
  <2>2. DOMAIN published' = Kinds
    BY <1>0, <1>4 DEF Republish, ReadGroup, ReplaceAddressable, DeleteOlder, Insert, WithoutOlder
  <2>3. step[c] \in Republishing /\ draft[c].kind \in Kinds
    BY <1>0, <1>4 DEF Republish, ReadGroup, ReplaceAddressable, DeleteOlder, Insert, Republishing, Drafting
  <2>4. \/ step'[c] = "idle"
        \/ /\ step'[c] \in Republishing /\ draft'[c].kind \in Kinds
           /\ step'[c] # "read" => draft'[c].at \in 0..LastSecond
    <3>1. CASE ReadGroup(c)
      <4>1. now \in 0..LastSecond
        BY DEF Types, TypeOK
      <4> QED
        BY <1>0, <2>3, <3>1, <4>1 DEF ReadGroup, End, Republishing
    <3>2. CASE ReplaceAddressable(c) \/ DeleteOlder(c)
      <4>1. draft[c].at \in 0..LastSecond
        BY <3>2 DEF ReplaceAddressable, DeleteOlder, Drafting, Republishing
      <4> QED
        BY <1>0, <2>3, <3>2, <4>1 DEF ReplaceAddressable, DeleteOlder, Goes, Republishing
    <3>3. CASE Insert(c)
      <4>1. draft[c].kind # 39002 => draft[c].kind + 1 \in Kinds
        BY <2>3 DEF Kinds
      <4> QED
        BY <1>0, <2>3, <3>3, <4>1 DEF Insert, End, Unread, Republishing
    <3> QED
      BY <1>4, <3>1, <3>2, <3>3 DEF Republish
  <2> QED
    BY <2>1, <2>2, <2>4 DEF Drafting, Changing, Republishing
<1>5. CASE Restart
  BY <1>5 DEF Restart, Drafting, Changing, Republishing
<1> QED
  BY <1>1, <1>2, <1>3, <1>4, <1>5 DEF Next, Tick, vars, taskVars

\* Nothing else moves while an operation is alone, so what it has made current stays so.
LEMMA DataSame ==
  ASSUME UNCHANGED groupVars, NEW k \in Kinds
  PROVE  Data(k)' = Data(k)
BY DEF Data, groupVars

LEMMA VersionIsSomething ==
  ASSUME TypeOK, NEW k \in Kinds, NEW at \in 0..LastSecond
  PROVE  Nothing # [at |-> at, data |-> Data(k)]
<1>1. /\ Data(39000) \in (Names \cup {Nothing}) \X BOOLEAN
      /\ \E users \in SUBSET Users : Data(39001) = <<users>>
      /\ \E users \in SUBSET Users : Data(39002) = <<users>>
  BY DEF Data, TypeOK
<1>2. \/ Data(k) \in (Names \cup {Nothing}) \X BOOLEAN
      \/ \E users \in SUBSET Users : Data(k) = <<users>>
  BY <1>1 DEF Kinds
<1> QED
  BY <1>2, GroupAssumption

LEMMA CurrentKept ==
  ASSUME UNCHANGED groupVars, NEW k \in Kinds, published'[k] = published[k], Current(k)
  PROVE  Current(k)'
BY DataSame DEF Current

LEMMA ProgressStep == Types /\ Drafting /\ Overlap /\ Progress /\ [Next]_vars => Progress'
<1> SUFFICES ASSUME Types, Drafting, Overlap, Progress, [Next]_vars,
                    NEW a \in alone', step'[a] \in Republishing PROVE Done(a)'
  BY DEF Progress
<1>0. /\ step \in [Conns -> {"idle"} \cup Changing \cup Republishing] /\ DOMAIN draft = Conns
      /\ DOMAIN published = Kinds /\ alone \subseteq Conns
  BY DEF Types, TaskTypes, Drafting
<1>a. a \in Conns
  BY TypesStep DEF Types, TaskTypes
<1>k. \A k \in Kinds : ~(k < 39000)
  BY DEF Kinds
<1>1. CASE UNCHANGED <<groupVars, published, step, draft, alone>>
  <2>1. step[a] \in Republishing /\ Done(a)
    BY <1>1 DEF Progress
  <2>2. \A k \in Kinds : Data(k)' = Data(k) /\ (Current(k) => Current(k)')
    BY <1>1, DataSame, CurrentKept
  <2> QED
    BY <1>1, <2>1, <2>2 DEF Done
<1>2. ASSUME NEW c \in Conns, NEW o \in Ops, Begin(c, o) PROVE Done(a)'
  <2>1. a = c /\ draft'[a] = Unread(39000) /\ step'[a] \in {"read", "change"}
    BY <1>0, <1>2 DEF Begin
  <2>2. draft'[a].kind = 39000 /\ step'[a] = "read"
    BY <2>1 DEF Unread, Republishing
  <2> QED
    BY <2>2, <1>k DEF Done
<1>3. ASSUME NEW c \in Conns, Change(c) PROVE Done(a)'
  <2>1. step[c] \in Changing /\ (step'[c] # "idle" => draft' = draft)
        /\ step'[c] \in {"idle", "read", "roles", "flags"}
    BY <1>0, <1>3 DEF Change, AddMember, RemoveMember, RemoveRoles, EditMetadata, CreateGroup,
       SetGroupFlags, DeleteGroup, Changed, End, Changing
  <2>2. a \in alone /\ c \in Busy /\ step'[a] # "idle"
    BY <1>0, <1>3, StepShape DEF Busy, Republishing
  <2>3. a = c
    BY <2>2 DEF Overlap
  <2>4. draft'[a].kind = 39000 /\ step'[a] = "read"
    BY <2>1, <2>2, <2>3 DEF Drafting, Republishing
  <2> QED
    BY <2>4, <1>k DEF Done
<1>4. ASSUME NEW c \in Conns, Republish(c) PROVE Done(a)'
  <2>1. a \in alone /\ c \in Busy /\ step'[a] # "idle" /\ UNCHANGED groupVars
    <3> QED
      BY <1>0, <1>4, RepublishLeaves, StepShape DEF Busy, Republishing
  <2>2. a = c
    BY <2>1 DEF Overlap
  <2>3. step[a] \in Republishing
    BY <1>4, <2>2 DEF Republish, ReadGroup, ReplaceAddressable, DeleteOlder, Insert, Republishing
  <2>4. Done(a) /\ draft[a].kind \in Kinds
    BY <2>1, <2>3, <1>a DEF Progress, Drafting
  <2>k. \A k \in Kinds : Data(k)' = Data(k) /\ (Current(k) /\ published'[k] = published[k] => Current(k)')
    BY <2>1, DataSame, CurrentKept
  <2>5. CASE ReadGroup(a)
    <3>1. draft'[a].kind = draft[a].kind /\ draft'[a].data = Data(draft[a].kind) /\ step'[a] = "replace"
          /\ published' = published
      BY <1>0, <1>a, <2>1, <2>5 DEF ReadGroup, End
    <3> QED
      BY <2>1, <2>4, <2>k, <3>1 DEF Done
  <2>6. CASE ReplaceAddressable(a)
    <3>1. draft' = draft /\ published' = [published EXCEPT ![draft[a].kind] = Nothing] /\ step[a] = "replace"
          /\ step'[a] = "older"
      BY <1>0, <1>a, <2>6 DEF ReplaceAddressable, Goes
    <3>2. \A k \in Kinds : k < draft[a].kind => published'[k] = published[k]
      BY <1>0, <2>4, <3>1 DEF Kinds
    <3> QED
      BY <1>0, <2>4, <2>k, <3>1, <3>2 DEF Done
  <2>7. CASE DeleteOlder(a)
    <3>1. draft' = draft /\ published' = published /\ step[a] = "older" /\ step'[a] = "insert"
      BY <1>0, <1>a, <2>4, <2>7 DEF DeleteOlder, Goes, WithoutOlder, Done
    <3> QED
      BY <2>4, <2>k, <3>1 DEF Done
  <2>8. CASE Insert(a)
    <3>1. /\ draft[a].kind # 39002 /\ draft'[a].kind = draft[a].kind + 1 /\ step'[a] = "read"
          /\ step[a] = "insert"
      BY <1>0, <1>a, <2>1, <2>8 DEF Insert, End, Unread
    <3>2. published' = [published EXCEPT ![draft[a].kind] = [at |-> draft[a].at, data |-> draft[a].data]]
      BY <2>4, <2>8, <3>1 DEF Insert, Done
    <3>3. ASSUME NEW k \in Kinds, k < draft'[a].kind PROVE Current(k)'
      <4>1. CASE k < draft[a].kind
        <5>1. Current(k) /\ published'[k] = published[k]
          BY <1>0, <2>4, <3>2, <4>1 DEF Done, Kinds
        <5> QED
          BY <2>k, <5>1
      <4>2. CASE k = draft[a].kind
        <5>1. published'[k] = [at |-> draft[a].at, data |-> Data(k)]
          BY <1>0, <2>4, <3>1, <3>2, <4>2 DEF Done
        <5>2. published'[k] # Nothing
          BY <1>a, <2>3, <3>1, <5>1, VersionIsSomething DEF Types, Drafting
        <5> QED
          BY <2>k, <5>1, <5>2 DEF Current
      <4> QED
        BY <2>4, <3>1, <3>3, <4>1, <4>2 DEF Kinds
    <3> QED
      BY <3>1, <3>3 DEF Done
  <2> QED
    BY <1>4, <2>2, <2>5, <2>6, <2>7, <2>8 DEF Republish
<1>5. CASE Restart
  BY <1>5 DEF Restart
<1> QED
  BY <1>1, <1>2, <1>3, <1>4, <1>5 DEF Next, Tick, vars, taskVars, historyVars

LEMMA PublishedStep ==
  Types /\ Drafting /\ Overlap /\ Progress /\ PublishedIsGroup /\ [Next]_vars => PublishedIsGroup'
<1> SUFFICES ASSUME Types, Drafting, Overlap, Progress, PublishedIsGroup, [Next]_vars,
                    Busy' = {}, fresh', exists', NEW k \in Kinds PROVE Current(k)'
  BY DEF PublishedIsGroup, Current
<1>0. /\ step \in [Conns -> {"idle"} \cup Changing \cup Republishing] /\ DOMAIN draft = Conns
      /\ DOMAIN published = Kinds /\ alone \subseteq Conns
  BY DEF Types, TaskTypes, Drafting
<1>1. ASSUME Busy = {}, fresh, UNCHANGED <<groupVars, published>> PROVE Current(k)'
  <2>1. Current(k)
    BY <1>1 DEF PublishedIsGroup, Current, groupVars
  <2> QED
    BY <1>1, <2>1, CurrentKept
<1>2. ASSUME NEW c \in Conns, NEW o \in Ops, Begin(c, o) PROVE FALSE
  BY <1>0, <1>2 DEF Begin, Busy
<1>3. ASSUME NEW c \in Conns, Change(c) PROVE FALSE
  BY <1>3, FreshFalls
<1>4. ASSUME NEW c \in Conns, Republish(c) PROVE Current(k)'
  <2>1. step'[c] = "idle" /\ c \in Busy
    BY <1>0, <1>4, StepShape DEF Busy
  <2>2. Insert(c) /\ UNCHANGED groupVars
    <3>1. UNCHANGED groupVars
      BY <1>4, RepublishLeaves
    <3>2. ~ReadGroup(c)
      <4>1. exists
        BY <3>1 DEF groupVars
      <4>2. ASSUME ReadGroup(c) PROVE step' = [step EXCEPT ![c] = "replace"]
        BY <4>1, <4>2 DEF ReadGroup
      <4> QED
        BY <1>0, <2>1, <4>2
    <3>3. ~ReplaceAddressable(c) /\ ~DeleteOlder(c)
      BY <1>0, <2>1 DEF ReplaceAddressable, DeleteOlder, Goes
    <3> QED
      BY <1>4, <3>1, <3>2, <3>3 DEF Republish
  <2>3. draft[c].kind = 39002 /\ step[c] = "insert" /\ step[c] \in Republishing
    <3>1. step[c] = "insert"
      BY <2>2 DEF Insert
    <3>2. draft[c].kind # 39002 => step' = [step EXCEPT ![c] = "read"]
      BY <2>2 DEF Insert
    <3> QED
      BY <1>0, <2>1, <3>1, <3>2 DEF Republishing
  <2>4. c \in alone
    <3>1. fresh => Busy = alone
      BY DEF Overlap
    <3>2. fresh \/ c \in alone
      BY <1>4, FreshMoves
    <3> QED
      BY <2>1, <3>1, <3>2
  <2>5. Done(c)
    BY <2>3, <2>4 DEF Progress
  <2>6. published' = [published EXCEPT ![39002] = [at |-> draft[c].at, data |-> draft[c].data]]
        /\ draft[c].data = Data(39002)
    <3>1. published[39002] = Nothing /\ 39002 \in Kinds
      BY <2>3, <2>5 DEF Done, Kinds
    <3>2. published' = [published EXCEPT ![39002] = [at |-> draft[c].at, data |-> draft[c].data]]
      BY <2>2, <2>3, <3>1 DEF Insert
    <3>3. draft[c].data = Data(39002)
      BY <2>3, <2>5, <3>1 DEF Done
    <3> QED
      BY <3>2, <3>3
  <2>7. CASE k = 39002
    <3>1. published'[k] = [at |-> draft[c].at, data |-> Data(k)]
      BY <1>0, <2>6, <2>7
    <3>2. published'[k] # Nothing /\ Data(k)' = Data(k)
      BY <2>2, <2>3, <3>1, DataSame, VersionIsSomething DEF Types, Drafting, Republishing
    <3> QED
      BY <3>1, <3>2 DEF Current
  <2>8. CASE k # 39002
    <3>1. k < draft[c].kind /\ published'[k] = published[k]
      BY <1>0, <2>3, <2>6, <2>8 DEF Kinds
    <3> QED
      BY <2>2, <2>5, <3>1, CurrentKept DEF Done
  <2> QED
    BY <2>7, <2>8
<1>5. CASE Restart
  BY <1>1, <1>5 DEF Restart
<1>6. CASE Tick \/ UNCHANGED vars
  BY <1>1, <1>6 DEF Tick, vars, taskVars, historyVars, Busy
<1> QED
  BY <1>2, <1>3, <1>4, <1>5, <1>6 DEF Next

-----------------------------------------------------------------------------
LEMMA InitInv == Init => Types /\ AdminsAreMembers /\ Drafting /\ Overlap /\ Progress /\ PublishedIsGroup
<1> SUFFICES ASSUME Init
             PROVE  Types /\ AdminsAreMembers /\ Drafting /\ Overlap /\ Progress /\ PublishedIsGroup
  OBVIOUS
<1>1. Types
  <2>1. TypeOK
    <3>1. now \in 0..LastSecond
      BY DEF Init
    <3>2. \A c \in Conns : step[c] \notin {"change", "roles", "flags"}
      BY DEF Init
    <3> QED
      BY <3>1, <3>2 DEF Init, TypeOK
  <2>2. TaskTypes
    BY DEF Init, TaskTypes
  <2> QED
    BY <2>1, <2>2 DEF Types
<1>2. AdminsAreMembers /\ Progress /\ PublishedIsGroup
  BY DEF Init, AdminsAreMembers, Progress, PublishedIsGroup
<1>3. Drafting /\ Overlap
  BY DEF Init, Drafting, Overlap, Busy, Changing, Republishing
<1> QED
  BY <1>1, <1>2, <1>3

LEMMA TypesInvariant == Spec => []Types
BY InitInv, TypesStep, PTL DEF Spec

\* The group's row, members and roles keep their types, and a group that is gone has left
\* none of them behind, whoever was adding one when it was deleted (the foreign keys of
\* relay.group_members and relay.group_roles).
THEOREM TypeInvariant == Spec => []TypeOK
<1>1. Types => TypeOK
  BY DEF Types
<1> QED
  BY <1>1, TypesInvariant, PTL

\* Whoever has a role is a member, unless the second half of a removal is still to come or
\* was cut off by a restart (remove_member, create_group).
THEOREM AdminsAreMembersInvariant == Spec => []AdminsAreMembers
BY InitInv, AdminsStep, TypesInvariant, PTL DEF Spec

\* After an operation that nothing overlapped, the three events say what the group is
\* (publish_group_metadata, replace_addressable).
THEOREM PublishedIsGroupInvariant == Spec => []PublishedIsGroup
BY InitInv, TypesInvariant, DraftingStep, OverlapStep, ProgressStep, PublishedStep, PTL DEF Spec
=============================================================================
