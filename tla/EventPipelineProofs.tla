------------------------- MODULE EventPipelineProofs -------------------------
(***************************************************************************)
(* Proofs about EventPipeline for any events, tags, authors, moderators and *)
(* caps: the types, and that what its author deleted is not shown again,    *)
(* that nobody else makes a message disappear, and that what the            *)
(* deduplicator drops has had its effect.                                   *)
(***************************************************************************)
EXTENDS EventPipeline, FiniteSetTheorems, SequenceTheorems, WellFoundedInduction, TLAPS

-----------------------------------------------------------------------------
\* The events that are shown as messages, and those that delete.
Messages == {e \in Events : Kind[e] \in {"note", "chat"}}

\* What a pending table may hold.
Ids      == UNION {Range(Tags[e]) : e \in Events}
Users    == {Author[e] : e \in Events}
Requests == [target : Ids, by : SUBSET Users]
Table(p) ==
  /\ p \in Seq(Requests) /\ Len(p) <= PendingCap
  /\ \A i, j \in DOMAIN p : p[i].target = p[j].target => i = j

Keys(p)        == {p[i].target : i \in DOMAIN p}
Asks(p, id, a) == \E i \in DOMAIN p : p[i].target = id /\ a \in p[i].by

\* A listed id is that of an event in the store, or of one that was deleted.
FeedsKnown == feeds \subseteq Listed(entities \cup hidden \cup deletedNotes)

Typed ==
  /\ seen \subseteq Events /\ decrypting \subseteq Private
  /\ verifying \subseteq Events /\ IsFiniteSet(verifying) /\ Cardinality(verifying) <= InFlight
  /\ buf \subseteq Events /\ entities \subseteq Events /\ FeedsKnown
  /\ deletedAddr \in [Tracks -> Nat \cup {-1}] /\ tracks \subseteq Tracks
  /\ \A e \in deletedNotes : Kind[e] = "note"
  /\ Table(pending)
  /\ persisted \subseteq Deletions /\ IsFiniteSet(persisted)
  /\ applied \subseteq Events /\ spaceKnown \in BOOLEAN

\* Whoever is entered in the table has asked.
Asked ==
  \A id \in Ids, a \in Users : Asks(pending, id, a) =>
    \E d \in applied \cap Deletions : Author[d] = a /\ id \in Range(Tags[d])

\* A kind:5 that names the author's own track.
Unnames(d, t) == t \in AddrTags[d] /\ Author[d] = Author[t]

\* The time kept for a track is that of the latest kind:5 that names it, and a
\* public track in the store is newer.
Addressed ==
  /\ \A d \in applied \cap Deletions : \A t \in Tracks : Unnames(d, t) => CreatedAt[d] <= deletedAddr[t]
  /\ \A t \in Tracks : deletedAddr[t] = -1
       \/ \E d \in applied \cap Deletions : Unnames(d, t) /\ CreatedAt[d] = deletedAddr[t]
  /\ \A t \in tracks \ Private : deletedAddr[t] < CreatedAt[t]

\* A message whose author deleted it is remembered, or was pushed out.
Remembered ==
  \A e \in Messages : Disowned(e) =>
    e \in forgotten \/ e \in hidden \/ e \in deletedNotes \/ PendingAuthorized(e)

\* A message in the store is neither waited for nor deleted.
Absent ==
  \A e \in Messages : e \in entities \cup buf => e \notin Keys(pending) /\ e \notin deletedNotes

\* What is marked seen, and neither with the worker nor applied, is stored or was
\* deleted with right.
Accounted ==
  \A e \in seen : 
    \/ e \in verifying \/ e \in applied
    \/ Kind[e] \notin {"deletion", "modDelete"} /\
         (e \in entities \cup buf \/ Disowned(e) \/ ModDeleted(e))

Inv == Typed /\ Asked /\ NoCensorship /\ Addressed /\ Remembered /\ Absent /\ Accounted

-----------------------------------------------------------------------------
\* The operations on a table of requests.

\* A list of some entries of a table, none of them twice, is a table.
LEMMA TableOfSome ==
  ASSUME NEW p, Table(p), NEW q \in Seq(Requests), Len(q) <= Len(p),
         NEW g \in [1 .. Len(q) -> 1 .. Len(p)],
         \A i, j \in 1 .. Len(q) : g[i] = g[j] => i = j,
         \A i \in 1 .. Len(q) : q[i] = p[g[i]]
  PROVE  /\ Table(q)
         /\ Keys(q) \subseteq Keys(p)
         /\ \A id, a : Asks(q, id, a) => Asks(p, id, a)
<1>1. PendingCap \in Nat /\ Len(p) \in Nat /\ Len(q) \in Nat
      /\ DOMAIN p = 1 .. Len(p) /\ DOMAIN q = 1 .. Len(q) /\ Len(p) <= PendingCap
  BY PipelineAssumption, LenProperties DEF Table
<1>2. Len(q) <= PendingCap
  BY <1>1
<1>3. \A i, j \in DOMAIN q : q[i].target = q[j].target => i = j
  BY <1>1 DEF Table
<1>4. \A i \in DOMAIN q : \E k \in DOMAIN p : q[i] = p[k]
  BY <1>1
<1> QED
  BY <1>2, <1>3, <1>4 DEF Table, Keys, Asks

\* A list without its i-th entry.
LEMMA RemovedAt ==
  ASSUME NEW S, NEW p \in Seq(S), NEW i \in 1 .. Len(p)
  PROVE  /\ RemoveAt(p, i) \in Seq(S) /\ Len(RemoveAt(p, i)) = Len(p) - 1
         /\ \A j \in 1 .. Len(p) - 1 : RemoveAt(p, i)[j] = IF j < i THEN p[j] ELSE p[j + 1]
<1>1. Len(p) \in Nat /\ \A j \in 1 .. Len(p) : p[j] \in S
  BY LenProperties
<1> DEFINE a == SubSeq(p, 1, i - 1)
           b == SubSeq(p, i + 1, Len(p))
<1>2. a \in Seq(S) /\ Len(a) = i - 1 /\ \A j \in 1 .. i - 1 : a[j] = p[j]
  BY <1>1, SubSeqProperties
<1>3. b \in Seq(S) /\ Len(b) = Len(p) - i /\ \A j \in 1 .. Len(p) - i : b[j] = p[i + j]
  BY <1>1, SubSeqProperties
<1>4. RemoveAt(p, i) = a \o b
  BY DEF RemoveAt
<1> HIDE DEF a, b
<1>5. /\ a \o b \in Seq(S) /\ Len(a \o b) = Len(a) + Len(b)
      /\ \A j \in 1 .. Len(a) + Len(b) : (a \o b)[j] = IF j <= Len(a) THEN a[j] ELSE b[j - Len(a)]
  BY <1>2, <1>3, ConcatProperties
<1>6. ASSUME NEW j \in 1 .. Len(p) - 1
      PROVE  (a \o b)[j] = IF j < i THEN p[j] ELSE p[j + 1]
  <2>1. CASE j < i
    BY <1>1, <1>2, <1>3, <1>5, <2>1
  <2>2. CASE ~(j < i)
    <3>1. j \in 1 .. Len(a) + Len(b) /\ ~(j <= Len(a)) /\ j - Len(a) = j - (i - 1)
          /\ j - (i - 1) \in 1 .. Len(p) - i /\ i + (j - (i - 1)) = j + 1
      BY <1>1, <1>2, <1>3, <2>2
    <3> QED
      BY <1>3, <1>5, <2>2, <3>1
  <2> QED
    BY <2>1, <2>2
<1> QED
  BY <1>1, <1>2, <1>3, <1>4, <1>5, <1>6

\* What clearPendingDeletion leaves.
LEMMA WithoutPendingTable ==
  ASSUME Table(pending), NEW e
  PROVE  /\ Table(WithoutPending(e))
         /\ Keys(WithoutPending(e)) \subseteq Keys(pending) \ {e}
         /\ \A id, a : Asks(WithoutPending(e), id, a) => Asks(pending, id, a)
         /\ \A id, a : id # e /\ Asks(pending, id, a) => Asks(WithoutPending(e), id, a)
<1> DEFINE at == {i \in DOMAIN pending : pending[i].target = e}
<1>1. Len(pending) \in Nat /\ DOMAIN pending = 1 .. Len(pending) /\ pending \in Seq(Requests)
  BY LenProperties DEF Table
<1>2. CASE at = {}
  <2>1. WithoutPending(e) = pending
    BY <1>2 DEF WithoutPending
  <2> QED
    BY <1>2, <2>1 DEF Keys
<1>3. CASE at # {}
  <2> DEFINE i == CHOOSE i \in at : TRUE
             q == RemoveAt(pending, i)
             g == [j \in 1 .. Len(pending) - 1 |-> IF j < i THEN j ELSE j + 1]
  <2>1. WithoutPending(e) = q
    BY <1>3 DEF WithoutPending
  <2>2. i \in 1 .. Len(pending) /\ pending[i].target = e
    BY <1>1, <1>3
  <2> HIDE DEF i, q
  <2>3. /\ q \in Seq(Requests) /\ Len(q) = Len(pending) - 1
        /\ \A j \in 1 .. Len(pending) - 1 : q[j] = IF j < i THEN pending[j] ELSE pending[j + 1]
    BY <1>1, <2>2, RemovedAt DEF q
  <2>4. g \in [1 .. Len(q) -> 1 .. Len(pending)]
    BY <1>1, <2>2, <2>3
  <2>5. \A j, k \in 1 .. Len(q) : g[j] = g[k] => j = k
    BY <1>1, <2>2, <2>3
  <2>6. \A j \in 1 .. Len(q) : q[j] = pending[g[j]] /\ g[j] # i
    BY <1>1, <2>2, <2>3
  <2>7. Len(q) <= Len(pending) /\ DOMAIN q = 1 .. Len(q)
    BY <1>1, <2>3, LenProperties
  <2>8. \A k \in 1 .. Len(pending) : k = i \/ \E j \in 1 .. Len(q) : g[j] = k
    <3> SUFFICES ASSUME NEW k \in 1 .. Len(pending), k # i
                 PROVE  \E j \in 1 .. Len(q) : g[j] = k
      OBVIOUS
    <3>1. CASE k < i
      <4>1. k \in 1 .. Len(q) /\ g[k] = k
        BY <1>1, <2>2, <2>3, <3>1
      <4> QED
        BY <4>1
    <3>2. CASE k > i
      <4>1. k - 1 \in 1 .. Len(q) /\ g[k - 1] = k
        BY <1>1, <2>2, <2>3, <3>2
      <4> QED
        BY <4>1
    <3>3. k < i \/ k > i
      BY <1>1, <2>2
    <3> QED
      BY <3>1, <3>2, <3>3
  <2> HIDE DEF g
  <2>9. Table(q) /\ Keys(q) \subseteq Keys(pending) /\ \A id, a : Asks(q, id, a) => Asks(pending, id, a)
    <3>1. \A j \in 1 .. Len(q) : q[j] = pending[g[j]]
      BY <2>6
    <3>2. q \in Seq(Requests) /\ Len(q) <= Len(pending)
      BY <2>3, <2>7
    <3> QED
      BY ONLY Table(pending), <2>4, <2>5, <3>1, <3>2, TableOfSome
  <2>10. e \notin Keys(q)
    <3> SUFFICES ASSUME NEW j \in 1 .. Len(q), q[j].target = e PROVE FALSE
      BY <2>7 DEF Keys
    <3>1. g[j] \in 1 .. Len(pending) /\ g[j] # i /\ pending[g[j]].target = e
      BY <2>4, <2>6
    <3> QED
      BY <1>1, <2>2, <3>1 DEF Table
  <2>11. ASSUME NEW id, NEW a, id # e, Asks(pending, id, a) PROVE Asks(q, id, a)
    <3>1. PICK k \in 1 .. Len(pending) : pending[k].target = id /\ a \in pending[k].by
      BY <1>1, <2>11 DEF Asks
    <3>2. PICK j \in 1 .. Len(q) : g[j] = k
      BY <2>2, <2>8, <2>11, <3>1
    <3> QED
      BY <2>6, <2>7, <3>1, <3>2 DEF Asks
  <2> QED
    BY <2>1, <2>9, <2>10, <2>11
<1> QED
  BY <1>2, <1>3

\* A request for an id the table does not hold, when there is room.
LEMMA TableAppended ==
  ASSUME NEW p, Table(p), Len(p) < PendingCap, NEW r \in Requests, r.target \notin Keys(p)
  PROVE  /\ Table(Append(p, r))
         /\ Keys(Append(p, r)) \subseteq Keys(p) \cup {r.target}
         /\ \A id, a : Asks(Append(p, r), id, a) => Asks(p, id, a) \/ (id = r.target /\ a \in r.by)
         /\ \A id, a : Asks(p, id, a) => Asks(Append(p, r), id, a)
         /\ \A a \in r.by : Asks(Append(p, r), r.target, a)
<1> DEFINE q == Append(p, r)
<1>1. PendingCap \in Nat /\ Len(p) \in Nat /\ DOMAIN p = 1 .. Len(p) /\ p \in Seq(Requests)
  BY PipelineAssumption, LenProperties DEF Table
<1>2. /\ q \in Seq(Requests) /\ Len(q) = Len(p) + 1
      /\ \A i \in 1 .. Len(p) : q[i] = p[i]
      /\ q[Len(p) + 1] = r
  BY <1>1, AppendProperties
<1> HIDE DEF q
<1>3. DOMAIN q = 1 .. Len(p) + 1
  BY <1>2, LenProperties
<1>4. \A i \in DOMAIN q : i \in DOMAIN p \/ i = Len(p) + 1
  BY <1>1, <1>3
<1>5. \A i \in DOMAIN p : i \in DOMAIN q /\ q[i] = p[i]
  BY <1>1, <1>2, <1>3
<1>6. Len(p) + 1 \in DOMAIN q
  BY <1>1, <1>3
<1>7. \A i, j \in DOMAIN q : q[i].target = q[j].target => i = j
  <2> SUFFICES ASSUME NEW i \in DOMAIN q, NEW j \in DOMAIN q, q[i].target = q[j].target
               PROVE  i = j
    OBVIOUS
  <2>1. \A k \in DOMAIN p : p[k].target # r.target
    BY DEF Keys
  <2> QED
    BY <1>2, <1>4, <1>5, <2>1 DEF Table
<1>8. Len(q) <= PendingCap
  BY <1>1, <1>2
<1>9. Table(q)
  BY <1>2, <1>7, <1>8 DEF Table
<1>10. Keys(q) \subseteq Keys(p) \cup {r.target}
  BY <1>2, <1>4, <1>5 DEF Keys
<1>11. \A id, a : Asks(q, id, a) => Asks(p, id, a) \/ (id = r.target /\ a \in r.by)
  BY <1>2, <1>4, <1>5 DEF Asks
<1>12. \A id, a : Asks(p, id, a) => Asks(q, id, a)
  BY <1>5 DEF Asks
<1>13. \A a \in r.by : Asks(q, r.target, a)
  BY <1>2, <1>6 DEF Asks
<1> QED
  BY <1>9, <1>10, <1>11, <1>12, <1>13 DEF q

\* A table without its oldest entry.
LEMMA TableTail ==
  ASSUME NEW p, Table(p), p # << >>
  PROVE  /\ Table(Tail(p)) /\ Len(Tail(p)) = Len(p) - 1
         /\ Keys(Tail(p)) \subseteq Keys(p)
         /\ \A id, a : Asks(Tail(p), id, a) => Asks(p, id, a)
         /\ \A id, a : Asks(p, id, a) => Asks(Tail(p), id, a) \/ id = p[1].target
<1> DEFINE q == Tail(p)
           g == [i \in 1 .. Len(p) - 1 |-> i + 1]
<1>1. Len(p) \in Nat /\ DOMAIN p = 1 .. Len(p) /\ p \in Seq(Requests)
  BY LenProperties DEF Table
<1>2. q \in Seq(Requests) /\ Len(q) = Len(p) - 1 /\ \A i \in 1 .. Len(q) : q[i] = p[i + 1]
  BY <1>1, HeadTailProperties
<1> HIDE DEF q
<1>3. Len(q) \in Nat /\ DOMAIN q = 1 .. Len(q) /\ Len(q) <= Len(p)
  BY <1>1, <1>2, LenProperties
<1>4. g \in [1 .. Len(q) -> 1 .. Len(p)]
  BY <1>1, <1>2
<1>5. \A i, j \in 1 .. Len(q) : g[i] = g[j] => i = j
  BY <1>2
<1>6. \A i \in 1 .. Len(q) : q[i] = p[g[i]]
  BY <1>2
<1>7. \A k \in DOMAIN p : k = 1 \/ \E j \in DOMAIN q : q[j] = p[k]
  <2> SUFFICES ASSUME NEW k \in 1 .. Len(p), k # 1
               PROVE  \E j \in DOMAIN q : q[j] = p[k]
    BY <1>1
  <2>1. k - 1 \in DOMAIN q /\ q[k - 1] = p[k]
    BY <1>1, <1>2, <1>3
  <2> QED
    BY <2>1
<1> HIDE DEF g
<1>8. /\ Table(q) /\ Keys(q) \subseteq Keys(p)
      /\ \A id, a : Asks(q, id, a) => Asks(p, id, a)
  <2>1. q \in Seq(Requests) /\ Len(q) <= Len(p)
    BY <1>2, <1>3
  <2> QED
    BY ONLY Table(p), <1>4, <1>5, <1>6, <2>1, TableOfSome
<1>9. \A id, a : Asks(p, id, a) => Asks(q, id, a) \/ id = p[1].target
  BY <1>7 DEF Asks
<1> QED
  BY <1>2, <1>8, <1>9 DEF q

\* One more who asks for an id the table holds.
LEMMA TableJoined ==
  ASSUME NEW p, Table(p), NEW t \in Keys(p), NEW by \in Users,
         NEW q, q = [i \in DOMAIN p |->
           IF p[i].target = t THEN [p[i] EXCEPT !.by = p[i].by \cup {by}] ELSE p[i]]
  PROVE  /\ Table(q)
         /\ Keys(q) = Keys(p)
         /\ \A id, a : Asks(q, id, a) => Asks(p, id, a) \/ (id = t /\ a = by)
         /\ \A id, a : Asks(p, id, a) => Asks(q, id, a)
         /\ Asks(q, t, by)
<1>1. Len(p) \in Nat /\ DOMAIN p = 1 .. Len(p) /\ p \in Seq(Requests)
      /\ \A i \in DOMAIN p : p[i] \in Requests
  BY LenProperties DEF Table
<1>2. DOMAIN q = DOMAIN p
  OBVIOUS
<1>3. ASSUME NEW i \in DOMAIN p
      PROVE  /\ q[i] \in Requests /\ q[i].target = p[i].target
             /\ q[i].by = IF p[i].target = t THEN p[i].by \cup {by} ELSE p[i].by
  BY <1>1 DEF Requests
<1>4. q \in Seq(Requests) /\ Len(q) = Len(p)
  <2>1. q \in [1 .. Len(p) -> Requests]
    BY <1>1, <1>2, <1>3
  <2>2. q \in Seq(Requests)
    BY <1>1, <2>1, SeqDef
  <2>3. Len(q) \in Nat /\ DOMAIN q = 1 .. Len(q)
    BY <2>2, LenProperties
  <2> QED
    BY <1>1, <1>2, <2>2, <2>3
<1>5. Table(q)
  BY <1>1, <1>2, <1>3, <1>4 DEF Table
<1>6. Keys(q) = Keys(p)
  BY <1>2, <1>3 DEF Keys
<1>7. \A id, a : Asks(q, id, a) => Asks(p, id, a) \/ (id = t /\ a = by)
  <2> SUFFICES ASSUME NEW id, NEW a, Asks(q, id, a), ~Asks(p, id, a)
               PROVE  id = t /\ a = by
    OBVIOUS
  <2>1. PICK i \in DOMAIN p : q[i].target = id /\ a \in q[i].by
    BY <1>2 DEF Asks
  <2>2. a \notin p[i].by
    BY <1>3, <2>1 DEF Asks
  <2> QED
    BY <1>3, <2>1, <2>2
<1>8. \A id, a : Asks(p, id, a) => Asks(q, id, a)
  BY <1>2, <1>3 DEF Asks
<1>9. Asks(q, t, by)
  BY <1>2, <1>3 DEF Asks, Keys
<1> QED
  BY <1>5, <1>6, <1>7, <1>8, <1>9

-----------------------------------------------------------------------------
\* The operations on a view.

Fields == {"entities", "feeds", "hidden", "deletedNotes", "deletedAddr", "pending", "tracks",
           "forgotten", "seen"}

\* The fields trackPendingDeletion leaves alone.
SameStore(v, w) ==
  /\ w.entities = v.entities /\ w.feeds = v.feeds /\ w.tracks = v.tracks /\ w.seen = v.seen
  /\ w.hidden = v.hidden /\ w.deletedNotes = v.deletedNotes /\ w.deletedAddr = v.deletedAddr

\* From v to w the requests of v were kept, or pushed out, and none was made up
\* but that of user by for an id in S.
KeepsRequests(v, w, S, by) ==
  /\ Table(w.pending)
  /\ Keys(w.pending) \subseteq Keys(v.pending) \cup S
  /\ v.forgotten \subseteq w.forgotten
  /\ \A id, a : Asks(w.pending, id, a) => Asks(v.pending, id, a) \/ (id \in S /\ a = by)
  /\ \A id, a : Asks(v.pending, id, a) => Asks(w.pending, id, a) \/ id \in w.forgotten

\* A view with another table, and one with another set of forgotten ids as well.
LEMMA WithPending ==
  ASSUME NEW v, DOMAIN v = Fields, NEW p
  PROVE  /\ DOMAIN [v EXCEPT !.pending = p] = Fields
         /\ [v EXCEPT !.pending = p].pending = p
         /\ [v EXCEPT !.pending = p].forgotten = v.forgotten
         /\ SameStore(v, [v EXCEPT !.pending = p])
BY DEF Fields, SameStore

LEMMA WithBoth ==
  ASSUME NEW v, DOMAIN v = Fields, NEW p, NEW f
  PROVE  /\ DOMAIN [v EXCEPT !.pending = p, !.forgotten = f] = Fields
         /\ [v EXCEPT !.pending = p, !.forgotten = f].pending = p
         /\ [v EXCEPT !.pending = p, !.forgotten = f].forgotten = f
         /\ SameStore(v, [v EXCEPT !.pending = p, !.forgotten = f])
BY DEF Fields, SameStore

\* trackPendingDeletion enters the request, and pushes out one at most.
LEMMA TrackPendingView ==
  ASSUME NEW v, DOMAIN v = Fields, Table(v.pending), NEW t \in Ids, NEW by \in Users
  PROVE  /\ DOMAIN TrackPending(v, t, by) = Fields
         /\ SameStore(v, TrackPending(v, t, by))
         /\ KeepsRequests(v, TrackPending(v, t, by), {t}, by)
         /\ Asks(TrackPending(v, t, by).pending, t, by)
<1> DEFINE p == v.pending
           w == TrackPending(v, t, by)
           new == [target |-> t, by |-> {by}]
           joined == [i \in DOMAIN p |->
             IF p[i].target = t THEN [p[i] EXCEPT !.by = p[i].by \cup {by}] ELSE p[i]]
<1>1. new \in Requests /\ new.target = t /\ new.by = {by}
  BY DEF Requests
<1>2. PendingCap \in Nat \ {0} /\ Len(p) \in Nat /\ p \in Seq(Requests) /\ Len(p) <= PendingCap
      /\ DOMAIN p = 1 .. Len(p)
  BY PipelineAssumption, LenProperties DEF Table
<1>3. CASE t \in Keys(p)
  <2>1. w = [v EXCEPT !.pending = joined]
    <3>1. \E i \in DOMAIN v.pending : v.pending[i].target = t
      BY <1>3 DEF Keys
    <3> QED
      BY <3>1, Zenon DEF TrackPending
  <2> DEFINE q == joined
  <2>2. /\ Table(q) /\ Keys(q) = Keys(p)
        /\ \A id, a : Asks(q, id, a) => Asks(p, id, a) \/ (id = t /\ a = by)
        /\ \A id, a : Asks(p, id, a) => Asks(q, id, a)
        /\ Asks(q, t, by)
    BY <1>3, TableJoined
  <2> HIDE DEF w, joined
  <2>3. DOMAIN w = Fields /\ w.pending = q /\ w.forgotten = v.forgotten /\ SameStore(v, w)
    BY <2>1, WithPending
  <2> QED
    BY <2>2, <2>3 DEF KeepsRequests, w
<1>4. CASE t \notin Keys(p) /\ Len(p) < PendingCap
  <2>1. w = [v EXCEPT !.pending = Append(p, new)]
    <3>1. ~(\E i \in DOMAIN v.pending : v.pending[i].target = t)
      BY <1>4 DEF Keys
    <3>2. ~(Len(v.pending) >= PendingCap)
      BY <1>2, <1>4
    <3> QED
      BY <3>1, <3>2, Zenon DEF TrackPending
  <2> DEFINE q == Append(p, new)
  <2>2. /\ Table(q) /\ Keys(q) \subseteq Keys(p) \cup {t}
        /\ \A id, a : Asks(q, id, a) => Asks(p, id, a) \/ (id = t /\ a = by)
        /\ \A id, a : Asks(p, id, a) => Asks(q, id, a)
        /\ Asks(q, t, by)
    <3> HIDE DEF new
    <3>1. /\ Table(q) /\ Keys(q) \subseteq Keys(p) \cup {new.target}
          /\ \A id, a : Asks(q, id, a) => Asks(p, id, a) \/ (id = new.target /\ a \in new.by)
          /\ \A id, a : Asks(p, id, a) => Asks(q, id, a)
          /\ \A a \in new.by : Asks(q, new.target, a)
      BY <1>1, <1>4, TableAppended
    <3> QED
      BY <1>1, <3>1
  <2> HIDE DEF w, q
  <2>3. DOMAIN w = Fields /\ w.pending = q /\ w.forgotten = v.forgotten /\ SameStore(v, w)
    BY <2>1, WithPending DEF q
  <2> QED
    BY <2>2, <2>3 DEF KeepsRequests, w
<1>5. CASE t \notin Keys(p) /\ ~(Len(p) < PendingCap)
  <2> DEFINE q == Append(Tail(p), new)
             f == v.forgotten \cup {p[1].target}
  <2>1. w = [v EXCEPT !.pending = q, !.forgotten = f]
    <3>1. ~(\E i \in DOMAIN v.pending : v.pending[i].target = t)
      BY <1>5 DEF Keys
    <3>2. Len(v.pending) >= PendingCap
      BY <1>2, <1>5
    <3> QED
      BY <3>1, <3>2, Zenon DEF TrackPending
  <2>2. p # << >>
    BY <1>2, <1>5
  <2>3. /\ Table(Tail(p)) /\ Len(Tail(p)) = Len(p) - 1 /\ Keys(Tail(p)) \subseteq Keys(p)
        /\ \A id, a : Asks(Tail(p), id, a) => Asks(p, id, a)
        /\ \A id, a : Asks(p, id, a) => Asks(Tail(p), id, a) \/ id = p[1].target
    BY <2>2, TableTail
  <2>4. /\ Table(q) /\ Keys(q) \subseteq Keys(Tail(p)) \cup {t}
        /\ \A id, a : Asks(q, id, a) => Asks(Tail(p), id, a) \/ (id = t /\ a = by)
        /\ \A id, a : Asks(Tail(p), id, a) => Asks(q, id, a)
        /\ Asks(q, t, by)
    <3> HIDE DEF new
    <3>1. Len(Tail(p)) < PendingCap /\ new.target \notin Keys(Tail(p))
      BY <1>1, <1>2, <1>5, <2>3
    <3>2. /\ Table(q) /\ Keys(q) \subseteq Keys(Tail(p)) \cup {new.target}
          /\ \A id, a : Asks(q, id, a) => Asks(Tail(p), id, a) \/ (id = new.target /\ a \in new.by)
          /\ \A id, a : Asks(Tail(p), id, a) => Asks(q, id, a)
          /\ \A a \in new.by : Asks(q, new.target, a)
      BY <1>1, <2>3, <3>1, TableAppended
    <3> QED
      BY <1>1, <3>2
  <2> HIDE DEF w, q, f
  <2>5. DOMAIN w = Fields /\ w.pending = q /\ w.forgotten = f /\ SameStore(v, w)
    <3>1. /\ DOMAIN [v EXCEPT !.pending = q, !.forgotten = f] = Fields
          /\ [v EXCEPT !.pending = q, !.forgotten = f].pending = q
          /\ [v EXCEPT !.pending = q, !.forgotten = f].forgotten = f
          /\ SameStore(v, [v EXCEPT !.pending = q, !.forgotten = f])
      BY WithBoth, Zenon
    <3> QED
      BY <2>1, <3>1, Zenon
  <2> QED
    BY <2>3, <2>4, <2>5 DEF KeepsRequests, w, f
<1> QED
  BY <1>3, <1>4, <1>5

\* A set of naturals that is not empty has a least element.
LEMMA NatLeast ==
  ASSUME NEW S \in SUBSET Nat, S # {}
  PROVE  \E n \in S : \A m \in S : n <= m
<1>1. PICK x \in S : \A y \in S : ~ (<<y, x>> \in OpToRel(<, Nat))
  BY NatLessThanWellFounded, WFMin
<1>2. \A y \in S : ~ (y < x)
  BY <1>1 DEF OpToRel
<1> QED
  BY <1>2

\* Two steps keep what each of them keeps.
LEMMA KeepsBoth ==
  ASSUME NEW u, NEW v, NEW w, NEW S, NEW T, NEW by,
         KeepsRequests(u, v, S, by), KeepsRequests(v, w, T, by)
  PROVE  KeepsRequests(u, w, S \cup T, by)
BY DEF KeepsRequests

\* One step of the loop over the e-tags: its n-th tag, after the view x.
LoopStep(v, d, n, x) ==
  IF Tags[d][n] \in v.entities THEN x ELSE TrackPending(x, Tags[d][n], Author[d])

\* The loop as a function of the number of tags it has gone through.
IsLoop(v, d, m, f) ==
  f = [n \in 0 .. m |-> IF n = 0 THEN v ELSE LoopStep(v, d, n, f[n - 1])]

LEMMA LoopExists ==
  ASSUME NEW v, NEW d, NEW m \in Nat
  PROVE  \E f : IsLoop(v, d, m, f)
<1> DEFINE Bad == {n \in Nat : ~ \E f : IsLoop(v, d, n, f)}
<1> SUFFICES ASSUME Bad # {} PROVE FALSE
  OBVIOUS
<1>1. PICK n \in Bad : \A k \in Bad : n <= k
  BY NatLeast
<1>2. CASE n = 0
  <2> DEFINE f == [k \in 0 .. 0 |-> v]
  <2>1. f = [k \in 0 .. 0 |-> IF k = 0 THEN v ELSE LoopStep(v, d, k, f[k - 1])]
    <3>1. \A k \in 0 .. 0 : k = 0
      OBVIOUS
    <3> QED
      BY <3>1
  <2>2. IsLoop(v, d, 0, f)
    BY <2>1 DEF IsLoop
  <2> QED
    BY <1>1, <1>2, <2>2
<1>3. CASE n # 0
  <2>1. n \in Nat /\ n - 1 \in Nat /\ n - 1 \notin Bad
    BY <1>1, <1>3
  <2>2. PICK g : IsLoop(v, d, n - 1, g)
    BY <2>1
  <2> DEFINE f == [k \in 0 .. n |-> IF k < n THEN g[k] ELSE LoopStep(v, d, n, g[n - 1])]
  <2>3. \A k \in 0 .. n - 1 : g[k] = IF k = 0 THEN v ELSE LoopStep(v, d, k, g[k - 1])
    BY <2>2 DEF IsLoop
  <2>4. ASSUME NEW k \in 0 .. n
        PROVE  f[k] = IF k = 0 THEN v ELSE LoopStep(v, d, k, f[k - 1])
    <3>1. CASE k = 0
      BY <1>3, <2>1, <2>3, <3>1
    <3>2. CASE k # 0 /\ k < n
      <4>1. k \in 0 .. n - 1 /\ k - 1 \in 0 .. n /\ k - 1 < n
        BY <2>1, <3>2
      <4> QED
        BY <2>3, <3>2, <4>1
    <3>3. CASE k = n
      <4>1. n - 1 \in 0 .. n /\ n - 1 < n /\ ~(k < n)
        BY <2>1, <3>3
      <4> QED
        BY <1>3, <3>3, <4>1
    <3> QED
      BY <2>1, <3>1, <3>2, <3>3
  <2>5. IsLoop(v, d, n, f)
    <3>1. f = [k \in 0 .. n |-> f[k]]
      OBVIOUS
    <3> HIDE DEF f
    <3> QED
      BY <2>4, <3>1 DEF IsLoop
  <2> QED
    BY <1>1, <2>5
<1> QED
  BY <1>2, <1>3

\* TrackUnknown is the end of that loop.
LEMMA TrackUnknownLoop ==
  ASSUME NEW v, NEW d, Len(Tags[d]) \in Nat
  PROVE  \E f : IsLoop(v, d, Len(Tags[d]), f) /\ TrackUnknown(v, d) = f[Len(Tags[d])]
<1> DEFINE L == Len(Tags[d])
           f == CHOOSE f : IsLoop(v, d, L, f)
<1>1. IsLoop(v, d, L, f)
  BY LoopExists
<1>2. TrackUnknown(v, d) = f[L]
  BY Zenon DEF TrackUnknown, IsLoop, LoopStep
<1> QED
  BY <1>1, <1>2

\* The tags of an event.
LEMMA TagsOf ==
  ASSUME NEW d \in Events
  PROVE  /\ Len(Tags[d]) \in Nat
         /\ \A k \in 1 .. Len(Tags[d]) : Tags[d][k] \in Range(Tags[d]) /\ Tags[d][k] \in Ids
         /\ \A id \in Range(Tags[d]) : \E k \in 1 .. Len(Tags[d]) : Tags[d][k] = id
         /\ Range(Tags[d]) \subseteq Ids
         /\ Author[d] \in Users
<1>1. Tags[d] \in Seq(Range(Tags[d]))
  BY PipelineAssumption
<1>2. Len(Tags[d]) \in Nat /\ DOMAIN Tags[d] = 1 .. Len(Tags[d])
  BY <1>1, LenProperties
<1> QED
  BY <1>2 DEF Range, Ids, Users

\* What the loop has done after n tags.
Tracked(v, d, n, w) ==
  /\ DOMAIN w = Fields /\ SameStore(v, w)
  /\ KeepsRequests(v, w, Range(Tags[d]) \ v.entities, Author[d])
  /\ \A k \in 1 .. n : Tags[d][k] \notin v.entities =>
       Asks(w.pending, Tags[d][k], Author[d]) \/ Tags[d][k] \in w.forgotten

LEMMA TrackedStep ==
  ASSUME NEW v, DOMAIN v = Fields, NEW d \in Events, NEW n \in 1 .. Len(Tags[d]),
         NEW x, Tracked(v, d, n - 1, x)
  PROVE  Tracked(v, d, n, LoopStep(v, d, n, x))
<1> DEFINE id == Tags[d][n]
           by == Author[d]
           w == TrackPending(x, id, by)
<1>1. Len(Tags[d]) \in Nat /\ id \in Range(Tags[d]) /\ id \in Ids /\ by \in Users
  BY TagsOf
<1>2. \A k \in 1 .. n : k \in 1 .. n - 1 \/ k = n
  BY <1>1
<1>3. CASE id \in v.entities
  <2>1. LoopStep(v, d, n, x) = x
    BY <1>3 DEF LoopStep
  <2> QED
    BY <1>2, <1>3, <2>1 DEF Tracked
<1>4. CASE id \notin v.entities
  <2>1. LoopStep(v, d, n, x) = w
    BY <1>4 DEF LoopStep
  <2>2. DOMAIN x = Fields /\ SameStore(v, x) /\ Table(x.pending)
        /\ KeepsRequests(v, x, Range(Tags[d]) \ v.entities, by)
    BY DEF Tracked, KeepsRequests
  <2> HIDE DEF w, id, by
  <2>3. /\ DOMAIN w = Fields /\ SameStore(x, w) /\ KeepsRequests(x, w, {id}, by)
        /\ Asks(w.pending, id, by)
    BY <1>1, <2>2, TrackPendingView DEF w
  <2>4. SameStore(v, w)
    BY <2>2, <2>3 DEF SameStore
  <2>5. KeepsRequests(v, w, (Range(Tags[d]) \ v.entities) \cup {id}, by)
    BY <2>2, <2>3, KeepsBoth
  <2>6. (Range(Tags[d]) \ v.entities) \cup {id} = Range(Tags[d]) \ v.entities
    BY <1>1, <1>4
  <2>7. KeepsRequests(v, w, Range(Tags[d]) \ v.entities, by)
    BY <2>5, <2>6
  <2>8. ASSUME NEW k \in 1 .. n, Tags[d][k] \notin v.entities
        PROVE  Asks(w.pending, Tags[d][k], by) \/ Tags[d][k] \in w.forgotten
    <3>1. CASE k = n
      BY <2>3, <3>1 DEF id
    <3>2. CASE k \in 1 .. n - 1
      <4>1. Asks(x.pending, Tags[d][k], by) \/ Tags[d][k] \in x.forgotten
        BY <2>8, <3>2 DEF Tracked, by
      <4> QED
        BY <2>3, <4>1 DEF KeepsRequests
    <3> QED
      BY <1>2, <3>1, <3>2
  <2> QED
    BY <2>1, <2>3, <2>4, <2>7, <2>8 DEF Tracked, by
<1> QED
  BY <1>3, <1>4

\* Every tag that names nothing in the store is tracked, or was pushed out.
LEMMA TrackUnknownView ==
  ASSUME NEW v, DOMAIN v = Fields, Table(v.pending), NEW d \in Events
  PROVE  Tracked(v, d, Len(Tags[d]), TrackUnknown(v, d))
<1> DEFINE L == Len(Tags[d])
<1>1. L \in Nat
  BY TagsOf
<1>2. PICK f : IsLoop(v, d, L, f) /\ TrackUnknown(v, d) = f[L]
  BY <1>1, TrackUnknownLoop
<1>3. \A n \in 0 .. L : f[n] = IF n = 0 THEN v ELSE LoopStep(v, d, n, f[n - 1])
  BY <1>2, Zenon DEF IsLoop
<1> DEFINE Bad == {n \in Nat : n <= L /\ ~Tracked(v, d, n, f[n])}
<1>4. Bad = {}
  <2> SUFFICES ASSUME Bad # {} PROVE FALSE
    OBVIOUS
  <2>1. PICK n \in Bad : \A k \in Bad : n <= k
    BY NatLeast
  <2>2. CASE n = 0
    <3>1. f[0] = v
      BY <1>1, <1>3
    <3>2. Tracked(v, d, 0, v)
      BY DEF Tracked, SameStore, KeepsRequests
    <3> QED
      BY <2>1, <2>2, <3>1, <3>2
  <2>3. CASE n # 0
    <3>1. n \in 1 .. L /\ n - 1 \in Nat /\ n - 1 <= L /\ n - 1 \notin Bad
      BY <1>1, <2>1, <2>3
    <3>2. Tracked(v, d, n - 1, f[n - 1])
      BY <3>1
    <3>3. Tracked(v, d, n, LoopStep(v, d, n, f[n - 1]))
      BY <3>1, <3>2, TrackedStep
    <3>4. f[n] = LoopStep(v, d, n, f[n - 1])
      BY <1>1, <1>3, <2>3, <3>1
    <3> QED
      BY <2>1, <3>3, <3>4
  <2> QED
    BY <2>2, <2>3
<1>5. Tracked(v, d, L, f[L])
  BY <1>1, <1>4
<1> QED
  BY <1>2, <1>5

-----------------------------------------------------------------------------
\* What the other operations do to a view, field by field.

LEMMA ViewFields ==
  /\ DOMAIN View = Fields
  /\ View.entities = entities /\ View.feeds = feeds /\ View.hidden = hidden
  /\ View.deletedNotes = deletedNotes /\ View.deletedAddr = deletedAddr
  /\ View.pending = pending /\ View.tracks = tracks
  /\ View.forgotten = forgotten /\ View.seen = seen
BY DEF View, Fields

\* The fields the sweep and the flush leave alone.
SameRecords(v, w) ==
  /\ w.hidden = v.hidden /\ w.deletedNotes = v.deletedNotes /\ w.deletedAddr = v.deletedAddr
  /\ w.pending = v.pending /\ w.tracks = v.tracks /\ w.forgotten = v.forgotten

LEMMA WithSweep ==
  ASSUME NEW v, DOMAIN v = Fields, NEW X, NEW Y
  PROVE  /\ DOMAIN [v EXCEPT !.entities = X, !.seen = Y] = Fields
         /\ [v EXCEPT !.entities = X, !.seen = Y].entities = X
         /\ [v EXCEPT !.entities = X, !.seen = Y].seen = Y
         /\ [v EXCEPT !.entities = X, !.seen = Y].feeds = v.feeds
         /\ SameRecords(v, [v EXCEPT !.entities = X, !.seen = Y])
BY DEF Fields, SameRecords

LEMMA WithBatch ==
  ASSUME NEW v, DOMAIN v = Fields, NEW X, NEW Y
  PROVE  /\ DOMAIN [v EXCEPT !.entities = X, !.feeds = Y] = Fields
         /\ [v EXCEPT !.entities = X, !.feeds = Y].entities = X
         /\ [v EXCEPT !.entities = X, !.feeds = Y].feeds = Y
         /\ [v EXCEPT !.entities = X, !.feeds = Y].seen = v.seen
         /\ SameRecords(v, [v EXCEPT !.entities = X, !.feeds = Y])
BY DEF Fields, SameRecords

\* What was swept, which nothing lists, is no longer marked seen.
Stored(v, batch, w) ==
  /\ DOMAIN w = Fields /\ SameRecords(v, w)
  /\ w.feeds = v.feeds \cup Listed(batch)
  /\ \E gone \in SUBSET ((v.entities \cup batch) \ w.feeds) :
       w.entities = (v.entities \cup batch) \ gone /\ w.seen = v.seen \ gone

LEMMA FlushedView ==
  ASSUME NEW v, DOMAIN v = Fields, NEW batch, NEW sweeps \in BOOLEAN
  PROVE  Stored(v, batch, Flushed(v, batch, sweeps))
<1> DEFINE X == v.entities \cup batch
           Y == v.feeds \cup Listed(batch)
           w == [v EXCEPT !.entities = X, !.feeds = Y]
<1> HIDE DEF X, Y
<1>1. /\ DOMAIN w = Fields /\ w.entities = X /\ w.feeds = Y /\ w.seen = v.seen
      /\ SameRecords(v, w)
  <2>1. /\ DOMAIN [v EXCEPT !.entities = X, !.feeds = Y] = Fields
        /\ [v EXCEPT !.entities = X, !.feeds = Y].entities = X
        /\ [v EXCEPT !.entities = X, !.feeds = Y].feeds = Y
        /\ [v EXCEPT !.entities = X, !.feeds = Y].seen = v.seen
        /\ SameRecords(v, [v EXCEPT !.entities = X, !.feeds = Y])
    BY WithBatch, Zenon
  <2> QED
    BY <2>1, Zenon
<1>2. Flushed(v, batch, sweeps) = IF sweeps /\ batch # {} THEN Sweep(w) ELSE w
  BY Zenon DEF Flushed, X, Y
<1> HIDE DEF w
<1>3. CASE ~(sweeps /\ batch # {})
  <2>1. Flushed(v, batch, sweeps) = w
    BY <1>2, <1>3
  <2>2. w.entities = X \ {} /\ w.seen = v.seen \ {}
    BY <1>1
  <2> QED
    BY <1>1, <2>1, <2>2 DEF Stored, X, Y
<1>4. CASE sweeps /\ batch # {}
  <2> DEFINE G == Evicted(w)
             z == [w EXCEPT !.entities = w.entities \ G, !.seen = w.seen \ G]
  <2>1. G \subseteq w.entities \ w.feeds
    BY DEF Evicted
  <2>2. Flushed(v, batch, sweeps) = z
    BY <1>2, <1>4, Zenon DEF Sweep
  <2> HIDE DEF G
  <2>3. /\ DOMAIN z = Fields /\ z.entities = w.entities \ G /\ z.seen = w.seen \ G
        /\ z.feeds = w.feeds /\ SameRecords(w, z)
    <3> DEFINE P == w.entities \ G
               Q == w.seen \ G
    <3> HIDE DEF P, Q
    <3>1. /\ DOMAIN [w EXCEPT !.entities = P, !.seen = Q] = Fields
          /\ [w EXCEPT !.entities = P, !.seen = Q].entities = P
          /\ [w EXCEPT !.entities = P, !.seen = Q].seen = Q
          /\ [w EXCEPT !.entities = P, !.seen = Q].feeds = w.feeds
          /\ SameRecords(w, [w EXCEPT !.entities = P, !.seen = Q])
      BY <1>1, WithSweep, Zenon
    <3> QED
      BY <3>1, Zenon DEF P, Q
  <2> HIDE DEF z
  <2>4. SameRecords(v, z)
    BY <1>1, <2>3 DEF SameRecords
  <2> QED
    BY <1>1, <2>1, <2>2, <2>3, <2>4 DEF Stored, X, Y
<1> QED
  BY <1>3, <1>4

LEMMA RemovedView ==
  ASSUME NEW v, DOMAIN v = Fields, NEW S, NEW stay
  PROVE  /\ DOMAIN Removed(v, S, stay) = Fields
         /\ Removed(v, S, stay).entities = v.entities \ S
         /\ Removed(v, S, stay).feeds = v.feeds \ (S \ stay)
         /\ Removed(v, S, stay).hidden = v.hidden \cup {e \in S : Kind[e] = "chat"}
         /\ Removed(v, S, stay).deletedNotes = v.deletedNotes \cup {e \in S : Kind[e] = "note"}
         /\ Removed(v, S, stay).deletedAddr = v.deletedAddr
         /\ Removed(v, S, stay).pending = v.pending
         /\ Removed(v, S, stay).tracks = v.tracks
         /\ Removed(v, S, stay).forgotten = v.forgotten
         /\ Removed(v, S, stay).seen = v.seen
BY DEF Fields, Removed

\* The author's own tracks that a deletion names.
Mine(d) == {t \in AddrTags[d] : Author[t] = Author[d]}

LEMMA DeleteByAddrView ==
  ASSUME NEW v, DOMAIN v = Fields, NEW d
  PROVE  /\ DOMAIN DeleteByAddr(v, d) = Fields
         /\ DeleteByAddr(v, d).deletedAddr =
              [t \in Tracks |-> IF t \in Mine(d) /\ v.deletedAddr[t] < CreatedAt[d]
                                THEN CreatedAt[d] ELSE v.deletedAddr[t]]
         /\ DeleteByAddr(v, d).tracks =
              {t \in v.tracks : ~(t \in Mine(d) /\ CreatedAt[t] <= CreatedAt[d])}
         /\ DeleteByAddr(v, d).entities = v.entities
         /\ DeleteByAddr(v, d).feeds = v.feeds
         /\ DeleteByAddr(v, d).hidden = v.hidden
         /\ DeleteByAddr(v, d).deletedNotes = v.deletedNotes
         /\ DeleteByAddr(v, d).pending = v.pending
         /\ DeleteByAddr(v, d).forgotten = v.forgotten
         /\ DeleteByAddr(v, d).seen = v.seen
BY DEF Fields, DeleteByAddr, Mine

LEMMA ModDeleteView ==
  ASSUME NEW v, DOMAIN v = Fields, NEW o, NEW stay
  PROVE  /\ DOMAIN ModDelete(v, o, stay) = Fields
         /\ ModDelete(v, o, stay).entities = v.entities \ (Range(Tags[o]) \cap v.entities)
         /\ ModDelete(v, o, stay).feeds \subseteq v.feeds
         /\ ModDelete(v, o, stay).hidden = v.hidden \cup (Range(Tags[o]) \cap v.entities)
         /\ ModDelete(v, o, stay).deletedNotes = v.deletedNotes
         /\ ModDelete(v, o, stay).deletedAddr = v.deletedAddr
         /\ ModDelete(v, o, stay).pending = v.pending
         /\ ModDelete(v, o, stay).tracks = v.tracks
         /\ ModDelete(v, o, stay).forgotten = v.forgotten
         /\ ModDelete(v, o, stay).seen = v.seen
BY DEF Fields, ModDelete

\* All of what a kind:5 does to the view v.
Erased(v, d, w) ==
  /\ w.entities = v.entities \ Deletable(v, d)
  /\ w.feeds \subseteq v.feeds
  /\ w.hidden = v.hidden \cup {e \in Deletable(v, d) : Kind[e] = "chat"}
  /\ w.deletedNotes = v.deletedNotes \cup {e \in Deletable(v, d) : Kind[e] = "note"}
  /\ w.seen = v.seen
  /\ w.deletedAddr = [t \in Tracks |-> IF t \in Mine(d) /\ v.deletedAddr[t] < CreatedAt[d]
                                       THEN CreatedAt[d] ELSE v.deletedAddr[t]]
  /\ w.tracks = {t \in v.tracks : ~(t \in Mine(d) /\ CreatedAt[t] <= CreatedAt[d])}
  /\ KeepsRequests(v, w, Range(Tags[d]) \ v.entities, Author[d])
  /\ \A id \in Range(Tags[d]) \ v.entities :
       Asks(w.pending, id, Author[d]) \/ id \in w.forgotten

LEMMA ErasedView ==
  ASSUME NEW v, DOMAIN v = Fields, Table(v.pending), NEW d \in Events, Kind[d] # "modDelete",
         NEW stay
  PROVE  Erased(v, d, Deleted(v, d, stay))
<1> DEFINE u == DeleteByAddr(v, d)
           t == TrackUnknown(u, d)
           S == Deletable(u, d)
           w == Removed(t, S, stay)
<1>1. Deleted(v, d, stay) = w
  BY DEF Deleted, DeleteByIds
<1>2. S = Deletable(v, d)
  BY DeleteByAddrView DEF Deletable
<1>3. DOMAIN u = Fields /\ Table(u.pending)
  BY DeleteByAddrView
<1> HIDE DEF u
<1>4. Tracked(u, d, Len(Tags[d]), t)
  BY <1>3, TrackUnknownView
<1> HIDE DEF t, S
<1>5. DOMAIN t = Fields /\ SameStore(u, t)
      /\ KeepsRequests(u, t, Range(Tags[d]) \ u.entities, Author[d])
  BY <1>4 DEF Tracked
<1>6. /\ w.entities = t.entities \ S
      /\ w.feeds \subseteq t.feeds
      /\ w.hidden = t.hidden \cup {e \in S : Kind[e] = "chat"}
      /\ w.deletedNotes = t.deletedNotes \cup {e \in S : Kind[e] = "note"}
      /\ w.deletedAddr = t.deletedAddr
      /\ w.pending = t.pending /\ w.tracks = t.tracks
      /\ w.forgotten = t.forgotten /\ w.seen = t.seen
  BY <1>5, RemovedView
<1> HIDE DEF w
<1>7. /\ u.deletedAddr =
              [x \in Tracks |-> IF x \in Mine(d) /\ v.deletedAddr[x] < CreatedAt[d]
                                THEN CreatedAt[d] ELSE v.deletedAddr[x]]
      /\ u.tracks = {x \in v.tracks : ~(x \in Mine(d) /\ CreatedAt[x] <= CreatedAt[d])}
      /\ u.entities = v.entities /\ u.feeds = v.feeds /\ u.hidden = v.hidden
      /\ u.deletedNotes = v.deletedNotes /\ u.pending = v.pending
      /\ u.forgotten = v.forgotten /\ u.seen = v.seen
  BY DeleteByAddrView DEF u
<1>8. KeepsRequests(v, w, Range(Tags[d]) \ v.entities, Author[d])
  BY <1>5, <1>6, <1>7 DEF KeepsRequests
<1>9. \A id \in Range(Tags[d]) \ v.entities :
        Asks(w.pending, id, Author[d]) \/ id \in w.forgotten
  <2> SUFFICES ASSUME NEW id \in Range(Tags[d]) \ v.entities
               PROVE  Asks(w.pending, id, Author[d]) \/ id \in w.forgotten
    OBVIOUS
  <2>1. PICK k \in 1 .. Len(Tags[d]) : Tags[d][k] = id
    BY TagsOf
  <2> QED
    BY <1>4, <1>6, <1>7, <2>1 DEF Tracked
<1>10. /\ w.entities = v.entities \ S /\ w.feeds \subseteq v.feeds
       /\ w.hidden = v.hidden \cup {e \in S : Kind[e] = "chat"}
       /\ w.deletedNotes = v.deletedNotes \cup {e \in S : Kind[e] = "note"}
       /\ w.seen = v.seen /\ w.deletedAddr = u.deletedAddr /\ w.tracks = u.tracks
  BY <1>5, <1>6, <1>7 DEF SameStore
<1> QED
  BY <1>1, <1>2, <1>7, <1>8, <1>9, <1>10 DEF Erased

-----------------------------------------------------------------------------
\* What the actions do to the variables.

\* An event or none joins the batch, and the buffer waits or is stored: what is
\* still marked seen is still there, the records of deletions are as they were.
Stores(batch, marked, table, shown) ==
  /\ entities' \cup buf' \subseteq entities \cup batch
  /\ FeedsKnown'
  /\ seen' \subseteq marked
  /\ \A x \in seen' : x \in entities \cup batch => x \in entities' \cup buf'
  /\ pending' = table /\ tracks' = shown
  /\ UNCHANGED <<hidden, deletedNotes, deletedAddr, forgotten>>

\* A view that differs from the variables in what the batch leaves to choose.
Based(v, marked, table, shown) ==
  /\ DOMAIN v = Fields
  /\ v.entities = entities /\ v.feeds = feeds /\ v.hidden = hidden
  /\ v.deletedNotes = deletedNotes /\ v.deletedAddr = deletedAddr /\ v.forgotten = forgotten
  /\ v.seen = marked /\ v.pending = table /\ v.tracks = shown

LEMMA BecomesStores ==
  ASSUME FeedsKnown, NEW v, NEW batch, NEW marked, NEW table, NEW shown,
         Based(v, marked, table, shown), Becomes(v), buf' = batch
  PROVE  Stores(batch, marked, table, shown)
BY DEF Stores, Based, Becomes, FeedsKnown

LEMMA StoredStores ==
  ASSUME FeedsKnown, NEW v, NEW batch, NEW marked, NEW table, NEW shown,
         Based(v, marked, table, shown), NEW w, Stored(v, batch, w), Becomes(w), buf' = {}
  PROVE  Stores(batch, marked, table, shown)
<1>1. PICK gone \in SUBSET ((v.entities \cup batch) \ w.feeds) :
        w.entities = (v.entities \cup batch) \ gone /\ w.seen = v.seen \ gone
  BY DEF Stored
<1>2. entities' = (entities \cup batch) \ gone /\ seen' = marked \ gone
  BY <1>1 DEF Based, Becomes
<1>3. feeds' = feeds \cup Listed(batch) /\ gone \cap feeds' = {}
  BY <1>1 DEF Stored, Based, Becomes
<1>4. pending' = table /\ tracks' = shown /\ UNCHANGED <<hidden, deletedNotes, deletedAddr, forgotten>>
  BY DEF Stored, SameRecords, Based, Becomes
<1>5. FeedsKnown'
  BY <1>2, <1>3, <1>4 DEF FeedsKnown, Listed
<1> QED
  BY <1>2, <1>4, <1>5 DEF Stores

LEMMA BufferedStores ==
  ASSUME FeedsKnown, NEW v, NEW batch, NEW marked, NEW table, NEW shown,
         Based(v, marked, table, shown), NEW moment \in Moments,
         Buffered(v, batch, moment)
  PROVE  Stores(batch, marked, table, shown)
<1>1. CASE Becomes(Flushed(v, batch, moment = "sweeping")) /\ buf' = {}
  <2>1. Stored(v, batch, Flushed(v, batch, moment = "sweeping"))
    BY FlushedView DEF Based
  <2> QED
    BY <1>1, <2>1, StoredStores
<1>2. CASE Becomes(v) /\ buf' = batch
  BY <1>2, BecomesStores
<1> QED
  BY <1>1, <1>2 DEF Buffered

\* The views the actions start from.
LEMMA ViewBased ==
  ASSUME NEW e, NEW S
  PROVE  /\ Based(View, seen, pending, tracks)
         /\ Based([View EXCEPT !.tracks = @ \cup {e}], seen, pending, tracks \cup {e})
         /\ Based([View EXCEPT !.pending = S], seen, S, tracks)
BY DEF View, Based, Fields

LEMMA ShownBased ==
  ASSUME NEW e, NEW S
  PROVE  Based([[View EXCEPT !.pending = S] EXCEPT !.tracks = @ \cup {e}], seen, S, tracks \cup {e})
BY DEF View, Based, Fields

LEMMA DeferBased ==
  ASSUME NEW o, NEW S
  PROVE  Based([View EXCEPT !.pending = S, !.seen = @ \ {o}], seen \ {o}, S, tracks)
BY DEF View, Based, Fields

LEMMA ShowStores ==
  ASSUME FeedsKnown, NEW e, NEW moment \in Moments,
         Show(e, moment)
  PROVE  Stores(buf \cup {e}, seen, WithoutPending(e),
                IF e \notin Private /\ Kind[e] = "track" THEN tracks \cup {e} ELSE tracks)
<1> DEFINE W == WithoutPending(e)
           v == [View EXCEPT !.pending = W]
           x == [v EXCEPT !.tracks = @ \cup {e}]
<1>1. Based(v, seen, W, tracks)
  BY ViewBased
<1>2. Based(x, seen, W, tracks \cup {e})
  BY ShownBased
<1>3. CASE e \in Private
  <2>1. Becomes(v) /\ buf' = buf \cup {e}
    BY <1>3 DEF Show
  <2> HIDE DEF v, x, W
  <2> QED
    BY <1>1, <1>3, <2>1, BecomesStores DEF W
<1>4. CASE e \notin Private /\ Kind[e] = "track"
  <2>1. Buffered(x, buf \cup {e}, moment)
    BY <1>4 DEF Show
  <2> HIDE DEF v, x, W
  <2> QED
    BY <1>2, <1>4, <2>1, BufferedStores DEF W
<1>5. CASE e \notin Private /\ Kind[e] # "track"
  <2>1. Buffered(v, buf \cup {e}, moment)
    BY <1>5 DEF Show
  <2> HIDE DEF v, x, W
  <2> QED
    BY <1>1, <1>5, <2>1, BufferedStores DEF W
<1> QED
  BY <1>3, <1>4, <1>5

LEMMA DecryptedStores ==
  ASSUME FeedsKnown, NEW e, NEW ok \in BOOLEAN, 
         NEW moment \in Moments, Decrypted(e, ok, moment)
  PROVE  Stores(buf, seen, pending, IF ok THEN tracks \cup {e} ELSE tracks)
<1> DEFINE x == [View EXCEPT !.tracks = @ \cup {e}]
<1>1. Based(View, seen, pending, tracks) /\ Based(x, seen, pending, tracks \cup {e})
  BY ViewBased
<1>2. Buffered(IF ok THEN x ELSE View, buf, moment)
  BY DEF Decrypted
<1> HIDE DEF x
<1> QED
  BY <1>1, <1>2, BufferedStores

LEMMA DeferStores ==
  ASSUME FeedsKnown, NEW o, NEW moment \in Moments,
         Defer(o, moment)
  PROVE  Stores(buf \cup {o}, seen \ {o}, WithoutPending(o), tracks)
<1> DEFINE W == WithoutPending(o)
           v == [View EXCEPT !.pending = W, !.seen = @ \ {o}]
<1>1. Based(v, seen \ {o}, W, tracks)
  BY DeferBased
<1>2. Buffered(v, buf \cup {o}, moment)
  BY DEF Defer
<1> HIDE DEF v, W
<1> QED
  BY <1>1, <1>2, BufferedStores DEF W

LEMMA FlushStores ==
  ASSUME FeedsKnown, NEW sweeps \in BOOLEAN, Flush(sweeps)
  PROVE  Stores(buf, seen, pending, tracks)
<1>1. Based(View, seen, pending, tracks)
  BY ViewBased
<1>2. Stored(View, buf, Flushed(View, buf, sweeps))
  BY <1>1, FlushedView DEF Based
<1>3. Becomes(Flushed(View, buf, sweeps)) /\ buf' = {}
  BY DEF Flush
<1> QED
  BY <1>1, <1>2, <1>3, StoredStores

\* A moderator's deletion by one who is none.
LEMMA IgnoredStores ==
  ASSUME FeedsKnown, NEW d, NEW moment \in Moments,
         NEW stay, Delete(d, moment, stay), Kind[d] = "modDelete", Author[d] \notin Moderators
  PROVE  Stores(buf \cup {d}, seen, WithoutPending(d), tracks)
<1> DEFINE W == WithoutPending(d)
           v == [View EXCEPT !.pending = W]
<1>1. Based(v, seen, W, tracks)
  BY ViewBased
<1>2. Buffered(v, buf \cup {d}, moment)
  BY DEF Delete
<1> HIDE DEF v, W
<1> QED
  BY <1>1, <1>2, BufferedStores DEF W

\* A moderator's deletion of what is known in S.
Moderates(d, S) ==
  /\ S \subseteq Range(Tags[d]) /\ buf' = {}
  /\ entities' \subseteq entities \cup buf \cup {d}
  /\ FeedsKnown'
  /\ seen' \subseteq seen
  /\ \A x \in seen' : x \in entities \cup buf => x \in entities' \cup S
  /\ S \subseteq entities \cup buf \cup {d} /\ hidden' = hidden \cup S
  /\ pending' = WithoutPending(d)
  /\ UNCHANGED <<deletedNotes, deletedAddr, tracks, forgotten>>

LEMMA ModerateEffect ==
  ASSUME FeedsKnown, NEW d, NEW moment \in Moments,
         NEW stay, Delete(d, moment, stay), Kind[d] = "modDelete", Author[d] \in Moderators
  PROVE  \E S : Moderates(d, S)
<1> DEFINE W == WithoutPending(d)
           v == [View EXCEPT !.pending = W]
           u == Flushed(v, buf \cup {d}, moment = "sweeping")
           S == Range(Tags[d]) \cap u.entities
           w == ModDelete(u, d, stay)
<1>1. Based(v, seen, W, tracks)
  BY ViewBased
<1>2. Becomes(w) /\ buf' = {}
  BY DEF Delete, Deleted
<1> HIDE DEF v, W
<1>3. Stored(v, buf \cup {d}, u)
  BY <1>1, FlushedView DEF Based
<1> HIDE DEF u
<1>4. /\ w.entities = u.entities \ S /\ w.feeds \subseteq u.feeds /\ w.hidden = u.hidden \cup S
      /\ w.deletedNotes = u.deletedNotes /\ w.deletedAddr = u.deletedAddr /\ w.pending = u.pending
      /\ w.tracks = u.tracks /\ w.forgotten = u.forgotten /\ w.seen = u.seen
  BY <1>3, ModDeleteView DEF Stored
<1> HIDE DEF w
<1>5. PICK gone \in SUBSET ((v.entities \cup buf \cup {d}) \ u.feeds) :
        u.entities = (v.entities \cup buf \cup {d}) \ gone /\ u.seen = v.seen \ gone
  BY <1>3 DEF Stored
<1>6. entities' = ((entities \cup buf \cup {d}) \ gone) \ S /\ seen' = seen \ gone
  BY <1>1, <1>2, <1>4, <1>5 DEF Based, Becomes
<1>7. feeds' \subseteq feeds \cup Listed(buf \cup {d})
      /\ gone \cap (feeds \cup Listed(buf \cup {d})) = {}
  BY <1>1, <1>2, <1>3, <1>4, <1>5 DEF Stored, Based, Becomes
<1>8. /\ hidden' = hidden \cup S /\ pending' = W
      /\ UNCHANGED <<deletedNotes, deletedAddr, tracks, forgotten>>
  BY <1>1, <1>2, <1>3, <1>4 DEF Stored, SameRecords, Based, Becomes
<1>9. FeedsKnown'
  BY <1>6, <1>7, <1>8 DEF FeedsKnown, Listed
<1>10. S \subseteq Range(Tags[d]) /\ S \subseteq entities \cup buf \cup {d}
  BY <1>1, <1>5 DEF Based
<1> HIDE DEF S
<1>11. Moderates(d, S)
  BY <1>2, <1>6, <1>8, <1>9, <1>10 DEF Moderates, W
<1> QED
  BY <1>11

\* A kind:5 that finds X in the store and deletes D of it.
Erases(d, X, D) ==
  /\ X \subseteq entities \cup buf \cup {d} /\ buf' = {} /\ entities' = X \ D
  /\ D = {e \in Range(Tags[d]) \cap X : Author[e] = Author[d] /\ Kind[e] \in {"chat", "note"}}
  /\ FeedsKnown'
  /\ seen' \subseteq seen
  /\ \A x \in seen' : x \in entities \cup buf => x \in X
  /\ hidden' = hidden \cup {e \in D : Kind[e] = "chat"}
  /\ deletedNotes' = deletedNotes \cup {e \in D : Kind[e] = "note"}
  /\ deletedAddr' = [t \in Tracks |-> IF t \in Mine(d) /\ deletedAddr[t] < CreatedAt[d]
                                      THEN CreatedAt[d] ELSE deletedAddr[t]]
  /\ tracks' = {t \in tracks : ~(t \in Mine(d) /\ CreatedAt[t] <= CreatedAt[d])}
  /\ Table(pending') /\ forgotten \subseteq forgotten'
  /\ Keys(pending') \subseteq Keys(WithoutPending(d)) \cup (Range(Tags[d]) \ X)
  /\ \A id, a : Asks(pending', id, a) =>
       Asks(WithoutPending(d), id, a) \/ (id \in Range(Tags[d]) /\ a = Author[d])
  /\ \A id, a : Asks(WithoutPending(d), id, a) => Asks(pending', id, a) \/ id \in forgotten'
  /\ \A id \in Range(Tags[d]) \ X : Asks(pending', id, Author[d]) \/ id \in forgotten'

LEMMA EraseEffect ==
  ASSUME FeedsKnown, Table(pending),
         NEW d \in Events, NEW moment \in Moments,
         NEW stay, Delete(d, moment, stay), Kind[d] = "deletion"
  PROVE  \E X, D : Erases(d, X, D)
<1> DEFINE W == WithoutPending(d)
           v == [View EXCEPT !.pending = W]
           u == Flushed(v, buf \cup {d}, moment = "sweeping")
           X == u.entities
           D == Deletable(u, d)
           w == Deleted(u, d, stay)
<1>1. Based(v, seen, W, tracks)
  BY ViewBased
<1>2. Becomes(w) /\ buf' = {}
  BY DEF Delete
<1>3. Table(W)
  BY WithoutPendingTable
<1> HIDE DEF v, W
<1>4. Stored(v, buf \cup {d}, u)
  BY <1>1, FlushedView DEF Based
<1> HIDE DEF u
<1>5. /\ DOMAIN u = Fields /\ u.feeds = feeds \cup Listed(buf \cup {d}) /\ u.hidden = hidden
      /\ u.deletedNotes = deletedNotes /\ u.deletedAddr = deletedAddr /\ u.pending = W
      /\ u.tracks = tracks /\ u.forgotten = forgotten
  BY <1>1, <1>4 DEF Stored, SameRecords, Based
<1>6. PICK gone \in SUBSET ((v.entities \cup buf \cup {d}) \ u.feeds) :
        u.entities = (v.entities \cup buf \cup {d}) \ gone /\ u.seen = v.seen \ gone
  BY <1>4 DEF Stored
<1>7. X = (entities \cup buf \cup {d}) \ gone /\ u.seen = seen \ gone /\ gone \cap u.feeds = {}
  BY <1>1, <1>6 DEF Based
<1>8. Erased(u, d, w)
  BY <1>3, <1>5, ErasedView
<1> HIDE DEF w
<1>9. /\ entities' = X \ D /\ feeds' \subseteq u.feeds /\ seen' = u.seen
      /\ hidden' = hidden \cup {e \in D : Kind[e] = "chat"}
      /\ deletedNotes' = deletedNotes \cup {e \in D : Kind[e] = "note"}
      /\ deletedAddr' = [t \in Tracks |-> IF t \in Mine(d) /\ deletedAddr[t] < CreatedAt[d]
                                          THEN CreatedAt[d] ELSE deletedAddr[t]]
      /\ tracks' = {t \in tracks : ~(t \in Mine(d) /\ CreatedAt[t] <= CreatedAt[d])}
  BY <1>2, <1>5, <1>8 DEF Erased, Becomes
<1>10. w.pending = pending' /\ w.forgotten = forgotten'
  BY <1>2 DEF Becomes
<1>11. /\ Table(pending') /\ forgotten \subseteq forgotten'
       /\ Keys(pending') \subseteq Keys(W) \cup (Range(Tags[d]) \ X)
       /\ \A id, a : Asks(pending', id, a) =>
            Asks(W, id, a) \/ (id \in Range(Tags[d]) /\ a = Author[d])
       /\ \A id, a : Asks(W, id, a) => Asks(pending', id, a) \/ id \in forgotten'
  BY <1>5, <1>8, <1>10 DEF Erased, KeepsRequests
<1>12. \A id \in Range(Tags[d]) \ X : Asks(pending', id, Author[d]) \/ id \in forgotten'
  BY <1>8, <1>10 DEF Erased
<1>13. D = {e \in Range(Tags[d]) \cap X : Author[e] = Author[d] /\ Kind[e] \in {"chat", "note"}}
  BY DEF Deletable
<1>14. FeedsKnown'
  BY <1>5, <1>7, <1>9, <1>13 DEF FeedsKnown, Listed
<1> HIDE DEF X, D
<1>15. Erases(d, X, D)
  BY <1>2, <1>7, <1>9, <1>11, <1>12, <1>13, <1>14 DEF Erases, W
<1> QED
  BY <1>15

-----------------------------------------------------------------------------
\* The parts of the inductive invariant.

LEMMA AuthorizedAsks ==
  ASSUME NEW e
  PROVE  /\ PendingAuthorized(e) <=> Asks(pending, e, Author[e])
         /\ PendingAuthorized(e)' <=> Asks(pending', e, Author[e])
BY DEF PendingAuthorized, Asks

\* Who asked for an event that is waited for with its author's request is its author.
LEMMA AuthorizedIsDisowned ==
  ASSUME Asked, Table(pending), NEW e \in Events, PendingAuthorized(e)
  PROVE  Disowned(e)
<1>1. Asks(pending, e, Author[e]) /\ Author[e] \in Users
  BY AuthorizedAsks DEF Users
<1>2. PICK i \in DOMAIN pending : pending[i].target = e
  BY <1>1 DEF Asks
<1>3. pending[i] \in Requests
  BY <1>2, LenProperties DEF Table
<1>4. e \in Ids
  BY <1>2, <1>3 DEF Requests
<1> QED
  BY <1>1, <1>4 DEF Asked, Disowned

\* Deletions are not taken back while the client runs.
LEMMA DeletedGrows ==
  ASSUME applied \subseteq applied', NEW e
  PROVE  (Disowned(e) => Disowned(e)') /\ (ModDeleted(e) => ModDeleted(e)')
BY DEF Disowned, ModDeleted

LEMMA AskedKept ==
  ASSUME Asked, applied \subseteq applied',
         \A id, a : Asks(pending', id, a) => Asks(pending, id, a)
  PROVE  Asked'
BY DEF Asked

LEMMA NoCensorshipKept ==
  ASSUME NoCensorship, applied \subseteq applied', UNCHANGED <<hidden, deletedNotes>>
  PROVE  NoCensorship'
BY DeletedGrows DEF NoCensorship

LEMMA AddressedKept ==
  ASSUME Addressed, applied' \cap Deletions = applied \cap Deletions, UNCHANGED deletedAddr,
         \A t \in tracks' \ Private : deletedAddr[t] < CreatedAt[t]
  PROVE  Addressed'
BY DEF Addressed

LEMMA RememberedKept ==
  ASSUME Remembered, applied' \cap Deletions = applied \cap Deletions,
         forgotten \subseteq forgotten', hidden \subseteq hidden', deletedNotes \subseteq deletedNotes',
         \A e \in Messages : PendingAuthorized(e) =>
           e \in forgotten' \/ e \in hidden' \/ e \in deletedNotes' \/ PendingAuthorized(e)'
  PROVE  Remembered'
<1> SUFFICES ASSUME NEW e \in Messages, Disowned(e)'
             PROVE  e \in forgotten' \/ e \in hidden' \/ e \in deletedNotes' \/ PendingAuthorized(e)'
  BY DEF Remembered
<1>1. Disowned(e)
  BY DEF Disowned
<1> QED
  BY <1>1 DEF Remembered

LEMMA AbsentKept ==
  ASSUME Absent, Keys(pending') \subseteq Keys(pending), UNCHANGED deletedNotes,
         \A e \in Messages : e \in entities' \cup buf' /\ e \notin entities \cup buf =>
           e \notin Keys(pending') /\ e \notin deletedNotes
  PROVE  Absent'
BY DEF Absent

\* What is in the buffer or the store stays there while it is marked seen, and what
\* leaves the worker was accounted for.
LEMMA AccountedKept ==
  ASSUME Accounted, applied \subseteq applied', seen' \subseteq seen \cup verifying',
         \A x \in seen' : x \in entities \cup buf =>
           x \in entities' \cup buf' \/ Disowned(x)' \/ ModDeleted(x)',
         \A x \in seen' : x \in verifying \ verifying' =>
           \/ x \in applied'
           \/ Kind[x] \notin {"deletion", "modDelete"}
                /\ (x \in entities' \cup buf' \/ Disowned(x)' \/ ModDeleted(x)')
  PROVE  Accounted'
<1> SUFFICES ASSUME NEW x \in seen', x \notin verifying', x \notin applied'
             PROVE  Kind[x] \notin {"deletion", "modDelete"}
                      /\ (x \in entities' \cup buf' \/ Disowned(x)' \/ ModDeleted(x)')
  BY DEF Accounted
<1>1. CASE x \in verifying
  BY <1>1
<1>2. CASE x \notin verifying
  <2>1. /\ Kind[x] \notin {"deletion", "modDelete"}
        /\ x \in entities \cup buf \/ Disowned(x) \/ ModDeleted(x)
    BY <1>2 DEF Accounted
  <2> QED
    BY <2>1, DeletedGrows
<1> QED
  BY <1>1, <1>2

\* What is with the worker is finite and within the bound when some of it leaves.
LEMMA FewerVerifying ==
  ASSUME Typed, verifying' \subseteq verifying
  PROVE  verifying' \subseteq Events /\ IsFiniteSet(verifying') /\ Cardinality(verifying') <= InFlight
<1>1. InFlight \in Nat /\ IsFiniteSet(verifying) /\ Cardinality(verifying) <= InFlight
  BY PipelineAssumption DEF Typed
<1>2. /\ IsFiniteSet(verifying') /\ Cardinality(verifying') <= Cardinality(verifying)
  BY <1>1, FS_Subset
<1>3. Cardinality(verifying) \in Nat /\ Cardinality(verifying') \in Nat
  BY <1>1, <1>2, FS_CardinalityType
<1> QED
  BY <1>1, <1>2, <1>3 DEF Typed

-----------------------------------------------------------------------------
\* The steps that put an event into the batch, or none.
LEMMA StoresStep ==
  ASSUME Inv, NEW e \in Events, NEW batch, NEW marked, NEW table, NEW shown,
         Stores(batch, marked, table, shown),
         buf \subseteq batch, batch \subseteq buf \cup {e}, marked \subseteq seen,
         table = pending \/ table = WithoutPending(e),
         e \in Messages /\ table # pending => ~PendingAuthorized(e),
         e \in Messages /\ e \notin buf /\ e \in batch => table = WithoutPending(e) /\ e \notin deletedNotes,
         shown \subseteq Tracks, \A t \in shown \ Private : deletedAddr[t] < CreatedAt[t],
         verifying' \subseteq verifying, decrypting' \subseteq Private,
         UNCHANGED <<persisted, spaceKnown>>,
         applied \subseteq applied', applied' \subseteq Events,
         applied' \cap Deletions = applied \cap Deletions,
         \A x \in seen' : x \in verifying \ verifying' =>
           x \in applied' \/ (x \in batch /\ Kind[x] \notin {"deletion", "modDelete"})
  PROVE  Inv'
<1>1. Typed /\ Asked /\ NoCensorship /\ Addressed /\ Remembered /\ Absent /\ Accounted
  BY DEF Inv
<1>2. /\ entities' \cup buf' \subseteq entities \cup batch
      /\ FeedsKnown'
      /\ seen' \subseteq marked
      /\ \A x \in seen' : x \in entities \cup batch => x \in entities' \cup buf'
      /\ pending' = table /\ tracks' = shown
      /\ UNCHANGED <<hidden, deletedNotes, deletedAddr, forgotten>>
  BY DEF Stores
<1>3. /\ Table(table) /\ Keys(table) \subseteq Keys(pending)
      /\ \A id, a : Asks(table, id, a) => Asks(pending, id, a)
      /\ \A id, a : Asks(pending, id, a) /\ (id # e \/ table = pending) => Asks(table, id, a)
      /\ table = WithoutPending(e) => e \notin Keys(table)
  <2>1. Table(pending)
    BY <1>1 DEF Typed
  <2> QED
    BY <2>1, WithoutPendingTable
<1>4. Typed'
  <2>1. seen' \subseteq Events /\ buf' \subseteq Events /\ entities' \subseteq Events
    BY <1>1, <1>2 DEF Typed
  <2>2. verifying' \subseteq Events /\ IsFiniteSet(verifying') /\ Cardinality(verifying') <= InFlight
    BY <1>1, FewerVerifying
  <2>3. deletedAddr' \in [Tracks -> Nat \cup {-1}] /\ persisted' \subseteq Deletions
        /\ IsFiniteSet(persisted') /\ spaceKnown' \in BOOLEAN
    BY <1>1, <1>2 DEF Typed
  <2>4. \A x \in deletedNotes' : Kind[x] = "note"
    BY <1>1, <1>2 DEF Typed
  <2> QED
    BY <1>2, <1>3, <2>1, <2>2, <2>3, <2>4 DEF Typed
<1>5. Asked'
  BY <1>1, <1>2, <1>3, AskedKept
<1>6. NoCensorship'
  BY <1>1, <1>2, NoCensorshipKept
<1>7. Addressed'
  BY <1>1, <1>2, AddressedKept
<1>8. Remembered'
  <2>1. ASSUME NEW x \in Messages, PendingAuthorized(x) PROVE PendingAuthorized(x)'
    BY <1>2, <1>3, <2>1, AuthorizedAsks
  <2> QED
    BY <1>1, <1>2, <2>1, RememberedKept
<1>9. Absent'
  <2>1. ASSUME NEW x \in Messages, x \in entities' \cup buf', x \notin entities \cup buf
        PROVE  x \notin Keys(pending') /\ x \notin deletedNotes
    BY <1>2, <1>3, <2>1
  <2> QED
    BY <1>1, <1>2, <1>3, <2>1, AbsentKept
<1>10. Accounted'
  BY <1>1, <1>2, AccountedKept
<1> QED
  BY <1>4, <1>5, <1>6, <1>7, <1>8, <1>9, <1>10 DEF Inv

\* A moderator's deletion.
LEMMA ModeratesStep ==
  ASSUME Inv, NEW d \in Events, NEW S, Moderates(d, S),
         Kind[d] = "modDelete", Author[d] \in Moderators,
         verifying' = verifying \ {d}, applied' = applied \cup {d},
         UNCHANGED <<decrypting, persisted, spaceKnown>>
  PROVE  Inv'
<1>1. Typed /\ Asked /\ NoCensorship /\ Addressed /\ Remembered /\ Absent /\ Accounted
  BY DEF Inv
<1> DEFINE W == WithoutPending(d)
<1>2. /\ Table(W) /\ Keys(W) \subseteq Keys(pending)
      /\ \A id, a : Asks(W, id, a) => Asks(pending, id, a)
      /\ \A id, a : id # d /\ Asks(pending, id, a) => Asks(W, id, a)
  <2>1. Table(pending)
    BY <1>1 DEF Typed
  <2> QED
    BY <2>1, WithoutPendingTable
<1> HIDE DEF W
<1>3. /\ S \subseteq Range(Tags[d]) /\ buf' = {}
      /\ entities' \subseteq entities \cup buf \cup {d}
      /\ FeedsKnown'
      /\ seen' \subseteq seen
      /\ \A x \in seen' : x \in entities \cup buf => x \in entities' \cup S
      /\ hidden' = hidden \cup S /\ pending' = W
      /\ UNCHANGED <<deletedNotes, deletedAddr, tracks, forgotten>>
  BY DEF Moderates, W
<1>4. d \notin Messages /\ d \notin Deletions
  BY DEF Messages, Deletions
<1>5. applied \subseteq applied' /\ applied' \cap Deletions = applied \cap Deletions
  BY <1>4
<1>6. \A x \in S : ModDeleted(x)'
  BY <1>3 DEF ModDeleted
<1>7. Typed'
  <2>1. /\ seen' \subseteq Events /\ buf' \subseteq Events /\ entities' \subseteq Events
        /\ decrypting' \subseteq Private /\ applied' \subseteq Events /\ tracks' \subseteq Tracks
    BY <1>1, <1>3 DEF Typed
  <2>2. verifying' \subseteq Events /\ IsFiniteSet(verifying') /\ Cardinality(verifying') <= InFlight
    BY <1>1, FewerVerifying
  <2>3. deletedAddr' \in [Tracks -> Nat \cup {-1}] /\ persisted' \subseteq Deletions
        /\ IsFiniteSet(persisted') /\ spaceKnown' \in BOOLEAN
    BY <1>1, <1>3 DEF Typed
  <2>4. \A x \in deletedNotes' : Kind[x] = "note"
    BY <1>1, <1>3 DEF Typed
  <2> QED
    BY <1>2, <1>3, <2>1, <2>2, <2>3, <2>4 DEF Typed
<1>8. Asked'
  BY <1>1, <1>2, <1>3, <1>5, AskedKept
<1>9. NoCensorship'
  BY <1>1, <1>3, <1>5, <1>6, DeletedGrows DEF NoCensorship
<1>10. Addressed'
  <2>1. \A t \in tracks' \ Private : deletedAddr[t] < CreatedAt[t]
    BY <1>1, <1>3 DEF Addressed
  <2> QED
    BY <1>1, <1>3, <1>5, <2>1, AddressedKept
<1>11. Remembered'
  <2>1. ASSUME NEW x \in Messages, PendingAuthorized(x) PROVE PendingAuthorized(x)'
    BY <1>2, <1>3, <1>4, <2>1, AuthorizedAsks
  <2> QED
    BY <1>1, <1>3, <1>5, <2>1, RememberedKept
<1>12. Absent'
  <2>1. \A x \in Messages : x \in entities' \cup buf' => x \in entities \cup buf
    BY <1>3, <1>4
  <2> QED
    BY <1>1, <1>2, <1>3, <2>1, AbsentKept
<1>13. Accounted'
  <2>1. \A x \in seen' : x \in verifying \ verifying' => x \in applied'
    OBVIOUS
  <2> QED
    BY <1>1, <1>3, <1>5, <1>6, <2>1, AccountedKept
<1> QED
  BY <1>7, <1>8, <1>9, <1>10, <1>11, <1>12, <1>13 DEF Inv

\* A kind:5.
LEMMA ErasesStep ==
  ASSUME Inv, NEW d \in Events, NEW X, NEW D, Erases(d, X, D), Kind[d] = "deletion",
         verifying' = verifying \ {d}, applied' = applied \cup {d},
         persisted' = persisted \cup ({d} \cap Deletions), UNCHANGED <<decrypting, spaceKnown>>
  PROVE  Inv'
<1>1. Typed /\ Asked /\ NoCensorship /\ Addressed /\ Remembered /\ Absent /\ Accounted
  BY DEF Inv
<1> DEFINE W == WithoutPending(d)
<1>2. /\ Table(W) /\ Keys(W) \subseteq Keys(pending)
      /\ \A id, a : Asks(W, id, a) => Asks(pending, id, a)
      /\ \A id, a : id # d /\ Asks(pending, id, a) => Asks(W, id, a)
  <2>1. Table(pending)
    BY <1>1 DEF Typed
  <2> QED
    BY <2>1, WithoutPendingTable
<1> HIDE DEF W
<1>3. /\ X \subseteq entities \cup buf \cup {d} /\ buf' = {} /\ entities' = X \ D
      /\ D = {e \in Range(Tags[d]) \cap X : Author[e] = Author[d] /\ Kind[e] \in {"chat", "note"}}
      /\ FeedsKnown'
      /\ seen' \subseteq seen
      /\ \A x \in seen' : x \in entities \cup buf => x \in X
      /\ hidden' = hidden \cup {e \in D : Kind[e] = "chat"}
      /\ deletedNotes' = deletedNotes \cup {e \in D : Kind[e] = "note"}
  BY DEF Erases
<1>4. /\ deletedAddr' = [t \in Tracks |-> IF t \in Mine(d) /\ deletedAddr[t] < CreatedAt[d]
                                          THEN CreatedAt[d] ELSE deletedAddr[t]]
      /\ tracks' = {t \in tracks : ~(t \in Mine(d) /\ CreatedAt[t] <= CreatedAt[d])}
  BY DEF Erases
<1>5. /\ Table(pending') /\ forgotten \subseteq forgotten'
      /\ Keys(pending') \subseteq Keys(W) \cup (Range(Tags[d]) \ X)
      /\ \A id, a : Asks(pending', id, a) =>
           Asks(W, id, a) \/ (id \in Range(Tags[d]) /\ a = Author[d])
      /\ \A id, a : Asks(W, id, a) => Asks(pending', id, a) \/ id \in forgotten'
      /\ \A id \in Range(Tags[d]) \ X : Asks(pending', id, Author[d]) \/ id \in forgotten'
  BY DEF Erases, W
<1>6. d \notin Messages /\ d \in Deletions
  BY DEF Messages, Deletions
<1>7. applied \subseteq applied' /\ applied' \subseteq Events /\ d \in applied' \cap Deletions
      /\ \A x \in applied' \cap Deletions : x \in applied \cap Deletions \/ x = d
  BY <1>1, <1>6 DEF Typed
<1>8. \A x \in D : Disowned(x)'
  BY <1>3, <1>7 DEF Disowned
<1>9. CreatedAt[d] \in Nat /\ \A t \in Tracks : CreatedAt[t] \in Nat /\ deletedAddr[t] \in Nat \cup {-1}
  BY <1>1, PipelineAssumption DEF Typed, Tracks
<1>10. Typed'
  <2>1. /\ seen' \subseteq Events /\ buf' \subseteq Events /\ entities' \subseteq Events
        /\ decrypting' \subseteq Private /\ tracks' \subseteq Tracks
    BY <1>1, <1>3, <1>4 DEF Typed
  <2>2. verifying' \subseteq Events /\ IsFiniteSet(verifying') /\ Cardinality(verifying') <= InFlight
    BY <1>1, FewerVerifying
  <2>3. deletedAddr' \in [Tracks -> Nat \cup {-1}]
    BY <1>4, <1>9
  <2>4. persisted' \subseteq Deletions /\ IsFiniteSet(persisted') /\ spaceKnown' \in BOOLEAN
    <3>1. persisted' = persisted \cup {d}
      BY <1>6
    <3> QED
      BY <1>1, <1>6, <3>1, FS_AddElement DEF Typed
  <2>5. \A x \in deletedNotes' : Kind[x] = "note"
    BY <1>1, <1>3 DEF Typed
  <2> QED
    BY <1>3, <1>5, <1>7, <2>1, <2>2, <2>3, <2>4, <2>5 DEF Typed
<1>11. Asked'
  <2> SUFFICES ASSUME NEW id \in Ids, NEW a \in Users, Asks(pending', id, a)
               PROVE  \E x \in applied' \cap Deletions : Author[x] = a /\ id \in Range(Tags[x])
    BY DEF Asked
  <2>1. CASE Asks(pending, id, a)
    BY <1>1, <1>7, <2>1 DEF Asked
  <2>2. CASE id \in Range(Tags[d]) /\ a = Author[d]
    BY <1>7, <2>2
  <2> QED
    BY <1>2, <1>5, <2>1, <2>2
<1>12. NoCensorship'
  BY <1>1, <1>3, <1>7, <1>8, DeletedGrows DEF NoCensorship
<1>13. Addressed'
  <2>1. ASSUME NEW x \in applied' \cap Deletions, NEW t \in Tracks, Unnames(x, t)
        PROVE  CreatedAt[x] <= deletedAddr'[t]
    <3>1. CASE x = d
      <4>1. t \in Mine(d)
        BY <2>1, <3>1 DEF Mine, Unnames
      <4> QED
        BY <1>4, <1>9, <3>1, <4>1
    <3>2. CASE x \in applied \cap Deletions
      <4>1. CreatedAt[x] <= deletedAddr[t] /\ CreatedAt[x] \in Nat
        BY <1>1, <2>1, <3>2, PipelineAssumption DEF Addressed, Typed
      <4>2. deletedAddr'[t] \in Nat \cup {-1} /\ deletedAddr[t] <= deletedAddr'[t]
        BY <1>4, <1>9
      <4> QED
        BY <1>9, <4>1, <4>2
    <3> QED
      BY <1>7, <3>1, <3>2
  <2>2. ASSUME NEW t \in Tracks, deletedAddr'[t] # -1
        PROVE  \E x \in applied' \cap Deletions : Unnames(x, t) /\ CreatedAt[x] = deletedAddr'[t]
    <3>1. CASE t \in Mine(d) /\ deletedAddr[t] < CreatedAt[d]
      <4>1. deletedAddr'[t] = CreatedAt[d] /\ Unnames(d, t)
        BY <1>4, <3>1 DEF Mine, Unnames
      <4> QED
        BY <1>7, <4>1
    <3>2. CASE ~(t \in Mine(d) /\ deletedAddr[t] < CreatedAt[d])
      <4>1. deletedAddr'[t] = deletedAddr[t]
        BY <1>4, <3>2
      <4> QED
        BY <1>1, <1>7, <2>2, <4>1 DEF Addressed
    <3> QED
      BY <3>1, <3>2
  <2>3. ASSUME NEW t \in tracks' \ Private PROVE deletedAddr'[t] < CreatedAt[t]
    <3>1. t \in Tracks /\ t \in tracks \ Private /\ ~(t \in Mine(d) /\ CreatedAt[t] <= CreatedAt[d])
      BY <1>1, <1>4 DEF Typed
    <3>2. deletedAddr[t] < CreatedAt[t]
      BY <1>1, <3>1 DEF Addressed
    <3> QED
      BY <1>4, <1>9, <3>1, <3>2
  <2> QED
    BY <2>1, <2>2, <2>3 DEF Addressed
<1>14. Remembered'
  <2> SUFFICES ASSUME NEW x \in Messages, Disowned(x)'
               PROVE  x \in forgotten' \/ x \in hidden' \/ x \in deletedNotes' \/ PendingAuthorized(x)'
    BY DEF Remembered
  <2>1. x # d /\ Kind[x] \in {"note", "chat"}
    BY <1>6 DEF Messages
  <2>2. CASE Disowned(x)
    <3>1. x \in forgotten \/ x \in hidden \/ x \in deletedNotes \/ Asks(pending, x, Author[x])
      BY <1>1, <2>2, AuthorizedAsks DEF Remembered
    <3>2. Asks(pending, x, Author[x]) => Asks(pending', x, Author[x]) \/ x \in forgotten'
      BY <1>2, <1>5, <2>1
    <3> QED
      BY <1>3, <1>5, <3>1, <3>2, AuthorizedAsks
  <2>3. CASE ~Disowned(x)
    <3>1. PICK y \in applied' \cap Deletions :
            Author[y] = Author[x]
              /\ (x \in Range(Tags[y]) \/ (x \in AddrTags[y] /\ CreatedAt[x] <= CreatedAt[y]))
      BY DEF Disowned
    <3>2. y = d
      BY <1>7, <2>3, <3>1 DEF Disowned
    <3>3. x \notin AddrTags[d]
      BY <2>1, PipelineAssumption
    <3>4. x \in Range(Tags[d]) /\ Author[x] = Author[d]
      BY <3>1, <3>2, <3>3
    <3>5. CASE x \in X
      BY <1>3, <2>1, <3>4, <3>5
    <3>6. CASE x \notin X
      BY <1>5, <3>4, <3>6, AuthorizedAsks
    <3> QED
      BY <3>5, <3>6
  <2> QED
    BY <2>2, <2>3
<1>15. Absent'
  <2> SUFFICES ASSUME NEW x \in Messages, x \in entities' \cup buf'
               PROVE  x \notin Keys(pending') /\ x \notin deletedNotes'
    BY DEF Absent
  <2>1. x \in X /\ x \notin D /\ x \in entities \cup buf
    BY <1>3, <1>6
  <2>2. x \notin Keys(pending) /\ x \notin deletedNotes
    BY <1>1, <2>1 DEF Absent
  <2> QED
    BY <1>2, <1>3, <1>5, <2>1, <2>2
<1>16. Accounted'
  <2>1. \A x \in seen' : x \in verifying \ verifying' => x \in applied'
    OBVIOUS
  <2>2. \A x \in seen' : x \in entities \cup buf => x \in entities' \cup buf' \/ Disowned(x)'
    BY <1>3, <1>8
  <2> QED
    BY <1>1, <1>3, <1>7, <2>1, <2>2, AccountedKept
<1> QED
  BY <1>10, <1>11, <1>12, <1>13, <1>14, <1>15, <1>16 DEF Inv

\* An event that is dropped was deleted by its author.
LEMMA DropStep ==
  ASSUME Inv, NEW e \in Events, DropDeleted(e)
  PROVE  Inv'
<1>1. Typed /\ Asked /\ NoCensorship /\ Addressed /\ Remembered /\ Absent /\ Accounted
  BY DEF Inv
<1>2. /\ e \in verifying /\ verifying' = verifying \ {e}
      /\ UNCHANGED <<seen, decrypting, buf, spaceKnown, persisted, applied, forgotten>>
      /\ UNCHANGED <<entities, feeds, deletedAddr, tracks>>
  BY DEF DropDeleted, viewVars
<1>3. CASE Rejected(e) /\ UNCHANGED viewVars
  <2>1. UNCHANGED <<hidden, deletedNotes, pending>>
    BY <1>3 DEF viewVars
  <2>2. Disowned(e) /\ Kind[e] \notin {"deletion", "modDelete"}
    <3>1. CASE Kind[e] = "note" /\ e \in deletedNotes
      BY <1>1, <3>1 DEF NoCensorship
    <3>2. CASE Kind[e] = "track" /\ CreatedAt[e] <= deletedAddr[e]
      <4>1. e \in Tracks /\ CreatedAt[e] \in Nat
        BY <3>2, PipelineAssumption DEF Tracks
      <4>2. deletedAddr[e] # -1
        BY <3>2, <4>1
      <4>3. PICK d \in applied \cap Deletions : Unnames(d, e) /\ CreatedAt[d] = deletedAddr[e]
        BY <1>1, <4>1, <4>2 DEF Addressed
      <4> QED
        BY <3>2, <4>3 DEF Disowned, Unnames
    <3> QED
      BY <1>3, <3>1, <3>2 DEF Rejected
  <2>3. Disowned(e)'
    BY <1>2, <2>2, DeletedGrows
  <2>4. Typed'
    <3>1. verifying' \subseteq Events /\ IsFiniteSet(verifying') /\ Cardinality(verifying') <= InFlight
      BY <1>1, <1>2, FewerVerifying
    <3>2. FeedsKnown'
      BY <1>1, <1>2, <2>1 DEF Typed, FeedsKnown, Listed
    <3> QED
      BY <1>1, <1>2, <2>1, <3>1, <3>2 DEF Typed, Table
  <2>5. Asked' /\ NoCensorship' /\ Addressed' /\ Absent'
    BY <1>1, <1>2, <2>1 DEF Asked, Asks, NoCensorship, Disowned, ModDeleted, Addressed, Absent, Keys
  <2>6. Remembered'
    BY <1>1, <1>2, <2>1 DEF Remembered, Disowned, PendingAuthorized
  <2>7. Accounted'
    BY <1>1, <1>2, <2>2, <2>3, AccountedKept
  <2> QED
    BY <2>4, <2>5, <2>6, <2>7 DEF Inv
<1>4. CASE /\ Kind[e] \in {"note", "chat"} /\ PendingAuthorized(e)
           /\ pending' = WithoutPending(e)
           /\ IF Kind[e] = "chat"
              THEN hidden' = hidden \cup {e} /\ UNCHANGED deletedNotes
              ELSE deletedNotes' = deletedNotes \cup {e} /\ UNCHANGED hidden
  <2> DEFINE W == WithoutPending(e)
  <2>1. /\ Table(W) /\ Keys(W) \subseteq Keys(pending)
        /\ \A id, a : Asks(W, id, a) => Asks(pending, id, a)
        /\ \A id, a : id # e /\ Asks(pending, id, a) => Asks(W, id, a)
    <3>1. Table(pending)
      BY <1>1 DEF Typed
    <3> QED
      BY <3>1, WithoutPendingTable
  <2>2. pending' = W
    BY <1>4
  <2> HIDE DEF W
  <2>3. Disowned(e) /\ Disowned(e)' /\ Kind[e] \notin {"deletion", "modDelete"}
    BY <1>1, <1>2, <1>4, AuthorizedIsDisowned, DeletedGrows DEF Typed
  <2>4. /\ hidden \subseteq hidden' /\ hidden' \subseteq hidden \cup {e}
        /\ deletedNotes \subseteq deletedNotes' /\ deletedNotes' \subseteq deletedNotes \cup {e}
        /\ e \in hidden' \cup deletedNotes'
    BY <1>4
  <2>5. Typed'
    <3>1. verifying' \subseteq Events /\ IsFiniteSet(verifying') /\ Cardinality(verifying') <= InFlight
      BY <1>1, <1>2, FewerVerifying
    <3>2. \A x \in deletedNotes' : Kind[x] = "note"
      BY <1>1, <1>4 DEF Typed
    <3>3. FeedsKnown'
      BY <1>1, <1>2, <2>4 DEF Typed, FeedsKnown, Listed
    <3> QED
      BY <1>1, <1>2, <2>1, <2>2, <3>1, <3>2, <3>3 DEF Typed
  <2>6. Asked'
    BY <1>1, <1>2, <2>1, <2>2, AskedKept
  <2>7. NoCensorship'
    BY <1>1, <1>2, <2>3, <2>4, DeletedGrows DEF NoCensorship
  <2>8. Addressed'
    BY <1>1, <1>2 DEF Addressed
  <2>9. Remembered'
    <3>1. ASSUME NEW x \in Messages, PendingAuthorized(x)
          PROVE  x \in hidden' \/ x \in deletedNotes' \/ PendingAuthorized(x)'
      <4>1. CASE x = e
        BY <2>4, <4>1
      <4>2. CASE x # e
        BY <2>1, <2>2, <3>1, <4>2, AuthorizedAsks
      <4> QED
        BY <4>1, <4>2
    <3> QED
      BY <1>1, <1>2, <2>4, <3>1, RememberedKept
  <2>10. Absent'
    <3>1. e \in Messages /\ e \in Keys(pending)
      BY <1>4 DEF Messages, PendingAuthorized, Keys
    <3>2. e \notin entities \cup buf
      BY <1>1, <3>1 DEF Absent
    <3> QED
      BY <1>1, <1>2, <2>1, <2>2, <2>4, <3>2 DEF Absent
  <2>11. Accounted'
    BY <1>1, <1>2, <2>3, AccountedKept
  <2> QED
    BY <2>5, <2>6, <2>7, <2>8, <2>9, <2>10, <2>11 DEF Inv
<1> QED
  BY <1>2, <1>3, <1>4 DEF DropDeleted

-----------------------------------------------------------------------------
\* The restart.

\* Of the times of finitely many events, and -1, one is the latest.
LEMMA LatestExists ==
  ASSUME NEW S \in SUBSET Events, IsFiniteSet(S)
  PROVE  \E m \in {-1} \cup {CreatedAt[d] : d \in S} :
           \A x \in {-1} \cup {CreatedAt[d] : d \in S} : m >= x
<1> DEFINE T == {-1} \cup {CreatedAt[d] : d \in S}
<1>1. \A d \in S : CreatedAt[d] \in Nat
  BY PipelineAssumption
<1>2. PICK n \in Nat : ExistsSurjection(1 .. n, S)
  BY FS_NatSurjection
<1>3. PICK f \in [1 .. n -> S] : \A d \in S : \E i \in 1 .. n : f[i] = d
  BY <1>2, Zenon DEF ExistsSurjection, Surjection
<1> DEFINE g == [i \in 1 .. n |-> CreatedAt[f[i]]]
           Bad == {k \in Nat : k <= n /\ ~\E b \in Nat : \A i \in 1 .. k : g[i] <= b}
<1>4. g \in [1 .. n -> Nat] /\ \A i \in 1 .. n : g[i] = CreatedAt[f[i]]
  BY <1>1, <1>3
<1> HIDE DEF T, g
<1>5. Bad = {}
  <2> SUFFICES ASSUME Bad # {} PROVE FALSE
    OBVIOUS
  <2>1. PICK k \in Bad : \A j \in Bad : k <= j
    BY NatLeast
  <2>2. CASE k = 0
    <3>1. \A i \in 1 .. 0 : g[i] <= 0
      OBVIOUS
    <3> QED
      BY <2>1, <2>2, <3>1
  <2>3. CASE k # 0
    <3>1. k \in 1 .. n /\ k - 1 \in Nat /\ k - 1 <= n /\ k - 1 \notin Bad
      <4>1. k \in Nat /\ k <= n /\ ~(k <= k - 1)
        BY <2>1
      <4>2. k - 1 \in Nat /\ k - 1 <= n /\ k \in 1 .. n
        BY <2>3, <4>1
      <4>3. k - 1 \notin Bad
        BY <2>1, <4>1
      <4> QED
        BY <4>2, <4>3
    <3>2. PICK b \in Nat : \A i \in 1 .. k - 1 : g[i] <= b
      BY <3>1
    <3>3. ~\E c \in Nat : \A i \in 1 .. k : g[i] <= c
      BY <2>1
    <3> HIDE DEF Bad
    <3>4. g[k] \in Nat /\ \A i \in 1 .. k - 1 : g[i] \in Nat
      BY <1>4, <3>1
    <3> DEFINE c == b + g[k]
    <3>5. ASSUME NEW i \in 1 .. k PROVE g[i] <= c
      <4>1. CASE i = k
        BY <3>4, <4>1
      <4>2. CASE i \in 1 .. k - 1
        BY <3>2, <3>4, <4>2
      <4> QED
        BY <3>1, <4>1, <4>2
    <3>6. c \in Nat
      BY <3>4
    <3> HIDE DEF c
    <3> QED
      BY <3>5, <3>6, <3>3
  <2> QED
    BY <2>2, <2>3
<1>6. PICK b \in Nat : \A i \in 1 .. n : g[i] <= b
  <2>1. n \notin Bad
    BY <1>5
  <2>2. n <= n
    OBVIOUS
  <2> QED
    BY <2>1, <2>2
<1>7. \A x \in T : x \in Int /\ x <= b
  BY <1>1, <1>3, <1>6, <1>4 DEF T
<1> DEFINE C == {c \in Nat : b - c \in T}
<1>8. b + 1 \in C
  <2>1. b - (b + 1) = -1
    OBVIOUS
  <2> QED
    BY <2>1 DEF T
<1>9. PICK c \in C : \A k \in C : c <= k
  BY <1>8, NatLeast
<1>10. ASSUME NEW x \in T PROVE b - c >= x
  <2>1. b - x \in Nat /\ b - (b - x) = x
    BY <1>7
  <2>2. b - x \in C
    BY <2>1
  <2> QED
    BY <1>7, <1>9, <2>2
<1> QED
  BY <1>9, <1>10 DEF T

\* The latest time read back is that of a deletion of the track, or there is none.
LEMMA LatestIsLatest ==
  ASSUME NEW read, read \subseteq Deletions, IsFiniteSet(read), NEW t
  PROVE  /\ Latest(read, t) \in Nat \cup {-1}
         /\ \A d \in read : Unnames(d, t) => CreatedAt[d] <= Latest(read, t)
         /\ Latest(read, t) # -1 => \E d \in read : Unnames(d, t) /\ CreatedAt[d] = Latest(read, t)
<1> DEFINE S == {x \in read : t \in AddrTags[x] /\ Author[x] = Author[t]}
           T == {-1} \cup {CreatedAt[d] : d \in S}
<1>1. S \subseteq Events /\ IsFiniteSet(S)
  <2>1. S \subseteq Events
    BY DEF Deletions
  <2>2. S \in SUBSET read
    OBVIOUS
  <2> HIDE DEF S
  <2> QED
    BY <2>1, <2>2, FS_Subset
<1>2. Latest(read, t) = Max(T)
  BY DEF Latest
<1>3. \A d \in S : CreatedAt[d] \in Nat
  BY <1>1, PipelineAssumption
<1>4. \A d \in read : Unnames(d, t) <=> d \in S
  BY DEF Unnames
<1> HIDE DEF S
<1>5. \E m \in T : \A x \in T : m >= x
  BY <1>1, LatestExists
<1> HIDE DEF T
<1>6. Max(T) \in T /\ \A x \in T : Max(T) >= x
  BY <1>5 DEF Max
<1>7. ASSUME NEW d \in S PROVE CreatedAt[d] <= Max(T)
  <2>1. CreatedAt[d] \in T /\ CreatedAt[d] \in Nat
    BY <1>3 DEF T
  <2>2. Max(T) \in Nat \cup {-1}
    BY <1>3, <1>6 DEF T
  <2> QED
    BY <1>6, <2>1, <2>2
<1>8. Max(T) # -1 => \E d \in S : CreatedAt[d] = Max(T)
  BY <1>6 DEF T
<1>9. Max(T) \in Nat \cup {-1}
  BY <1>3, <1>6 DEF T
<1>10. S \subseteq read
  BY DEF S
<1> QED
  BY <1>2, <1>4, <1>7, <1>8, <1>9, <1>10

LEMMA RestartStep ==
  ASSUME Inv, NEW read \in SUBSET persisted, Restart(read)
  PROVE  Inv'
<1>1. Typed
  BY DEF Inv
<1>2. /\ deletedAddr' = [t \in Tracks |-> Latest(read, t)]
      /\ entities' = {} /\ feeds' = {} /\ hidden' = {} /\ deletedNotes' = {} /\ tracks' = {}
      /\ seen' = {} /\ verifying' = {} /\ decrypting' = {} /\ buf' = {} /\ spaceKnown' = FALSE
      /\ applied' = read /\ persisted' = persisted
  BY DEF Restart
<1>3. read \subseteq Deletions /\ read \subseteq Events /\ IsFiniteSet(read)
      /\ applied' \cap Deletions = read
  BY <1>1, <1>2, FS_Subset DEF Typed, Deletions
<1>4. PICK n \in 0 .. PendingCap : \E kept \in [1 .. n -> Targets(read)] :
        /\ IsInjective(kept) /\ (Range(kept) = Targets(read) \/ n = PendingCap)
        /\ pending' = [i \in 1 .. n |-> [target |-> kept[i], by |-> Askers(read, kept[i])]]
        /\ forgotten' = Targets(read) \ Range(kept)
  BY DEF Restart
<1>5. PICK kept \in [1 .. n -> Targets(read)] :
        /\ IsInjective(kept) /\ (Range(kept) = Targets(read) \/ n = PendingCap)
        /\ pending' = [i \in 1 .. n |-> [target |-> kept[i], by |-> Askers(read, kept[i])]]
        /\ forgotten' = Targets(read) \ Range(kept)
  BY <1>4
<1>6. DOMAIN pending' = 1 .. n /\ \A i \in 1 .. n :
        kept[i] \in Targets(read) /\ pending'[i] = [target |-> kept[i], by |-> Askers(read, kept[i])]
        /\ pending'[i].target = kept[i] /\ pending'[i].by = Askers(read, kept[i])
  BY <1>5
<1>7. Targets(read) \subseteq Ids /\ \A id : Askers(read, id) \subseteq Users
  BY <1>3 DEF Targets, Ids, Askers, Users
<1>8. Table(pending')
  <2>1. PendingCap \in Nat /\ n \in Nat /\ n <= PendingCap
    BY <1>4, PipelineAssumption
  <2>2. pending' \in [1 .. n -> Requests]
    BY <1>5, <1>6, <1>7 DEF Requests
  <2>3. pending' \in Seq(Requests)
    BY <2>1, <2>2, SeqDef
  <2>4. Len(pending') = n
    <3>1. Len(pending') \in Nat /\ DOMAIN pending' = 1 .. Len(pending')
      BY <2>3, LenProperties
    <3> QED
      BY <1>6, <2>1, <3>1
  <2>5. \A i, j \in DOMAIN pending' : pending'[i].target = pending'[j].target => i = j
    BY <1>5, <1>6 DEF IsInjective
  <2> QED
    BY <2>1, <2>3, <2>4, <2>5 DEF Table
<1>9. Typed'
  <2>1. deletedAddr' \in [Tracks -> Nat \cup {-1}]
    BY <1>2, <1>3, LatestIsLatest
  <2>2. InFlight \in Nat /\ IsFiniteSet({}) /\ Cardinality({}) = 0
    BY PipelineAssumption, FS_EmptySet
  <2>3. verifying' \subseteq Events /\ IsFiniteSet(verifying') /\ Cardinality(verifying') <= InFlight
    BY <1>2, <2>2
  <2>4. FeedsKnown'
    BY <1>2 DEF FeedsKnown
  <2> QED
    BY <1>1, <1>2, <1>3, <1>8, <2>1, <2>3, <2>4 DEF Typed
<1>10. Asked'
  <2> SUFFICES ASSUME NEW id, NEW a, Asks(pending', id, a)
               PROVE  \E d \in read : Author[d] = a /\ id \in Range(Tags[d])
    BY <1>3 DEF Asked
  <2>1. a \in Askers(read, id)
    BY <1>6 DEF Asks
  <2> QED
    BY <2>1 DEF Askers
<1>11. NoCensorship'
  BY <1>2 DEF NoCensorship
<1>12. Addressed'
  <2>1. \A t \in Tracks :
          /\ \A d \in read : Unnames(d, t) => CreatedAt[d] <= deletedAddr'[t]
          /\ deletedAddr'[t] = -1 \/ \E d \in read : Unnames(d, t) /\ CreatedAt[d] = deletedAddr'[t]
    BY <1>2, <1>3, LatestIsLatest
  <2> QED
    BY <1>2, <1>3, <2>1 DEF Addressed
<1>13. Remembered'
  <2> SUFFICES ASSUME NEW e \in Messages, Disowned(e)', e \notin forgotten'
               PROVE  PendingAuthorized(e)'
    BY DEF Remembered
  <2>1. PICK d \in read : Author[d] = Author[e] /\ (e \in Range(Tags[d]) \/ e \in AddrTags[d])
    BY <1>3 DEF Disowned
  <2>2. e \in Range(Tags[d])
    BY <1>3, <2>1, PipelineAssumption DEF Messages
  <2>3. e \in Targets(read) /\ Author[e] \in Askers(read, e)
    BY <2>1, <2>2 DEF Targets, Askers
  <2>4. PICK i \in 1 .. n : kept[i] = e
    BY <1>5, <2>3 DEF Range
  <2> QED
    BY <1>6, <2>3, <2>4, AuthorizedAsks DEF Asks
<1>14. Absent' /\ Accounted'
  BY <1>2 DEF Absent, Accounted
<1> QED
  BY <1>9, <1>10, <1>11, <1>12, <1>13, <1>14 DEF Inv

-----------------------------------------------------------------------------
\* Every step keeps the invariant.

LEMMA InvInit == Init => Inv
<1> SUFFICES ASSUME Init PROVE Inv
  OBVIOUS
<1>1. PendingCap \in Nat /\ InFlight \in Nat /\ IsFiniteSet({}) /\ Cardinality({}) = 0
  BY PipelineAssumption, FS_EmptySet
<1>2. Table(<< >>)
  BY <1>1 DEF Table
<1>3. Typed
  <2>1. deletedAddr \in [Tracks -> Nat \cup {-1}]
    BY DEF Init
  <2>2. IsFiniteSet(verifying) /\ Cardinality(verifying) <= InFlight /\ IsFiniteSet(persisted)
        /\ Table(pending)
    BY <1>1, <1>2 DEF Init
  <2>3. FeedsKnown
    BY DEF Init, FeedsKnown
  <2> QED
    BY <2>1, <2>2, <2>3 DEF Init, Typed
<1>4. Asked /\ NoCensorship /\ Absent /\ Accounted
  BY DEF Init, Asked, Asks, NoCensorship, Absent, Accounted
<1>5. Addressed /\ Remembered
  BY DEF Init, Addressed, Remembered, Disowned
<1> QED
  BY <1>3, <1>4, <1>5 DEF Inv

\* The steps that change neither what is stored nor what is known of deletions.
LEMMA QuietStep ==
  ASSUME Inv, verifying' \subseteq Events, IsFiniteSet(verifying'), Cardinality(verifying') <= InFlight,
         seen' \subseteq Events, feeds' \subseteq feeds, spaceKnown' \in BOOLEAN,
         \A x \in seen' : x \in verifying' \/ (x \in seen /\ x \notin verifying),
         persisted' \subseteq persisted,
         UNCHANGED <<decrypting, buf, entities, hidden, deletedNotes, deletedAddr, pending, tracks,
                     applied, forgotten>>
  PROVE  Inv'
<1>1. Typed /\ Asked /\ NoCensorship /\ Addressed /\ Remembered /\ Absent /\ Accounted
  BY DEF Inv
<1>2. Typed'
  <2>1. FeedsKnown'
    BY <1>1 DEF Typed, FeedsKnown, Listed
  <2>2. persisted' \subseteq Deletions /\ IsFiniteSet(persisted')
    BY <1>1, FS_Subset DEF Typed
  <2> QED
    BY <1>1, <2>1, <2>2 DEF Typed, Table
<1>3. Asked' /\ NoCensorship' /\ Addressed' /\ Absent'
  BY <1>1 DEF Asked, Asks, NoCensorship, Disowned, ModDeleted, Addressed, Absent, Keys
<1>4. Remembered'
  BY <1>1 DEF Remembered, Disowned, PendingAuthorized
<1>5. Accounted'
  BY <1>1 DEF Accounted, Disowned, ModDeleted
<1> QED
  BY <1>2, <1>3, <1>4, <1>5 DEF Inv

LEMMA InvStep == Inv /\ [Next]_vars => Inv'
<1> SUFFICES ASSUME Inv, [Next]_vars PROVE Inv'
  OBVIOUS
<1>1. Typed /\ Addressed /\ Absent /\ FeedsKnown /\ Table(pending)
      /\ IsFiniteSet(verifying) /\ buf \subseteq Events
  BY DEF Inv, Typed
<1>2. ASSUME NEW e \in Events, Deliver(e) PROVE Inv'
  <2>1. verifying' = verifying \cup {e} /\ e \notin verifying /\ Cardinality(verifying) < InFlight
    BY <1>2 DEF Deliver
  <2>2. InFlight \in Nat /\ Cardinality(verifying) \in Nat
    BY <1>1, PipelineAssumption, FS_CardinalityType
  <2>3. IsFiniteSet(verifying') /\ Cardinality(verifying') = Cardinality(verifying) + 1
    BY <1>1, <2>1, FS_AddElement
  <2>4. Cardinality(verifying') <= InFlight
    BY <2>1, <2>2, <2>3
  <2>5. seen \subseteq Events /\ verifying \subseteq Events
    BY <1>1 DEF Typed
  <2>6. \A x \in seen' : x \in verifying' \/ (x \in seen /\ x \notin verifying)
    BY <1>2 DEF Deliver
  <2> QED
    BY <1>1, <1>2, <2>3, <2>4, <2>5, <2>6, QuietStep DEF Deliver, viewVars, Typed
<1>3. ASSUME NEW e \in Events, Unverified(e) PROVE Inv'
  <2>1. verifying' \subseteq Events /\ IsFiniteSet(verifying') /\ Cardinality(verifying') <= InFlight
    BY <1>1, <1>3, FewerVerifying DEF Unverified
  <2>2. \A x \in seen' : x \in verifying' \/ (x \in seen /\ x \notin verifying)
    BY <1>3 DEF Unverified
  <2> QED
    BY <1>1, <1>3, <2>1, <2>2, QuietStep DEF Unverified, viewVars, Typed
<1>4. ASSUME NEW e \in Events, PushOut(e) PROVE Inv'
  BY <1>1, <1>4, QuietStep DEF PushOut, Typed
<1>5. ASSUME NEW e \in Events, Forget(e) PROVE Inv'
  BY <1>1, <1>5, QuietStep DEF Forget, viewVars, Typed
<1>6. CASE LoadSpace
  BY <1>1, <1>6, QuietStep DEF LoadSpace, viewVars, Typed
<1>7. CASE UNCHANGED vars
  BY <1>1, <1>7, QuietStep DEF vars, viewVars, Typed
<1>8. ASSUME NEW e \in Events, NEW moment \in Moments, Show(e, moment)
      PROVE  Inv'
  <2> DEFINE shown == IF e \notin Private /\ Kind[e] = "track" THEN tracks \cup {e} ELSE tracks
  <2>1. Stores(buf \cup {e}, seen, WithoutPending(e), shown)
    BY <1>1, <1>8, ShowStores
  <2>2. /\ Kind[e] \in {"note", "chat", "track"} /\ ~Rejected(e)
        /\ Kind[e] # "track" => ~PendingAuthorized(e)
        /\ verifying' = verifying \ {e} /\ UNCHANGED <<spaceKnown, persisted, applied>>
        /\ decrypting' = decrypting \/ (e \in Private /\ decrypting' = decrypting \cup {e})
    BY <1>8 DEF Show
  <2>3. e \in Messages => ~PendingAuthorized(e) /\ e \notin deletedNotes
    <3>1. ASSUME e \in Messages, e \in deletedNotes PROVE Kind[e] = "note"
      BY <1>1, <3>1 DEF Typed
    <3> QED
      BY <2>2, <3>1 DEF Messages, Rejected
  <2>4. shown \subseteq Tracks /\ \A t \in shown \ Private : deletedAddr[t] < CreatedAt[t]
    <3>1. Kind[e] = "track" => deletedAddr[e] < CreatedAt[e] /\ e \in Tracks
      BY <1>1, <2>2, PipelineAssumption DEF Rejected, Tracks, Typed
    <3> QED
      BY <1>1, <3>1 DEF Typed, Addressed
  <2>5. decrypting' \subseteq Private /\ applied' \subseteq Events
    BY <1>1, <2>2 DEF Typed
  <2> HIDE DEF shown
  <2>6. \A x \in seen' : x \in verifying \ verifying' =>
          x \in applied' \/ (x \in buf \cup {e} /\ Kind[x] \notin {"deletion", "modDelete"})
    BY <2>2
  <2> QED
    BY <2>1, <2>2, <2>3, <2>4, <2>5, <2>6, StoresStep
<1>9. ASSUME NEW o \in Events, NEW moment \in Moments, Defer(o, moment)
      PROVE  Inv'
  <2>1. Stores(buf \cup {o}, seen \ {o}, WithoutPending(o), tracks)
    BY <1>1, <1>9, DeferStores
  <2>2. /\ o \notin Messages /\ verifying' = verifying \ {o}
        /\ UNCHANGED <<decrypting, spaceKnown, persisted, applied>>
    BY <1>9 DEF Defer, Deferred, Messages
  <2>3. decrypting' \subseteq Private /\ applied' \subseteq Events /\ tracks \subseteq Tracks
        /\ \A t \in tracks \ Private : deletedAddr[t] < CreatedAt[t]
    BY <1>1, <2>2 DEF Typed, Addressed
  <2>4. seen' \subseteq seen \ {o}
    BY <2>1 DEF Stores
  <2>5. \A x \in seen' : x \notin verifying \ verifying'
    BY <2>2, <2>4
  <2> QED
    BY <2>1, <2>2, <2>3, <2>5, StoresStep
<1>10. ASSUME NEW e \in Events, NEW ok \in BOOLEAN, NEW moment \in Moments,
             Decrypted(e, ok, moment)
      PROVE  Inv'
  <2> DEFINE shown == IF ok THEN tracks \cup {e} ELSE tracks
  <2>1. Stores(buf, seen, pending, shown)
    BY <1>1, <1>10, DecryptedStores
  <2>2. /\ e \in decrypting /\ decrypting' = decrypting \ {e}
        /\ UNCHANGED <<verifying, spaceKnown, persisted, applied>>
    BY <1>10 DEF Decrypted
  <2>3. e \in Private /\ e \in Tracks
    BY <1>1, <2>2, PipelineAssumption DEF Typed, Tracks
  <2>4. decrypting' \subseteq Private /\ applied' \subseteq Events /\ shown \subseteq Tracks
        /\ \A t \in shown \ Private : deletedAddr[t] < CreatedAt[t]
    BY <1>1, <2>2, <2>3 DEF Typed, Addressed
  <2> HIDE DEF shown
  <2> QED
    BY <2>1, <2>2, <2>4, StoresStep
<1>11. ASSUME NEW sweeps \in BOOLEAN, Flush(sweeps) PROVE Inv'
  <2>1. Stores(buf, seen, pending, tracks)
    BY <1>1, <1>11, FlushStores
  <2>2. buf # {} /\ UNCHANGED <<verifying, decrypting, spaceKnown, persisted, applied>>
    BY <1>11 DEF Flush
  <2>3. PICK e \in Events : e \in buf
    BY <1>1, <2>2
  <2>4. decrypting' \subseteq Private /\ applied' \subseteq Events /\ tracks \subseteq Tracks
        /\ \A t \in tracks \ Private : deletedAddr[t] < CreatedAt[t]
    BY <1>1, <2>2 DEF Typed, Addressed
  <2> QED
    BY <2>1, <2>2, <2>3, <2>4, StoresStep
<1>12. ASSUME NEW d \in Events, NEW moment \in Moments, NEW stay, Delete(d, moment, stay)
       PROVE  Inv'
  <2>1. /\ Kind[d] \in {"deletion", "modDelete"} /\ verifying' = verifying \ {d}
        /\ applied' = applied \cup {d} /\ persisted' = persisted \cup ({d} \cap Deletions)
        /\ UNCHANGED <<decrypting, spaceKnown>>
    BY <1>12 DEF Delete
  <2>2. CASE Kind[d] = "deletion"
    <3>1. PICK X, D : Erases(d, X, D)
      BY <1>1, <1>12, <2>2, EraseEffect
    <3> QED
      BY <2>1, <2>2, <3>1, ErasesStep
  <2>3. CASE Kind[d] = "modDelete"
    <3>1. d \notin Deletions /\ d \notin Messages /\ persisted' = persisted
      BY <2>1, <2>3 DEF Deletions, Messages
    <3>2. CASE Author[d] \in Moderators
      <4>1. PICK S : Moderates(d, S)
        BY <1>1, <1>12, <2>3, <3>2, ModerateEffect
      <4> QED
        BY <2>1, <2>3, <3>1, <3>2, <4>1, ModeratesStep
    <3>3. CASE Author[d] \notin Moderators
      <4>1. Stores(buf \cup {d}, seen, WithoutPending(d), tracks)
        BY <1>1, <1>12, <2>3, <3>3, IgnoredStores
      <4>2. decrypting' \subseteq Private /\ applied' \subseteq Events /\ tracks \subseteq Tracks
            /\ \A t \in tracks \ Private : deletedAddr[t] < CreatedAt[t]
        BY <1>1, <2>1 DEF Typed, Addressed
      <4>3. applied' \cap Deletions = applied \cap Deletions
        BY <2>1, <3>1
      <4> QED
        BY <2>1, <3>1, <4>1, <4>2, <4>3, StoresStep
    <3> QED
      BY <3>2, <3>3
  <2> QED
    BY <2>1, <2>2, <2>3
<1>13. ASSUME NEW d \in Events, Expire(d) PROVE Inv'
  BY <1>1, <1>13, QuietStep DEF Expire, viewVars, Typed
<1> QED
  BY <1>2, <1>3, <1>4, <1>5, <1>6, <1>7, <1>8, <1>9, <1>10, <1>11, <1>12, <1>13, DropStep,
     RestartStep DEF Next

\* The invariant from which the theorems below follow: it holds at the start and
\* every continuation of the pipeline (eventPipeline.ts:371) keeps it.
THEOREM PipelineInvariant == Spec => []Inv
BY InvInit, InvStep, PTL DEF Spec

\* The types: no set holds what it should not, the table of requests has each
\* target once and keeps within its cap (eventsSlice.ts:378), and so does the
\* number of events with the worker.
THEOREM TypeInvariant == Spec => []TypeOK
<1>1. Inv => TypeOK
  <2> SUFFICES ASSUME Inv PROVE TypeOK
    OBVIOUS
  <2>1. Typed
    BY DEF Inv
  <2>2. IsInjective([i \in DOMAIN pending |-> pending[i].target])
    BY <2>1 DEF Typed, Table, IsInjective
  <2> QED
    BY <2>1, <2>2 DEF Typed, Table, TypeOK, Deletions, FeedsKnown
<1> QED
  BY <1>1, PipelineInvariant, PTL

\* What its author deleted is not shown, whatever came first and however often
\* the relays deliver it (eventPipeline.ts:457).
THEOREM DeletedStaysDeletedInvariant == Spec => []DeletedStaysDeleted
<1>1. Inv => DeletedStaysDeleted
  <2> SUFFICES ASSUME Inv PROVE DeletedStaysDeleted
    OBVIOUS
  <2>1. Typed /\ Addressed /\ Remembered /\ Absent
    BY DEF Inv
  <2>2. ASSUME NEW e \in Events, Kind[e] \in {"note", "chat"}, Disowned(e)
        PROVE  e \notin (entities \cup buf) \ hidden \/ e \in forgotten
    <3>1. e \in Messages
      BY <2>2 DEF Messages
    <3>2. PendingAuthorized(e) => e \in Keys(pending)
      BY DEF PendingAuthorized, Keys
    <3> QED
      BY <2>1, <2>2, <3>1, <3>2 DEF Remembered, Absent
  <2>3. ASSUME NEW t \in tracks \ Private, NEW d \in applied \cap Deletions,
               t \in AddrTags[d], Author[d] = Author[t], CreatedAt[t] <= CreatedAt[d]
        PROVE  FALSE
    <3>1. t \in Tracks /\ t \in Events /\ d \in Events
      BY <2>1 DEF Typed, Tracks
    <3>2. CreatedAt[t] \in Nat /\ CreatedAt[d] \in Nat /\ deletedAddr[t] \in Nat \cup {-1}
      BY <2>1, <3>1, PipelineAssumption DEF Typed
    <3>3. CreatedAt[d] <= deletedAddr[t] /\ deletedAddr[t] < CreatedAt[t]
      BY <2>1, <2>3, <3>1 DEF Addressed, Unnames
    <3> QED
      BY <2>3, <3>2, <3>3
  <2> QED
    BY <2>2, <2>3 DEF DeletedStaysDeleted
<1> QED
  BY <1>1, PipelineInvariant, PTL

\* Only its author or a moderator makes a message disappear (eventPipeline.ts:461).
THEOREM NoCensorshipInvariant == Spec => []NoCensorship
<1>1. Inv => NoCensorship
  BY DEF Inv
<1> QED
  BY <1>1, PipelineInvariant, PTL

\* The deduplicator drops nothing that has had no effect (eventPipeline.ts:258).
THEOREM SeenIsAccountedInvariant == Spec => []SeenIsAccounted
<1>1. Inv => SeenIsAccounted
  BY DEF Inv, Accounted, SeenIsAccounted
<1> QED
  BY <1>1, PipelineInvariant, PTL
=============================================================================
