---------------------------- MODULE EventPipeline ----------------------------
(***************************************************************************)
(* The client's event pipeline (eventPipeline.ts) with the part of the      *)
(* store it writes (eventsSlice.ts, the tracks of musicSlice.ts): notes,    *)
(* chat messages and music tracks, and the two events that remove them, the *)
(* author's kind:5 and the moderator's kind:9005.                           *)
(*                                                                         *)
(* Relays deliver in any order and again.  An event is marked seen, then    *)
(* its signature is checked in a worker, then it is applied in one step,    *)
(* except that a private track is decrypted first.  What it adds to the     *)
(* store waits in a buffer for a timer; a deletion flushes it.  Gift wraps  *)
(* leave the pipeline after the signature check (Session).                  *)
(*                                                                         *)
(* Bounds: an id is not pushed out of the deduplicator (100,000 entries)    *)
(* while it is verified or decrypted; InFlight events are verified at once. *)
(***************************************************************************)
EXTENDS Integers, SequencesExt

CONSTANTS
  Events,
  Kind,         \* "note", "chat", "track", "deletion" or "modDelete"
  Author,
  CreatedAt,
  Tags,         \* the e-tags of a deletion or modDelete, in order
  AddrTags,     \* the tracks whose address a deletion names
  Private,      \* tracks with encrypted content
  Moderators,
  SoftCap,      \* ENTITY_SOFT_CAP
  SweepTarget,  \* ENTITY_SWEEP_TARGET
  MaxBuffer,    \* MAX_BUFFER
  PendingCap,   \* PENDING_DELETION_CAP
  InFlight,     \* bound on the events in verification
  Forgettable   \* ids the deduplicator may run out of room for (others come again
                \* after a sweep)

ASSUME PipelineAssumption ==
  /\ {SoftCap, SweepTarget, MaxBuffer, PendingCap, InFlight} \subseteq Nat \ {0}
  /\ SweepTarget <= SoftCap
  /\ \A e \in Events : CreatedAt[e] \in Nat /\ Tags[e] \in Seq(Range(Tags[e]))
  /\ \A e \in Events : AddrTags[e] \subseteq {t \in Events : Kind[t] = "track"}
  /\ Private \subseteq {t \in Events : Kind[t] = "track"}

VARIABLES
  seen,         \* the deduplicator
  verifying,    \* events with the worker
  decrypting,   \* private tracks being decrypted
  buf,          \* events waiting for the flush
  entities,     \* events in the store
  feeds,        \* those a feed, channel or library lists
  hidden,       \* deletedMessageIds
  deletedNotes, \* deletedNoteIds
  deletedAddr,  \* per track, the time its address was deleted at, or -1
  pending,      \* pendingDeletions, oldest first: [target, by]
  tracks,       \* tracks in the music store
  spaceKnown,   \* the space of the chat is loaded
  persisted,    \* deletions with a row in IndexedDB
  \* history
  applied,      \* deletions applied since the start, or read back at it
  forgotten     \* targets whose pending deletion the cap pushed out

viewVars    == <<entities, feeds, hidden, deletedNotes, deletedAddr, pending, tracks>>
vars == <<seen, verifying, decrypting, buf, viewVars, spaceKnown, persisted, applied, forgotten>>

Deletions == {e \in Events : Kind[e] = "deletion"}
Tracks    == {e \in Events : Kind[e] = "track"}

-----------------------------------------------------------------------------
\* What a step does to the store: the variables it may change, as a record.
View == [entities |-> entities, feeds |-> feeds, hidden |-> hidden,
         deletedNotes |-> deletedNotes, deletedAddr |-> deletedAddr,
         pending |-> pending, tracks |-> tracks, forgotten |-> forgotten, seen |-> seen]

Becomes(v) ==
  /\ entities' = v.entities /\ feeds' = v.feeds /\ hidden' = v.hidden
  /\ deletedNotes' = v.deletedNotes /\ deletedAddr' = v.deletedAddr
  /\ pending' = v.pending /\ tracks' = v.tracks
  /\ forgotten' = v.forgotten /\ seen' = v.seen

Listed(es) == {e \in es : Kind[e] \in {"note", "chat", "track"}}

\* computeSweep: the oldest entities that no index lists.
Evicted(v) ==
  LET idle == v.entities \ v.feeds
      need == Cardinality(v.entities) - SweepTarget
      older(e) == {x \in idle : CreatedAt[x] < CreatedAt[e]}
  IN  IF Cardinality(v.entities) <= SoftCap THEN {}
      ELSE {e \in idle : Cardinality(older(e)) < need}

\* Mutant of Sweep: the deduplicator goes on dropping what was evicted.
Sweep_KeepsSeen(v) == [v EXCEPT !.entities = @ \ Evicted(v)]

Sweep(v) == [v EXCEPT !.entities = @ \ Evicted(v), !.seen = @ \ Evicted(v)]

\* flushEventPipeline: entities, then indices; every fourth flush sweeps.
Flushed(v, batch, sweeps) ==
  LET w == [v EXCEPT !.entities = @ \cup batch, !.feeds = @ \cup Listed(batch)]
  IN  IF sweeps /\ batch # {} THEN Sweep(w) ELSE w

\* Mutant of PendingAuthorized: whoever asked.
PendingAuthorized_Anyone(e) == \E i \in DOMAIN pending : pending[i].target = e

\* Steps 3d: one of those who asked for the deletion is the author.
PendingAuthorized(e) ==
  \E i \in DOMAIN pending : pending[i].target = e /\ Author[e] \in pending[i].by

\* clearPendingDeletion: at most one entry has the key.
WithoutPending(e) ==
  LET at == {i \in DOMAIN pending : pending[i].target = e}
  IN  IF at = {} THEN pending ELSE RemoveAt(pending, CHOOSE i \in at : TRUE)

\* Mutant of TrackPending: one key too many.
TrackPending_OffByOne(v, target, by) ==
  LET known == \E i \in DOMAIN v.pending : v.pending[i].target = target
      new   == [target |-> target, by |-> {by}]
  IN  IF known THEN v
      ELSE IF Len(v.pending) > PendingCap THEN [v EXCEPT !.pending = Append(Tail(@), new)]
      ELSE [v EXCEPT !.pending = Append(@, new)]

\* trackPendingDeletion: a full map drops its oldest key.
TrackPending(v, target, by) ==
  LET known  == \E i \in DOMAIN v.pending : v.pending[i].target = target
      joined == [i \in DOMAIN v.pending |->
                   LET r == v.pending[i]
                   IN  IF r.target = target THEN [r EXCEPT !.by = @ \cup {by}] ELSE r]
      new    == [target |-> target, by |-> {by}]
  IN  IF known THEN [v EXCEPT !.pending = joined]
      ELSE IF Len(v.pending) >= PendingCap
      THEN [v EXCEPT !.pending = Append(Tail(@), new),
                     !.forgotten = @ \cup {v.pending[1].target}]
      ELSE [v EXCEPT !.pending = Append(@, new)]

\* The e-tags that name nothing in the store wait, in their order.
TrackUnknown(v, d) ==
  LET after[n \in 0 .. Len(Tags[d])] ==
        IF n = 0 THEN v
        ELSE IF Tags[d][n] \in v.entities THEN after[n - 1]
        ELSE TrackPending(after[n - 1], Tags[d][n], Author[d])
  IN  after[Len(Tags[d])]

\* Chat messages and notes leave the store for good, and the index of the author or
\* of the channel named.  Other indices go on listing them (stay): those of replies,
\* quotes and a space's feed, and of the default channel that a message with no
\* channel tag was filed under.
Removed(v, S, stay) ==
  [v EXCEPT !.entities = @ \ S, !.feeds = @ \ (S \ stay),
            !.hidden = @ \cup {e \in S : Kind[e] = "chat"},
            !.deletedNotes = @ \cup {e \in S : Kind[e] = "note"}]

\* What the e-tags of a kind:5 name in the store and its author may delete.
Deletable(v, d) ==
  {e \in Range(Tags[d]) \cap v.entities : Author[e] = Author[d] /\ Kind[e] \in {"chat", "note"}}

\* Mutant of DeleteByIds: an unknown target is not remembered.
DeleteByIds_ForgetsUnknown(v, d, stay) == Removed(v, Deletable(v, d), stay)

\* The e-tags of a kind:5, looked up in the store as it was before the first of
\* them: a known target goes if its author asks, whatever else is asked of one is
\* ignored; for an unknown one the request waits.
DeleteByIds(v, d, stay) == Removed(TrackUnknown(v, d), Deletable(v, d), stay)

\* The a-tags: the time is kept and what is not newer goes.
DeleteByAddr(v, d) ==
  LET mine == {t \in AddrTags[d] : Author[t] = Author[d]}
      at   == CreatedAt[d]
  IN  [v EXCEPT
        !.deletedAddr = [t \in Tracks |-> IF t \in mine /\ @[t] < at THEN at ELSE @[t]],
        !.tracks = {t \in @ : ~(t \in mine /\ CreatedAt[t] <= at)}]

\* A kind:9005 of a moderator: what is known and of its group, or of none; only the
\* channel named stops listing it.
ModDelete(v, o, stay) ==
  LET known == Range(Tags[o]) \cap v.entities
      chats == {e \in known : Kind[e] = "chat"}
  IN  [v EXCEPT !.entities = @ \ known, !.feeds = @ \ (chats \ stay), !.hidden = @ \cup known]

\* What applying a deletion does to the view the flush has left.
Deleted(v, d, stay) ==
  IF Kind[d] = "modDelete" THEN ModDelete(v, d, stay)
  ELSE DeleteByIds(DeleteByAddr(v, d), d, stay)

-----------------------------------------------------------------------------
\* A relay delivers an event that is not a duplicate: it is marked, and sent to
\* the worker.
Deliver(e) ==
  /\ e \notin seen \cup verifying \cup decrypting
  /\ Cardinality(verifying) < InFlight
  /\ seen' = seen \cup {e} /\ verifying' = verifying \cup {e}
  /\ UNCHANGED <<decrypting, buf, viewVars, spaceKnown, persisted, applied, forgotten>>

\* The signature is refused, or the check times out: another relay may try.
Unverified(e) ==
  /\ e \in verifying
  /\ verifying' = verifying \ {e} /\ seen' = seen \ {e}
  /\ UNCHANGED <<decrypting, buf, viewVars, spaceKnown, persisted, applied, forgotten>>

\* Steps 3b and 3c: it was deleted and is delivered again.
Rejected(e) ==
  \/ Kind[e] = "note" /\ e \in deletedNotes
  \/ Kind[e] = "track" /\ CreatedAt[e] <= deletedAddr[e]

\* The event is dropped: deleted before, or by a deletion that waited for it.
DropDeleted(e) ==
  /\ e \in verifying
  /\ \/ Rejected(e) /\ UNCHANGED viewVars
     \/ /\ ~Rejected(e) /\ Kind[e] \in {"note", "chat"} /\ PendingAuthorized(e)
        /\ pending' = WithoutPending(e)
        /\ IF Kind[e] = "chat"
           THEN hidden' = hidden \cup {e} /\ UNCHANGED deletedNotes
           ELSE deletedNotes' = deletedNotes \cup {e} /\ UNCHANGED hidden
        /\ UNCHANGED <<entities, feeds, deletedAddr, tracks>>
  /\ verifying' = verifying \ {e}
  /\ UNCHANGED <<seen, decrypting, buf, spaceKnown, persisted, applied, forgotten>>

\* When the buffer is flushed: at the timer, or at once, and then perhaps swept.
Moments == {"later", "now", "sweeping"}

\* scheduleFlush: the buffer waits unless it is full; it is flushed at once then, or
\* when the event is the client's own.
Buffered(v, batch, moment) ==
  \/ /\ moment = "later" /\ Cardinality(batch) < MaxBuffer
     /\ Becomes(v) /\ buf' = batch
  \/ /\ moment # "later"
     /\ Becomes(Flushed(v, batch, moment = "sweeping")) /\ buf' = {}

\* Step 3d leaves no pending deletion, and the event is shown: a note, a message,
\* a public track.  A private one is decrypted first; it may be flushed meanwhile.
Show(e, moment) ==
  LET v == [View EXCEPT !.pending = WithoutPending(e)]
  IN  /\ e \in verifying /\ Kind[e] \in {"note", "chat", "track"} /\ ~Rejected(e)
      /\ Kind[e] # "track" => ~PendingAuthorized(e)
      /\ verifying' = verifying \ {e}
      /\ IF e \in Private
         THEN /\ Becomes(v) /\ buf' = buf \cup {e}
              /\ decrypting' = decrypting \cup {e}
         ELSE /\ Buffered(IF Kind[e] = "track" THEN [v EXCEPT !.tracks = @ \cup {e}] ELSE v,
                          buf \cup {e}, moment)
              /\ UNCHANGED decrypting
      /\ UNCHANGED <<spaceKnown, persisted, applied>>

\* The decryption is done, or is not for us.
Decrypted(e, ok, moment) ==
  /\ e \in decrypting
  /\ decrypting' = decrypting \ {e}
  /\ Buffered(IF ok THEN [View EXCEPT !.tracks = @ \cup {e}] ELSE View, buf, moment)
  /\ UNCHANGED <<verifying, spaceKnown, persisted, applied>>

\* A 9005 whose space is not known is dropped and may come again; the event
\* itself is kept like any other.
Deferred(o) == Kind[o] = "modDelete" /\ ~spaceKnown

Defer(o, moment) ==
  /\ o \in verifying /\ Deferred(o)
  /\ verifying' = verifying \ {o}
  /\ Buffered([View EXCEPT !.pending = WithoutPending(o), !.seen = @ \ {o}],
              buf \cup {o}, moment)
  /\ UNCHANGED <<decrypting, spaceKnown, persisted, applied>>

\* A deletion: the buffer is flushed, so that what came with it is found, then its
\* tags are applied and it is kept in IndexedDB.
Delete(d, moment, stay) ==
  LET v == [View EXCEPT !.pending = WithoutPending(d)]
  IN  /\ d \in verifying /\ Kind[d] \in {"deletion", "modDelete"} /\ ~Deferred(d)
      /\ verifying' = verifying \ {d}
      /\ IF Kind[d] = "modDelete" /\ Author[d] \notin Moderators
         THEN Buffered(v, buf \cup {d}, moment)
         ELSE /\ moment # "later"
              /\ Becomes(Deleted(Flushed(v, buf \cup {d}, moment = "sweeping"), d, stay)) /\ buf' = {}
      /\ applied' = applied \cup {d}
      /\ persisted' = persisted \cup ({d} \cap Deletions)
      /\ UNCHANGED <<decrypting, spaceKnown>>

Flush(sweeps) ==
  /\ buf # {}
  /\ Becomes(Flushed(View, buf, sweeps)) /\ buf' = {}
  /\ UNCHANGED <<verifying, decrypting, spaceKnown, persisted, applied>>

\* The cap of an index pushes a note or a track out of it; chat has no cap.
PushOut(e) ==
  /\ e \in feeds /\ Kind[e] # "chat"
  /\ feeds' = feeds \ {e}
  /\ UNCHANGED <<seen, verifying, decrypting, buf, entities, hidden, deletedNotes, deletedAddr,
                 pending, tracks, spaceKnown, persisted, applied, forgotten>>

\* The deduplicator is full and forgets an id.
Forget(e) ==
  /\ e \in (Forgettable \cap seen) \ (verifying \cup decrypting)
  /\ seen' = seen \ {e}
  /\ UNCHANGED <<verifying, decrypting, buf, viewVars, spaceKnown, persisted, applied, forgotten>>

LoadSpace ==
  /\ ~spaceKnown
  /\ spaceKnown' = TRUE
  /\ UNCHANGED <<seen, verifying, decrypting, buf, viewVars, persisted, applied, forgotten>>

\* A row is seven days old and is evicted, or another deletion named it.
Expire(d) ==
  /\ d \in persisted
  /\ persisted' = persisted \ {d}
  /\ UNCHANGED <<seen, verifying, decrypting, buf, viewVars, spaceKnown, applied, forgotten>>

\* The ids that the deletions read back name, and who asked for each.
Targets(read)    == UNION {Range(Tags[d]) : d \in read}
Askers(read, id) == {Author[d] : d \in {x \in read : id \in Range(Tags[x])}}

\* The time of the latest of them that names the track's address.
Latest(read, t) ==
  Max({-1} \cup {CreatedAt[d] : d \in {x \in read : t \in AddrTags[x] /\ Author[x] = Author[t]}})

\* The client restarts; relays are asked once the deletions are read back, in
\* whatever order: all targets wait, or as many as the cap leaves.  The first 500
\* rows are read, and which of these deletions are among them is open, for the
\* table holds those of everybody.
Restart(read) ==
  /\ \E n \in 0 .. PendingCap : \E kept \in [1 .. n -> Targets(read)] :
       /\ IsInjective(kept) /\ (Range(kept) = Targets(read) \/ n = PendingCap)
       /\ pending' = [i \in 1 .. n |-> [target |-> kept[i], by |-> Askers(read, kept[i])]]
       /\ forgotten' = Targets(read) \ Range(kept)
  /\ deletedAddr' = [t \in Tracks |-> Latest(read, t)]
  /\ entities' = {} /\ feeds' = {} /\ hidden' = {} /\ deletedNotes' = {} /\ tracks' = {}
  /\ seen' = {} /\ verifying' = {} /\ decrypting' = {} /\ buf' = {} /\ spaceKnown' = FALSE
  /\ applied' = read
  /\ UNCHANGED persisted

Init ==
  /\ entities = {} /\ feeds = {} /\ hidden = {} /\ deletedNotes = {}
  /\ deletedAddr = [t \in Tracks |-> -1] /\ pending = <<>> /\ tracks = {}
  /\ forgotten = {} /\ seen = {}
  /\ verifying = {} /\ decrypting = {} /\ buf = {} /\ spaceKnown = FALSE
  /\ applied = {} /\ persisted = {}

Next ==
  \/ \E e \in Events : Deliver(e) \/ Unverified(e) \/ DropDeleted(e) \/ PushOut(e) \/ Forget(e)
  \/ \E e \in Events, moment \in Moments :
       \/ Show(e, moment) \/ Defer(e, moment)
       \/ \E stay \in SUBSET Range(Tags[e]) : Delete(e, moment, stay)
  \/ \E e \in Events, ok \in BOOLEAN, moment \in Moments : Decrypted(e, ok, moment)
  \/ \E sweeps \in BOOLEAN : Flush(sweeps)
  \/ LoadSpace
  \/ \E d \in Events : Expire(d)
  \/ \E read \in SUBSET persisted : Restart(read)

Spec == Init /\ [][Next]_vars

-----------------------------------------------------------------------------
\* The types; a listed id with no entity was deleted, and the table of pending
\* deletions has each target once and keeps its cap.
TypeOK ==
  /\ seen \subseteq Events /\ decrypting \subseteq Private
  /\ verifying \subseteq Events /\ Cardinality(verifying) <= InFlight
  /\ buf \subseteq Events /\ entities \subseteq Events
  /\ feeds \subseteq Listed(entities \cup hidden \cup deletedNotes)
  /\ deletedAddr \in [Tracks -> Nat \cup {-1}] /\ tracks \subseteq Tracks
  /\ Len(pending) <= PendingCap /\ IsInjective([i \in DOMAIN pending |-> pending[i].target])
  /\ persisted \subseteq Events /\ spaceKnown \in BOOLEAN

\* A kind:5 of the author names e.
Disowned(e) ==
  \E d \in applied \cap Deletions :
    Author[d] = Author[e] /\ (e \in Range(Tags[d]) \/ (e \in AddrTags[d] /\ CreatedAt[e] <= CreatedAt[d]))

ModDeleted(e) ==
  \E o \in applied : Kind[o] = "modDelete" /\ Author[o] \in Moderators /\ e \in Range(Tags[o])

\* Whatever order a message and the author's deletion come in, however often,
\* and across sweeps and restarts, what its author deleted is not shown, unless
\* the deletion waited and the cap dropped it (eventPipeline.ts:457-476); the same
\* for a track by its address, but not for a private one, which is checked before
\* it is decrypted and not after.  A deletion holds from when it is applied to the
\* first restart that does not read it back, because its row is not among the
\* first 500 (loginFlow.ts:886) or was evicted after seven days
\* (eventStore.ts:6, 104-124), until it is delivered again.
DeletedStaysDeleted ==
  /\ \A e \in Events :
       Kind[e] \in {"note", "chat"} /\ Disowned(e) =>
         e \notin (entities \cup buf) \ hidden \/ e \in forgotten
  /\ \A t \in tracks \ Private : ~\E d \in applied \cap Deletions :
       t \in AddrTags[d] /\ Author[d] = Author[t] /\ CreatedAt[t] <= CreatedAt[d]

\* Nobody but the author or a moderator makes a message disappear (#21).
NoCensorship ==
  /\ \A e \in deletedNotes : Disowned(e)
  /\ \A e \in hidden : Disowned(e) \/ ModDeleted(e)

\* What the deduplicator would drop has had its effect: it is on its way, shown,
\* applied, or was deleted with right (eventPipeline.ts:249-252, 996-1002).
SeenIsAccounted ==
  \A e \in seen :
    \/ e \in verifying \cup decrypting \cup buf
    \/ e \in applied
    \/ Kind[e] \notin {"deletion", "modDelete"} /\
         (e \in entities \/ Disowned(e) \/ ModDeleted(e))
=============================================================================
