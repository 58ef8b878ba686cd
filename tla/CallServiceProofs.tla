-------------------------- MODULE CallServiceProofs --------------------------
(***************************************************************************)
(* Proofs about CallService for any calls and partners: the types, that a    *)
(* hang-up releases what the call held, and that no call is ended by         *)
(* another's timer, signal or failure.                                       *)
(***************************************************************************)
EXTENDS CallService, TLAPS

LEMMA Constants == Outgoing \subseteq Rooms /\ Nothing \notin Rooms
BY CallAssumption

USE Constants

\* A call is not Nothing.
LEMMA CallIsSomething ==
  ASSUME NEW id \in Rooms, NEW room \in Rooms \cup {Nothing},
         NEW state \in {"ringing", "connecting", "active"}, NEW sfu \in BOOLEAN
  PROVE  Nothing # [id |-> id, room |-> room, state |-> state, isSfuFallback |-> sfu]
BY CallAssumption

LEMMA ConnIsSomething == \A o \in Conns : o # Nothing
BY CallAssumption

-----------------------------------------------------------------------------
SetUpOps == {"answer", "start", "fallback", "upgrade"}
States   == {"ringing", "connecting", "active"}

\* Where each function waits.
Ops    == SetUpOps \cup {"initiate", "hangup"}
Points == {"wrap", "room", "media", "relays", "token", "replace", "connect", "publish media", "abandon",
           "publish", "publishSfu", "leave"}
Waits ==
  ({"initiate"} \X {"wrap"})
    \cup ({"answer"} \X {"room", "media", "relays"})
    \cup ({"start"} \X {"media", "relays"})
    \cup ({"fallback", "upgrade"} \X {"token", "replace", "connect", "publish media", "abandon"})
    \cup ({"hangup"} \X {"publish", "publishSfu", "leave"})

\* A set-up for LiveKit has a room of its call, and a function awaits a disconnect only
\* where it calls it.
TaskShape(t) ==
  /\ <<t.op, t.step>> \in Waits
  /\ t.op \in {"fallback", "upgrade"} => t.conn \in Conns /\ t.conn.room = t.room
  /\ t.old # Nothing => t.step \in {"replace", "abandon", "leave"}
TaskTypes ==
  /\ tasks \subseteq [op : Ops, room : placed, step : Points, conn : Maybe(Conns), old : Maybe(Conns)]
  /\ \A t \in tasks : TaskShape(t)

Types ==
  /\ placed \subseteq Rooms /\ invited \subseteq placed
  /\ active \in Maybe([id : placed, room : Maybe(placed), state : States, isSfuFallback : BOOLEAN])
  /\ incoming \in Maybe(Rooms \ Outgoing)
  /\ incoming # Nothing => active = Nothing
  /\ {ringTimer, localStream, disconnectGraceTimer} \subseteq Maybe(placed)
  /\ joined \subseteq {o \in Conns : o.room \in placed} /\ currentRoom \in Maybe(joined)
  /\ pc \in Maybe([room : placed, ice : {"new", "checking", "connected", "disconnected", "failed"}])
  /\ open \subseteq placed
  /\ endedBy = [r \in Rooms |-> endedBy[r]]
  /\ TaskTypes

\* An invite is shown once, and a call accepted once.
Fresh ==
  /\ incoming # Nothing => incoming \notin placed
  /\ \A r \in Rooms \ Outgoing : r \in placed \/ r = incoming => <<"invite", r>> \in processed

IsActive(r) == active # Nothing /\ active.id = r
Ok(r) == IsActive(r) \/ r \in astray

\* The room a call was given is its own, except when another's answer went astray;
\* while it rings it is its own.
RoomKnown ==
  active # Nothing => /\ active.room \in {Nothing, active.id} \cup astray
                      /\ active.state = "ringing" => active.room = active.id

\* A set-up that will acquire media belongs to the call there is, or to one astray.
Acquires(t) == t.op \in {"answer", "start"} \/ t.step = "publish media"
Joining == \A t \in tasks : Acquires(t) => Ok(t.room)

\* A hang-up and a set-up under way for one call put it astray.
Crossing ==
  \A t, u \in tasks : t.op = "hangup" /\ u.op \in SetUpOps /\ t.room = u.room => t.room \in astray

\* A capture not stopped is the one in hand, or astray.
HeldOpen == \A r \in open : localStream = r \/ r \in astray

\* A room that is joined is referred to, or being left.
Accounted == \A o \in joined : o = currentRoom \/ o.room \in astray \/ BeingLeft(o)

\* A call whose room is joined knows it, or is about to.
Connected ==
  \A o \in joined : IsActive(o.room) =>
    \/ active.isSfuFallback \/ o.room \in astray \/ BeingLeft(o)
    \/ \E t \in tasks : t.room = o.room /\ t.step = "publish media"

\* What a hang-up will not release any more is released.
RoomsLeft(r) == \A o \in joined : o.room = r => BeingLeft(o)
Departing == \A t \in tasks : t.step \in {"publish", "leave"} => t.room \in astray \/ RoomsLeft(t.room)
Released ==
  \A t \in tasks : t.step = "leave" =>
    \/ t.room \in astray
    \/ localStream # t.room /\ t.room \notin open /\ (pc # Nothing => pc.room # t.room)

CallInv  == Types /\ Fresh /\ RoomKnown /\ Joining /\ Crossing
MediaInv == HeldOpen /\ Accounted /\ Connected /\ Departing /\ Released /\ HeldByCall
IInv     == CallInv /\ MediaInv /\ EndedByOwn

-----------------------------------------------------------------------------
\* What the reducer leaves: the call that was active went astray, or was hung up by
\* itself with no set-up left.
LEMMA EndCallShape ==
  ASSUME Types, NEW by, NEW how, EndCall(by, how)
  PROVE  /\ active' = Nothing /\ incoming' = Nothing
         /\ astray \subseteq astray' /\ Forgotten \subseteq astray'
         /\ endedBy' = [r \in Rooms |-> endedBy'[r]]
         /\ \A r \in Rooms : IsActive(r) =>
              r \in astray' \/ (how = "hangup" /\ by = r /\ ~SettingUp(r))
         /\ \A r \in Rooms : endedBy'[r] # endedBy[r] =>
              IsActive(r) /\ by # r /\ endedBy'[r] = [room |-> by, how |-> how]
<1>1. CASE active = Nothing
  BY <1>1 DEF EndCall, Types, IsActive
<1>2. CASE active # Nothing
  <2>1. active.id \in Rooms
    BY <1>2 DEF Types, Maybe
  <2>2. /\ active' = Nothing /\ incoming' = Nothing
        /\ endedBy' = IF by = active.id THEN endedBy
                       ELSE [endedBy EXCEPT ![active.id] = [room |-> by, how |-> how]]
        /\ astray' = (astray \cup Forgotten)
                       \cup {r \in {active.id} : how # "hangup" \/ by # r \/ SettingUp(r)}
    BY <1>2 DEF EndCall
  <2>3. /\ endedBy' = [r \in Rooms |-> endedBy'[r]]
        /\ \A r \in Rooms : endedBy'[r] # endedBy[r] =>
              active.id = r /\ by # r /\ endedBy'[r] = [room |-> by, how |-> how]
    BY <2>1, <2>2 DEF Types
  <2> QED
    BY <1>2, <2>2, <2>3 DEF IsActive
<1> QED
  BY <1>1, <1>2

-----------------------------------------------------------------------------
\* The suspended functions a step adds, or that go on, are of the types.
LEMMA TypesStep == Types /\ [Next]_vars => Types'
<1> SUFFICES ASSUME Types, [Next]_vars PROVE Types'
  OBVIOUS
<1>ended. ASSUME NEW by, NEW how, EndCall(by, how)
          PROVE  active' = Nothing /\ incoming' = Nothing /\ endedBy' = [r \in Rooms |-> endedBy'[r]]
  BY <1>ended, EndCallShape
<1> USE DEF Types, Maybe, States
<1>1. ASSUME UNCHANGED tasks, placed \subseteq placed' PROVE TaskTypes'
  BY <1>1 DEF TaskTypes
<1>2. ASSUME NEW t \in tasks, tasks' = tasks \ {t}, placed' = placed PROVE TaskTypes'
  BY <1>2 DEF TaskTypes
<1>3. ASSUME NEW r \in placed', NEW op, NEW step, <<op, step>> \in Waits,
             NEW conn \in Maybe(Conns), NEW old \in Maybe(Conns),
             op \in {"fallback", "upgrade"} => conn \in Conns /\ conn.room = r,
             old # Nothing => step = "leave",
             tasks' = tasks \cup {Task(op, r, step, conn, old)}, placed \subseteq placed'
      PROVE  TaskTypes'
  <2>1. op \in Ops /\ step \in Points
    BY <1>3 DEF Waits, Ops, SetUpOps, Points
  <2>2. TaskShape(Task(op, r, step, conn, old))
    BY <1>3 DEF Task, TaskShape
  <2>3. Task(op, r, step, conn, old)
          \in [op : Ops, room : placed', step : Points, conn : Maybe(Conns), old : Maybe(Conns)]
    BY <2>1 DEF Task
  <2> QED
    BY <1>3, <2>2, <2>3 DEF TaskTypes
<1>4. ASSUME NEW t \in tasks, NEW step, <<t.op, step>> \in Waits, NEW old \in Maybe(Conns),
             old # Nothing => step \in {"replace", "abandon", "leave"},
             Goes(t, step, old), placed' = placed
      PROVE  TaskTypes'
  <2>1. step \in Points
    BY <1>4 DEF Waits, Ops, SetUpOps, Points
  <2>2. TaskShape(At(t, step, old))
    BY <1>4 DEF At, Task, TaskShape, TaskTypes
  <2>3. At(t, step, old)
          \in [op : Ops, room : placed, step : Points, conn : Maybe(Conns), old : Maybe(Conns)]
    BY <2>1 DEF At, Task, TaskTypes
  <2> QED
    BY <1>4, <2>2, <2>3 DEF TaskTypes, Goes
<1>room. currentRoom \in Maybe(Conns) /\ (currentRoom # Nothing => currentRoom \in joined)
  OBVIOUS
<1>left. ASSUME NEW t \in tasks, Disconnected(t), placed' = placed
         PROVE  joined' \subseteq {o \in Conns : o.room \in placed'} /\ currentRoom' \in Maybe(joined')
  BY <1>left DEF Disconnected
<1>5. ASSUME NEW r \in Rooms, InitiateCall(r) PROVE Types'
  <2>1. TaskTypes'
    BY <1>3, <1>5 DEF InitiateCall, Waits
  <2> QED
    BY <1>5, <2>1 DEF InitiateCall, mediaVars, p2pVars, roomVars, timerVars
<1>6. ASSUME NEW r \in Rooms, Connect(r) PROVE Types'
  <2>1. TaskTypes'
    BY <1>3, <1>6 DEF Connect, SetUp, Waits
  <2> QED
    BY <1>6, <2>1 DEF Connect, mediaVars, p2pVars, roomVars
<1>7. ASSUME NEW r \in Rooms, Describe(r) PROVE Types'
  BY <1>1, <1>7 DEF Describe, storeVars, timerVars, roomVars, historyVars
<1>8. ASSUME NEW r \in Rooms, RemoteDisconnect(r) PROVE Types'
  <2>1. TaskTypes'
    <3>1. active.id \in placed /\ <<"hangup", "leave">> \in Waits
      BY <1>8 DEF RemoteDisconnect, InCall, Waits
    <3>2. UNCHANGED tasks \/ tasks' = tasks \cup {Task("hangup", active.id, "leave", Nothing, currentRoom)}
      BY <1>8 DEF RemoteDisconnect
    <3> QED
      BY <1>1, <1>3, <1>8, <1>room, <3>1, <3>2 DEF RemoteDisconnect
  <2>2. UNCHANGED <<active, incoming, endedBy>> \/ EndCall(r, "hangup")
    BY <1>8 DEF RemoteDisconnect, CallStays
  <2> QED
    BY <1>8, <2>1, <2>2, <1>ended DEF RemoteDisconnect, ReleaseP2P, roomVars
<1>9. ASSUME NEW r \in Rooms, NEW fresh \in BOOLEAN, ReceiveInvite(r, fresh) PROVE Types'
  BY <1>1, <1>9 DEF ReceiveInvite, Wrap, timerVars, mediaVars, p2pVars, roomVars
<1>10. ASSUME NEW r \in Rooms, NEW fresh \in BOOLEAN, ReceiveDecline(r, fresh) PROVE Types'
  <2>1. UNCHANGED <<active, incoming, endedBy>> \/ EndCall(r, "declined")
    BY <1>10, Zenon DEF ReceiveDecline, CallStays
  <2> QED
    BY <1>1, <1>10, <2>1, <1>ended DEF ReceiveDecline, Wrap, timerVars, mediaVars, p2pVars, roomVars
<1>11. ASSUME NEW r \in Rooms, NEW fresh \in BOOLEAN, ReceiveMissed(r, fresh) PROVE Types'
  BY <1>1, <1>11 DEF ReceiveMissed, Wrap, timerVars, mediaVars, p2pVars, roomVars
<1>12. ASSUME NEW t \in tasks, InviteSent(t) PROVE Types'
  BY <1>2, <1>12 DEF InviteSent, storeVars, mediaVars, p2pVars, roomVars, TaskTypes
<1>13. ASSUME NEW t \in tasks, InviteFails(t) PROVE Types'
  BY <1>2, <1>13 DEF InviteFails, storeVars, mediaVars, p2pVars, roomVars, timerVars, historyVars
<1>14. ASSUME NEW t \in tasks, AnswerCall(t) PROVE Types'
  <2>1. TaskTypes'
    BY <1>4, <1>14 DEF AnswerCall, Waits, historyVars, Goes
  <2>2. t.room \in placed
    BY DEF TaskTypes
  <2> QED
    BY <1>14, <2>1, <2>2 DEF AnswerCall, mediaVars, p2pVars, roomVars, timerVars, historyVars
<1>15. ASSUME NEW t \in tasks, GetUserMedia(t) PROVE Types'
  <2>1. TaskTypes'
    <3>1. <<t.op, "relays">> \in Waits
      BY <1>15 DEF GetUserMedia, TaskTypes, TaskShape, Waits
    <3> QED
      BY <1>4, <1>15, <3>1 DEF GetUserMedia
  <2> QED
    BY <1>15, <2>1 DEF GetUserMedia, storeVars, timerVars, roomVars, TaskTypes
<1>16. ASSUME NEW t \in tasks, MediaRefused(t) PROVE Types'
  BY <1>2, <1>16 DEF MediaRefused, storeVars, mediaVars, p2pVars, roomVars, timerVars, historyVars
<1>17. ASSUME NEW t \in tasks, CreatePeerConnection(t) PROVE Types'
  <2>1. TaskTypes' /\ t.room \in placed
    BY <1>2, <1>17 DEF CreatePeerConnection, historyVars, TaskTypes
  <2> QED
    BY <1>17, <2>1 DEF CreatePeerConnection, storeVars, timerVars, roomVars, historyVars
<1>18. ASSUME NEW t \in tasks, HungUp(t) PROVE Types'
  <2>1. TaskTypes'
    <3>1. t.step = "publishSfu" => <<t.op, "leave">> \in Waits
      BY DEF TaskTypes, TaskShape, Waits
    <3> QED
      BY <1>2, <1>4, <1>18, <1>room, <3>1 DEF HungUp
  <2>2. UNCHANGED <<active, incoming, endedBy>> \/ EndCall(t.room, "hangup")
    BY <1>18 DEF HungUp, CallStays
  <2> QED
    BY <1>18, <2>1, <2>2, <1>ended DEF HungUp, ReleaseP2P, roomVars, timerVars
<1>19. ASSUME NEW t \in tasks, LeftRoom(t) PROVE Types'
  BY <1>2, <1>19, <1>ended, <1>left DEF LeftRoom, timerVars, p2pVars
<1>20. ASSUME NEW t \in tasks, TokenFetched(t) PROVE Types'
  <2>1. TaskTypes'
    <3>1. <<t.op, "connect">> \in Waits /\ <<t.op, "replace">> \in Waits
      BY <1>20 DEF TokenFetched, TaskTypes, TaskShape, Waits
    <3> QED
      BY <1>4, <1>20, <1>room, <3>1 DEF TokenFetched, historyVars
  <2> QED
    BY <1>20, <2>1 DEF TokenFetched, storeVars, timerVars, mediaVars, p2pVars, roomVars, historyVars
<1>20a. ASSUME NEW t \in tasks, RoomReplaced(t) PROVE Types'
  <2>1. TaskTypes'
    <3>1. <<t.op, "connect">> \in Waits
      BY <1>20a DEF RoomReplaced, TaskTypes, TaskShape, Waits
    <3> QED
      BY <1>4, <1>20a, <3>1 DEF RoomReplaced
  <2> QED
    BY <1>20a, <1>left, <2>1 DEF RoomReplaced, CallStays, timerVars, p2pVars
<1>20b. ASSUME NEW t \in tasks, RoomConnected(t) PROVE Types'
  <2>1. /\ t.conn \in Conns /\ t.conn.room \in placed
        /\ <<t.op, "publish media">> \in Waits /\ <<t.op, "abandon">> \in Waits
    <3>1. t.op \in {"fallback", "upgrade"}
      BY <1>20b DEF RoomConnected, TaskTypes, TaskShape, Waits
    <3> QED
      BY <3>1 DEF TaskTypes, TaskShape, Waits
  <2>2. TaskTypes'
    BY <1>4, <1>20b, <2>1 DEF RoomConnected
  <2> QED
    BY <1>20b, <2>1, <2>2 DEF RoomConnected, CallStays, timerVars, p2pVars
<1>20c. ASSUME NEW t \in tasks, RoomAbandoned(t) PROVE Types'
  BY <1>2, <1>20c, <1>left DEF RoomAbandoned, CallStays, timerVars, p2pVars
<1>21. ASSUME NEW t \in tasks, MediaPublished(t) PROVE Types'
  BY <1>2, <1>21 DEF MediaPublished, timerVars, mediaVars, p2pVars, roomVars, historyVars
<1>22. ASSUME NEW t \in tasks, SfuFails(t) \/ ConnectFails(t) PROVE Types'
  <2>1. UNCHANGED <<active, incoming, endedBy>> \/ \E how : EndCall(t.room, how)
    BY <1>22 DEF SfuFails, ConnectFails, Caught
  <2>2. UNCHANGED <<active, incoming, endedBy>>
          \/ (active' = Nothing /\ incoming' = Nothing /\ endedBy' = [r \in Rooms |-> endedBy'[r]])
    BY <2>1, <1>ended
  <2> QED
    BY <1>2, <1>22, <2>2 DEF SfuFails, ConnectFails, timerVars, p2pVars, roomVars
<1>23. CASE RingTimeout
  <2>1. UNCHANGED <<active, incoming, endedBy>> \/ EndCall(ringTimer, "missed")
    BY <1>23 DEF RingTimeout, CallStays
  <2> QED
    BY <1>1, <1>23, <2>1, <1>ended DEF RingTimeout, mediaVars, p2pVars, roomVars
<1>24. CASE DismissInvite
  BY <1>1, <1>24 DEF DismissInvite, timerVars, mediaVars, p2pVars, roomVars, historyVars
<1>25. CASE AcceptCall
  <2>1. TaskTypes'
    BY <1>3, <1>25 DEF AcceptCall, SetUp, Waits
  <2> QED
    BY <1>25, <2>1 DEF AcceptCall, mediaVars, p2pVars, roomVars, timerVars
<1>26. CASE HangUp
  <2>1. TaskTypes'
    BY <1>3, <1>26 DEF HangUp, Waits
  <2> QED
    BY <1>26, <2>1 DEF HangUp, storeVars, mediaVars, p2pVars, roomVars
<1>27. CASE IceConnected
  BY <1>1, <1>27 DEF IceConnected, roomVars, historyVars
<1>28. CASE IceDisconnected
  BY <1>1, <1>28 DEF IceDisconnected, storeVars, roomVars, historyVars
<1>29. ASSUME NEW r \in placed, P2PFailure(r), placed' = placed PROVE TaskTypes' /\ open' \subseteq open
  <2>1. ASSUME NEW o \in Conns, o.room = r, SetUp("fallback", r, "token", o) PROVE TaskTypes'
    BY <1>3, <1>29, <2>1 DEF SetUp, Waits
  <2> QED
    BY <1>1, <1>29, <2>1 DEF P2PFailure, SetUpRoom
<1>30. CASE IceFailed
  BY <1>29, <1>30 DEF IceFailed, P2PFailure, storeVars, roomVars, timerVars
<1>31. CASE GraceTimeout
  <2>1. TaskTypes' /\ open' \subseteq open
    BY <1>1, <1>29, <1>31 DEF GraceTimeout
  <2> QED
    BY <1>31, <2>1 DEF GraceTimeout, P2PFailure, roomVars, storeVars
<1>32. CASE UpgradeToSfu
  <2>1. TaskTypes'
    <3>1. ASSUME NEW o \in Conns, o.room = active.room, SetUp("upgrade", active.room, "token", o)
          PROVE  TaskTypes'
      BY <1>3, <1>32, <3>1 DEF UpgradeToSfu, SetUp, Waits
    <3> QED
      BY <1>32, <3>1 DEF UpgradeToSfu, SetUpRoom
  <2> QED
    BY <1>32, <2>1 DEF UpgradeToSfu, ReleaseP2P, roomVars, storeVars, timerVars
<1>33. ASSUME NEW o \in joined, RoomDisconnected(o) PROVE Types'
  <2>1. UNCHANGED <<active, incoming, endedBy>> \/ \E how : EndCall(o.room, how)
    BY <1>33 DEF RoomDisconnected, CallStays
  <2>2. UNCHANGED <<active, incoming, endedBy>>
          \/ (active' = Nothing /\ incoming' = Nothing /\ endedBy' = [r \in Rooms |-> endedBy'[r]])
    BY <2>1, <1>ended
  <2> QED
    BY <1>1, <1>33, <2>2 DEF RoomDisconnected, timerVars, p2pVars
<1>34. CASE UNCHANGED vars
  BY <1>1, <1>34 DEF vars, storeVars, timerVars, mediaVars, p2pVars, roomVars, historyVars
<1> QED
  BY <1>5, <1>6, <1>7, <1>8, <1>9, <1>10, <1>11, <1>12, <1>13, <1>14, <1>15, <1>16, <1>17, <1>18,
     <1>19, <1>20, <1>20a, <1>20b, <1>20c, <1>21, <1>22, <1>23, <1>24, <1>25, <1>26, <1>27, <1>28, <1>30, <1>31, <1>32,
     <1>33, <1>34 DEF Next

-----------------------------------------------------------------------------
\* Which steps may end a call by hanging it up.
HangsUp == (\E t \in tasks : HungUp(t) \/ LeftRoom(t)) \/ \E r \in Rooms : RemoteDisconnect(r)

\* Nothing comes back from astray or from placed, and a call stays active until it is
\* hung up with no set-up left, or goes astray.
LEMMA CallKept ==
  ASSUME Types, [Next]_vars
  PROVE  /\ astray \subseteq astray' /\ placed \subseteq placed'
         /\ \A r \in Rooms :
              IsActive(r) => IsActive(r)' \/ r \in astray' \/ (HangsUp /\ ~SettingUp(r))
<1> DEFINE Kept == \A r \in Rooms :
                     IsActive(r) => IsActive(r)' \/ r \in astray' \/ (HangsUp /\ ~SettingUp(r))
           Grown == astray \subseteq astray' /\ placed \subseteq placed'
<1>types. Types'
  BY TypesStep
<1>hung. ASSUME NEW by, EndCall(by, "hangup"), HangsUp PROVE Kept /\ astray \subseteq astray'
  BY <1>hung, EndCallShape
<1>ended. ASSUME NEW by, NEW how, EndCall(by, how), how # "hangup" PROVE Kept /\ astray \subseteq astray'
  BY <1>ended, EndCallShape
<1>same. ASSUME active' = active PROVE Kept
  BY <1>same DEF IsActive
<1>idle. ASSUME active = Nothing PROVE Kept
  BY <1>idle DEF IsActive
<1>call. active # Nothing =>
           /\ active.id \in Rooms /\ active.room \in Rooms \cup {Nothing}
           /\ active.state \in {"ringing", "connecting", "active"} /\ active.isSfuFallback \in BOOLEAN
           /\ active = [id |-> active.id, room |-> active.room, state |-> active.state,
                        isSfuFallback |-> active.isSfuFallback]
  BY DEF Types, Maybe, States
<1>renewed. ASSUME active # Nothing, NEW room \in Rooms \cup {Nothing},
                   NEW state \in {"ringing", "connecting", "active"}, NEW sfu \in BOOLEAN,
                   active' = [id |-> active.id, room |-> room, state |-> state, isSfuFallback |-> sfu]
            PROVE  Kept
  <2>1. active' # Nothing
    BY <1>call, <1>renewed, CallIsSomething
  <2>2. active'.id = active.id
    BY <1>renewed
  <2> QED
    BY <2>1, <2>2 DEF IsActive
<1>room. ASSUME NEW room \in Rooms, active # Nothing,
                active' = [active EXCEPT !.room = room, !.state = "connecting"] PROVE Kept
  <2>1. active' = [id |-> active.id, room |-> room, state |-> "connecting",
                   isSfuFallback |-> active.isSfuFallback]
    BY <1>call, <1>room
  <2> QED
    BY <1>call, <1>room, <1>renewed, <2>1
<1>state. ASSUME NEW state \in {"ringing", "connecting", "active"}, active # Nothing,
                 active' = [active EXCEPT !.state = state] PROVE Kept
  <2>1. active' = [id |-> active.id, room |-> active.room, state |-> state,
                   isSfuFallback |-> active.isSfuFallback]
    BY <1>call, <1>state
  <2> QED
    BY <1>call, <1>state, <1>renewed, <2>1
<1>sfu. ASSUME NEW state \in {"ringing", "connecting", "active"}, active # Nothing,
               active' = [active EXCEPT !.isSfuFallback = TRUE, !.state = state] PROVE Kept
  <2>1. active' = [id |-> active.id, room |-> active.room, state |-> state, isSfuFallback |-> TRUE]
    BY <1>call, <1>sfu
  <2> QED
    BY <1>call, <1>sfu, <1>renewed, <2>1
<1>begin. ASSUME NEW r \in Rooms, InitiateCall(r) \/ Connect(r) \/ Describe(r) \/ RemoteDisconnect(r)
          PROVE  Kept /\ Grown
  <2>1. CASE InitiateCall(r)
    BY <1>idle, <2>1 DEF InitiateCall
  <2>2. CASE Connect(r)
    BY <1>state, <2>2 DEF Connect, SetUp
  <2>3. CASE Describe(r)
    BY <1>same, <2>3 DEF Describe, storeVars, historyVars
  <2>4. CASE RemoteDisconnect(r)
    BY <1>same, <1>hung, <2>4 DEF RemoteDisconnect, AstrayIfSettingUp, HangsUp
  <2> QED
    BY <1>begin, <2>1, <2>2, <2>3, <2>4
<1>wrap. ASSUME NEW r \in Rooms, NEW fresh \in BOOLEAN,
                ReceiveInvite(r, fresh) \/ ReceiveDecline(r, fresh) \/ ReceiveMissed(r, fresh)
         PROVE  Kept /\ Grown
  <2>1. CASE ReceiveInvite(r, fresh) \/ ReceiveMissed(r, fresh)
    BY <1>same, <2>1 DEF ReceiveInvite, ReceiveMissed, Wrap
  <2>2. CASE ReceiveDecline(r, fresh)
    <3>1. CallStays \/ EndCall(r, "declined")
      BY <2>2, Zenon DEF ReceiveDecline
    <3> QED
      BY <1>same, <1>ended, <2>2, <3>1 DEF ReceiveDecline, CallStays, Wrap
  <2> QED
    BY <1>wrap, <2>1, <2>2
<1>task. ASSUME NEW t \in tasks,
                \/ InviteSent(t) \/ InviteFails(t) \/ AnswerCall(t)
                \/ GetUserMedia(t) \/ MediaRefused(t) \/ CreatePeerConnection(t)
                \/ HungUp(t) \/ LeftRoom(t)
                \/ TokenFetched(t) \/ RoomReplaced(t) \/ RoomConnected(t)
                \/ RoomAbandoned(t) \/ MediaPublished(t) \/ SfuFails(t) \/ ConnectFails(t)
         PROVE  Kept /\ Grown
  <2>1. CASE InviteSent(t) \/ InviteFails(t) \/ GetUserMedia(t) \/ MediaRefused(t)
               \/ CreatePeerConnection(t) \/ TokenFetched(t)
    BY <1>same, <2>1 DEF InviteSent, InviteFails, GetUserMedia, MediaRefused, CreatePeerConnection,
       TokenFetched, storeVars, historyVars
  <2>1a. CASE RoomReplaced(t) \/ RoomConnected(t) \/ RoomAbandoned(t)
    BY <1>same, <2>1a DEF RoomReplaced, RoomConnected, RoomAbandoned, CallStays
  <2>2. CASE AnswerCall(t)
    <3>1. t.room \in Rooms
      BY DEF Types, TaskTypes
    <3> QED
      BY <1>idle, <1>room, <2>2, <3>1 DEF AnswerCall, historyVars
  <2>3. CASE HungUp(t) \/ LeftRoom(t)
    BY <1>same, <1>hung, <2>3 DEF HungUp, LeftRoom, CallStays, HangsUp
  <2>4. CASE MediaPublished(t)
    BY <1>idle, <1>call, <1>sfu, <2>4 DEF MediaPublished, historyVars
  <2>5. CASE SfuFails(t) \/ ConnectFails(t)
    BY <1>same, <1>ended, <2>5 DEF SfuFails, ConnectFails, Caught
  <2> QED
    BY <1>task, <2>1, <2>1a, <2>2, <2>3, <2>4, <2>5
<1>ring. CASE RingTimeout \/ \E o \in joined : RoomDisconnected(o)
  BY <1>same, <1>ended, <1>ring DEF RingTimeout, RoomDisconnected, CallStays
<1>user. CASE DismissInvite \/ AcceptCall \/ HangUp \/ UpgradeToSfu
  <2>1. AcceptCall => active = Nothing
    BY DEF AcceptCall, Types
  <2> QED
    BY <1>same, <1>idle, <1>user, <2>1 DEF DismissInvite, AcceptCall, HangUp, UpgradeToSfu, SetUp,
       SetUpRoom, AstrayIfSettingUp, historyVars, storeVars
<1>ice. CASE IceConnected \/ IceDisconnected \/ IceFailed \/ GraceTimeout \/ UNCHANGED vars
  BY <1>same, <1>idle, <1>state, <1>ice DEF IceConnected, IceDisconnected, IceFailed, GraceTimeout,
     P2PFailure, SetUp, SetUpRoom, historyVars, storeVars, vars
<1> QED
  BY <1>begin, <1>wrap, <1>task, <1>ring, <1>user, <1>ice DEF Next

\* Where a function goes on.
LEMMA AtShape ==
  \A t, step, old : LET v == At(t, step, old)
                   IN  v.op = t.op /\ v.room = t.room /\ v.step = step /\ v.old = old
BY DEF At, Task

LEMMA AtStep ==
  ASSUME NEW t, NEW old
  PROVE  /\ At(t, "media", old).step = "media" /\ At(t, "relays", old).step = "relays"
         /\ At(t, "leave", old).step = "leave" /\ At(t, "replace", old).step = "replace"
         /\ At(t, "connect", old).step = "connect" /\ At(t, "abandon", old).step = "abandon"
         /\ At(t, "publish media", old).step = "publish media"
BY DEF At, Task

\* How functions come to wait.
LEMMA TaskSteps ==
  ASSUME Types, [Next]_vars
  PROVE  \/ tasks' \subseteq tasks
         \/ \E t \in tasks : \/ AnswerCall(t) \/ GetUserMedia(t) \/ HungUp(t)
                             \/ TokenFetched(t) \/ RoomReplaced(t) \/ RoomConnected(t)
         \/ \E r \in Rooms : tasks' = tasks \cup {Task("initiate", r, "wrap", Nothing, Nothing)}
         \/ AcceptCall \/ \E r \in Rooms : Connect(r)
         \/ \E r \in Rooms, op \in {"fallback", "upgrade"}, o \in Conns : SetUp(op, r, "token", o)
         \/ HangUp
         \/ \E r \in Rooms :
              /\ RemoteDisconnect(r) /\ AstrayIfSettingUp(active.id)
              /\ tasks' = tasks \cup {Task("hangup", active.id, "leave", Nothing, currentRoom)}
<1>1. ASSUME NEW r \in Rooms, InitiateCall(r) \/ Describe(r) \/ RemoteDisconnect(r)
      PROVE  \/ tasks' \subseteq tasks
             \/ tasks' = tasks \cup {Task("initiate", r, "wrap", Nothing, Nothing)}
             \/ /\ RemoteDisconnect(r) /\ AstrayIfSettingUp(active.id)
                /\ tasks' = tasks \cup {Task("hangup", active.id, "leave", Nothing, currentRoom)}
  BY <1>1 DEF InitiateCall, Describe, RemoteDisconnect
<1>2. ASSUME NEW r \in Rooms, NEW fresh \in BOOLEAN,
             ReceiveInvite(r, fresh) \/ ReceiveDecline(r, fresh) \/ ReceiveMissed(r, fresh)
      PROVE  tasks' = tasks
  BY <1>2 DEF ReceiveInvite, ReceiveDecline, ReceiveMissed, Wrap
<1>3. ASSUME NEW t \in tasks,
             \/ InviteSent(t) \/ InviteFails(t) \/ MediaRefused(t) \/ CreatePeerConnection(t)
             \/ LeftRoom(t) \/ RoomAbandoned(t) \/ MediaPublished(t) \/ SfuFails(t) \/ ConnectFails(t)
      PROVE  tasks' \subseteq tasks
  BY <1>3 DEF InviteSent, InviteFails, MediaRefused, CreatePeerConnection, LeftRoom, RoomAbandoned,
     MediaPublished, SfuFails, ConnectFails
<1>4. CASE RingTimeout \/ DismissInvite \/ IceConnected \/ IceDisconnected
           \/ (\E o \in joined : RoomDisconnected(o)) \/ UNCHANGED vars
  BY <1>4 DEF RingTimeout, DismissInvite, IceConnected, IceDisconnected, RoomDisconnected, vars
<1>5. ASSUME IceFailed \/ GraceTimeout \/ UpgradeToSfu
      PROVE  tasks' = tasks
               \/ \E r \in Rooms, op \in {"fallback", "upgrade"}, o \in Conns : SetUp(op, r, "token", o)
  <2>1. ASSUME NEW r \in Rooms, P2PFailure(r)
        PROVE  tasks' = tasks \/ \E o \in Conns : SetUp("fallback", r, "token", o)
    BY <2>1 DEF P2PFailure, SetUpRoom
  <2>2. CASE IceFailed
    <3>1. pc.room \in Rooms
      BY <2>2 DEF IceFailed, Types, Maybe
    <3> QED
      BY <2>1, <2>2, <3>1 DEF IceFailed
  <2>3. CASE GraceTimeout
    <3>1. disconnectGraceTimer \in Rooms
      BY <2>3 DEF GraceTimeout, Types, Maybe
    <3> QED
      BY <2>1, <2>3, <3>1 DEF GraceTimeout
  <2>4. CASE UpgradeToSfu
    <3>1. active.room \in Rooms
      BY <2>4 DEF UpgradeToSfu, Types, Maybe
    <3> QED
      BY <2>4, <3>1 DEF UpgradeToSfu, SetUpRoom
  <2> QED
    BY <1>5, <2>2, <2>3, <2>4
<1> QED
  BY <1>1, <1>2, <1>3, <1>4, <1>5 DEF Next

-----------------------------------------------------------------------------
LEMMA JoiningStep == CallInv /\ [Next]_vars => Joining'
<1> SUFFICES ASSUME CallInv, [Next]_vars, NEW t \in tasks', Acquires(t)
             PROVE  Ok(t.room)'
  BY DEF Joining
<1>types. Types /\ Types'
  BY TypesStep DEF CallInv
<1>op. t.op \in SetUpOps /\ t.room \in Rooms
  BY <1>types DEF Types, TaskTypes, TaskShape, Waits, SetUpOps, Acquires
<1>kept. Ok(t.room) => Ok(t.room)'
  BY <1>types, <1>op, CallKept DEF Ok, SettingUp, SetUpOps
<1>1. CASE t \in tasks
  BY <1>1, <1>kept DEF CallInv, Joining
<1>2. ASSUME NEW u \in tasks, AnswerCall(u) \/ GetUserMedia(u) PROVE Ok(t.room)'
  <2>1. t \in tasks \/ t.room = u.room
    BY <1>2, AtShape DEF AnswerCall, GetUserMedia, Goes
  <2>2. u.op \in {"answer", "start"}
    BY <1>2, <1>types DEF AnswerCall, GetUserMedia, Types, TaskTypes, TaskShape, Waits
  <2>3. Acquires(u)
    BY <2>2 DEF Acquires
  <2> QED
    BY <1>1, <1>kept, <2>1, <2>3 DEF CallInv, Joining
<1>3. ASSUME NEW u \in tasks, HungUp(u) \/ TokenFetched(u) \/ RoomReplaced(u) PROVE Ok(t.room)'
  <2>1. u.op \in {"fallback", "upgrade", "hangup"}
    BY <1>3, <1>types DEF HungUp, TokenFetched, RoomReplaced, Types, TaskTypes, TaskShape, Waits
  <2>2. \/ t \in tasks \/ t = At(u, "leave", currentRoom)
        \/ t = At(u, "connect", Nothing) \/ t = At(u, "replace", currentRoom)
    BY <1>3 DEF Goes, HungUp, TokenFetched, RoomReplaced
  <2>3. t \in tasks
    <3>1. t \in tasks \/ (t.op = u.op /\ (t.step = "leave" \/ t.step = "connect" \/ t.step = "replace"))
      <4>1. ASSUME t = At(u, "leave", currentRoom) PROVE t.op = u.op /\ t.step = "leave"
        BY <4>1 DEF At, Task
      <4>2. ASSUME t = At(u, "connect", Nothing) PROVE t.op = u.op /\ t.step = "connect"
        BY <4>2 DEF At, Task
      <4>3. ASSUME t = At(u, "replace", currentRoom) PROVE t.op = u.op /\ t.step = "replace"
        BY <4>3 DEF At, Task
      <4> QED
        BY <2>2, <4>1, <4>2, <4>3
    <3> QED
      BY <2>1, <3>1 DEF Acquires
  <2> QED
    BY <1>1, <2>3
<1>4. ASSUME NEW u \in tasks, RoomConnected(u) PROVE Ok(t.room)'
  <2>1. u.op \in {"fallback", "upgrade"}
    BY <1>4, <1>types DEF RoomConnected, Types, TaskTypes, TaskShape, Waits
  <2>2. t \in tasks \/ (t.room = u.room /\ active # Nothing /\ active.room = u.room)
    <3>1. CASE t = At(u, "abandon", u.conn)
      BY <2>1, <3>1 DEF Acquires, At, Task
    <3>2. CASE t = At(u, "publish media", Nothing) /\ active # Nothing /\ active.room = u.room
      BY <3>2, AtShape
    <3> QED
      BY <1>4, <3>1, <3>2 DEF Goes, RoomConnected
  <2>3. t.room \in Rooms /\ Nothing \notin Rooms
    BY <1>op
  <2> QED
    BY <1>1, <1>kept, <2>2, <2>3 DEF CallInv, RoomKnown, Ok, IsActive
<1>5. ASSUME NEW r \in Rooms, tasks' = tasks \cup {Task("initiate", r, "wrap", Nothing, Nothing)} PROVE Ok(t.room)'
  BY <1>1, <1>5, <1>op DEF Task, SetUpOps
<1>6. CASE AcceptCall
  <2>1. t \in tasks \/ t.room = incoming
    BY <1>6 DEF AcceptCall, SetUp, Task
  <2>2. active' = [id |-> incoming, room |-> Nothing, state |-> "connecting", isSfuFallback |-> FALSE]
        /\ incoming \in Rooms
    BY <1>6, <1>types DEF AcceptCall, Types, Maybe
  <2>3. active' # Nothing
    BY <2>2, CallIsSomething
  <2> QED
    BY <1>1, <2>1, <2>2, <2>3 DEF Ok, IsActive
<1>7. ASSUME NEW r \in Rooms, Connect(r) PROVE Ok(t.room)'
  <2>1. t \in tasks \/ t.room = r
    BY <1>7 DEF Connect, SetUp, Task
  <2>2. Ok(r)
    BY <1>7 DEF Connect, CallInv, RoomKnown, Ok, IsActive
  <2> QED
    BY <1>1, <1>kept, <2>1, <2>2
<1>8. ASSUME NEW r \in Rooms, NEW op \in {"fallback", "upgrade"}, NEW o \in Conns, SetUp(op, r, "token", o)
      PROVE  Ok(t.room)'
  <2>1. ~Acquires(Task(op, r, "token", o, Nothing))
    BY DEF Acquires, Task
  <2> QED
    BY <1>1, <1>8, <2>1 DEF SetUp
<1>9. CASE HangUp
  BY <1>1, <1>9, <1>op DEF HangUp, Task, SetUpOps
<1>10. ASSUME tasks' = tasks \cup {Task("hangup", active.id, "leave", Nothing, currentRoom)} PROVE Ok(t.room)'
  BY <1>1, <1>10, <1>op DEF Task, SetUpOps
<1> QED
  BY <1>types, <1>1, <1>2, <1>3, <1>4, <1>5, <1>6, <1>7, <1>8, <1>9, <1>10, TaskSteps

LEMMA CrossingStep == CallInv /\ [Next]_vars => Crossing'
<1> SUFFICES ASSUME CallInv, [Next]_vars, NEW t \in tasks', NEW u \in tasks',
                    t.op = "hangup", u.op \in SetUpOps, t.room = u.room
             PROVE  t.room \in astray'
  BY DEF Crossing
<1>types. Types /\ Types'
  BY TypesStep DEF CallInv
<1>grown. astray \subseteq astray'
  BY <1>types, CallKept
<1>1. ASSUME \E v \in tasks : v.op = t.op /\ v.room = t.room,
             \E v \in tasks : v.op = u.op /\ v.room = u.room
      PROVE  t.room \in astray'
  BY <1>1, <1>grown DEF CallInv, Crossing
<1>2. CASE tasks' \subseteq tasks
  BY <1>1, <1>2
<1>3. ASSUME NEW v \in tasks, NEW step, NEW old, Goes(v, step, old) PROVE t.room \in astray'
  BY <1>1, <1>3, AtShape DEF Goes
<1>4. ASSUME NEW v \in tasks,
             \/ AnswerCall(v) \/ GetUserMedia(v) \/ HungUp(v)
             \/ TokenFetched(v) \/ RoomReplaced(v) \/ RoomConnected(v)
      PROVE  t.room \in astray'
  BY <1>2, <1>3, <1>4 DEF AnswerCall, GetUserMedia, HungUp, TokenFetched, RoomReplaced, RoomConnected
<1>5. ASSUME NEW r \in Rooms, tasks' = tasks \cup {Task("initiate", r, "wrap", Nothing, Nothing)} PROVE t.room \in astray'
  BY <1>1, <1>5 DEF Task, SetUpOps
<1>6. ASSUME NEW op \in SetUpOps, NEW r, NEW step, NEW conn, SetUp(op, r, step, conn)
      PROVE  t.room \in astray'
  <2>1. t \in tasks
    BY <1>6 DEF SetUp, Task, SetUpOps
  <2>2. u \in tasks \/ u.room = r
    BY <1>6 DEF SetUp, Task
  <2> QED
    BY <1>1, <1>6, <2>1, <2>2 DEF SetUp
<1>7. ASSUME AstrayIfSettingUp(active.id), NEW step, NEW old,
             tasks' = tasks \cup {Task("hangup", active.id, step, Nothing, old)}
      PROVE  t.room \in astray'
  <2>1. u \in tasks
    BY <1>7 DEF Task, SetUpOps
  <2>2. t \in tasks \/ t.room = active.id
    BY <1>7 DEF Task
  <2> QED
    BY <1>1, <1>7, <2>1, <2>2 DEF AstrayIfSettingUp, SettingUp, SetUpOps
<1> QED
  BY <1>types, <1>2, <1>4, <1>5, <1>6, <1>7, TaskSteps DEF AcceptCall, Connect, HangUp, SetUpOps

LEMMA RoomKnownStep == CallInv /\ [Next]_vars => RoomKnown'
<1> SUFFICES ASSUME CallInv, [Next]_vars PROVE RoomKnown'
  OBVIOUS
<1>types. Types /\ Types'
  BY TypesStep DEF CallInv
<1>grown. astray \subseteq astray'
  BY <1>types, CallKept
<1>now. RoomKnown
  BY DEF CallInv
<1>1. CASE active' = Nothing
  BY <1>1 DEF RoomKnown
<1>2. CASE active' = active
  BY <1>2, <1>grown, <1>now DEF RoomKnown
<1>3. ASSUME NEW r \in Rooms, InitiateCall(r) PROVE RoomKnown'
  BY <1>3 DEF InitiateCall, RoomKnown
<1>4. CASE AcceptCall
  BY <1>4 DEF AcceptCall, RoomKnown
<1>5. ASSUME NEW s, s # "ringing", active # Nothing, active' = [active EXCEPT !.state = s] PROVE RoomKnown'
  <2>1. active'.room = active.room /\ active'.id = active.id /\ active'.state = s
    BY <1>5, <1>types DEF Types, Maybe
  <2> QED
    BY <1>5, <1>grown, <1>now, <2>1 DEF RoomKnown
<1>6. ASSUME NEW t \in tasks, AnswerCall(t), active # Nothing PROVE RoomKnown'
  <2>1. t.room = active.id \/ t.room \in astray
    <3>1. Acquires(t)
      BY <1>6 DEF AnswerCall, Acquires
    <3> QED
      BY <3>1 DEF CallInv, Joining, Ok, IsActive
  <2>2. active' = [active EXCEPT !.room = t.room, !.state = "connecting"]
    BY <1>6 DEF AnswerCall
  <2>3. active'.room = t.room /\ active'.id = active.id /\ active'.state = "connecting"
    BY <1>6, <1>types, <2>2 DEF Types, Maybe
  <2> QED
    BY <1>grown, <2>1, <2>3 DEF RoomKnown
<1>7. ASSUME NEW t \in tasks, MediaPublished(t), active # Nothing PROVE RoomKnown'
  <2>1. active' = [active EXCEPT !.isSfuFallback = TRUE,
                                 !.state = IF t.op = "fallback" THEN "active" ELSE @]
    BY <1>7 DEF MediaPublished
  <2>2. active'.room = active.room /\ active'.id = active.id /\ active'.state \in {"active", active.state}
    BY <1>7, <1>types, <2>1 DEF Types, Maybe
  <2> QED
    BY <1>7, <1>grown, <1>now, <2>2 DEF RoomKnown
<1>8. active' = active \/ active' = Nothing \/ (\E r \in Rooms : InitiateCall(r) \/ Connect(r))
        \/ AcceptCall \/ IceConnected \/ (\E t \in tasks : AnswerCall(t) \/ MediaPublished(t))
  BY DEF Next, RingTimeout, Describe, RemoteDisconnect, ReceiveInvite, ReceiveDecline, ReceiveMissed,
     InviteSent, InviteFails, GetUserMedia, MediaRefused, CreatePeerConnection, HungUp, LeftRoom,
     TokenFetched, RoomReplaced, RoomConnected, RoomAbandoned, SfuFails, ConnectFails, Caught, CallStays,
     DismissInvite, HangUp, IceDisconnected, IceFailed, GraceTimeout, UpgradeToSfu, RoomDisconnected,
     EndCall, storeVars, vars
<1> QED
  BY <1>1, <1>2, <1>3, <1>4, <1>5, <1>6, <1>7, <1>8 DEF Connect, IceConnected, AnswerCall, MediaPublished

LEMMA FreshStep == CallInv /\ [Next]_vars => Fresh'
<1> SUFFICES ASSUME CallInv, [Next]_vars PROVE Fresh'
  OBVIOUS
<1> USE DEF CallInv, Fresh
<1>1. ASSUME incoming' \in {Nothing, incoming}, placed' = placed, processed \subseteq processed'
      PROVE  Fresh'
  BY <1>1
<1>2. ASSUME NEW r \in Rooms, NEW fresh \in BOOLEAN, ReceiveInvite(r, fresh) PROVE Fresh'
  BY <1>2 DEF ReceiveInvite, Wrap
<1>3. CASE AcceptCall
  BY <1>3 DEF AcceptCall
<1>4. ASSUME NEW r \in Rooms, InitiateCall(r) PROVE Fresh'
  BY <1>4 DEF InitiateCall
<1>5. \/ incoming' \in {Nothing, incoming} /\ placed' = placed /\ processed \subseteq processed'
      \/ AcceptCall
      \/ \E r \in Rooms : InitiateCall(r) \/ \E fresh \in BOOLEAN : ReceiveInvite(r, fresh)
  BY DEF Next, RingTimeout, Connect, Describe, RemoteDisconnect, ReceiveDecline, ReceiveMissed, Wrap,
     InviteSent, InviteFails, AnswerCall, GetUserMedia, MediaRefused, CreatePeerConnection, HungUp,
     LeftRoom, TokenFetched, RoomReplaced, RoomConnected, RoomAbandoned, MediaPublished, SfuFails,
     ConnectFails, Caught, CallStays, DismissInvite, HangUp, IceConnected, IceDisconnected, IceFailed,
     GraceTimeout, UpgradeToSfu, RoomDisconnected, EndCall, storeVars, historyVars, vars
<1> QED
  BY <1>1, <1>2, <1>3, <1>4, <1>5

LEMMA CallInvStep == CallInv /\ [Next]_vars => CallInv'
BY TypesStep, FreshStep, RoomKnownStep, JoiningStep, CrossingStep DEF CallInv

-----------------------------------------------------------------------------
\* What a call holds
P2P(r) == localStream = r \/ r \in open \/ (pc # Nothing /\ pc.room = r)
Holds(r) == P2P(r) \/ ~RoomsLeft(r)

\* How the streams and the connection are changed: by what acquires, by what
\* releases, or less.
LEMMA MediaSteps ==
  ASSUME Types, [Next]_vars
  PROVE  \/ /\ UNCHANGED <<localStream, open>>
            /\ pc' = pc \/ (pc # Nothing /\ \E i : pc' = [pc EXCEPT !.ice = i])
         \/ localStream' = Nothing /\ open' = open \ {localStream} /\ pc' = Nothing
         \/ \E t \in tasks : GetUserMedia(t) \/ CreatePeerConnection(t)
<1> DEFINE Less == /\ UNCHANGED <<localStream, open>>
                   /\ pc' = pc \/ (pc # Nothing /\ \E i : pc' = [pc EXCEPT !.ice = i])
           Release == localStream' = Nothing /\ open' = open \ {localStream} /\ pc' = Nothing
<1>1. ASSUME NEW r \in Rooms, InitiateCall(r) \/ Connect(r) \/ Describe(r) PROVE Less
  BY <1>1 DEF InitiateCall, Connect, Describe, mediaVars, p2pVars
<1>2. ASSUME NEW r \in Rooms, NEW fresh \in BOOLEAN,
             ReceiveInvite(r, fresh) \/ ReceiveDecline(r, fresh) \/ ReceiveMissed(r, fresh)
      PROVE  Less
  BY <1>2 DEF ReceiveInvite, ReceiveDecline, ReceiveMissed, Wrap, mediaVars, p2pVars
<1>3. ASSUME NEW t \in tasks,
             \/ InviteSent(t) \/ InviteFails(t) \/ AnswerCall(t) \/ MediaRefused(t) \/ LeftRoom(t)
             \/ TokenFetched(t) \/ RoomReplaced(t) \/ RoomConnected(t) \/ RoomAbandoned(t)
             \/ MediaPublished(t) \/ SfuFails(t) \/ ConnectFails(t)
      PROVE  Less
  BY <1>3 DEF InviteSent, InviteFails, AnswerCall, MediaRefused, LeftRoom, TokenFetched, RoomReplaced,
     RoomConnected, RoomAbandoned, MediaPublished, SfuFails, ConnectFails, mediaVars, p2pVars
<1>4. ASSUME RingTimeout \/ DismissInvite \/ AcceptCall \/ HangUp \/ IceConnected \/ IceDisconnected
             \/ (\E o \in joined : RoomDisconnected(o)) \/ UNCHANGED vars
      PROVE  Less
  BY <1>4 DEF RingTimeout, DismissInvite, AcceptCall, HangUp, IceConnected, IceDisconnected,
     RoomDisconnected, vars, mediaVars, p2pVars
<1>5. ASSUME (\E r \in Rooms : RemoteDisconnect(r)) \/ (\E t \in tasks : HungUp(t)) \/ UpgradeToSfu
      PROVE  Release
  BY <1>5 DEF RemoteDisconnect, HungUp, UpgradeToSfu, ReleaseP2P
<1>6. ASSUME IceFailed \/ GraceTimeout PROVE Less \/ Release
  BY <1>6 DEF IceFailed, GraceTimeout, P2PFailure
<1> HIDE DEF Less, Release
<1>7. Less \/ Release \/ \E t \in tasks : GetUserMedia(t) \/ CreatePeerConnection(t)
  BY <1>1, <1>2, <1>3, <1>4, <1>5, <1>6 DEF Next
<1> QED
  BY <1>7 DEF Less, Release

LEMMA LessHolds ==
  ASSUME Types, UNCHANGED <<localStream, open>>,
         pc' = pc \/ (pc # Nothing /\ \E i : pc' = [pc EXCEPT !.ice = i]),
         NEW r \in Rooms, P2P(r)'
  PROVE  P2P(r)
<1>1. pc' # Nothing /\ pc'.room = r => pc # Nothing /\ pc.room = r
  BY DEF Types, Maybe
<1> QED
  BY <1>1 DEF P2P

\* The LiveKit rooms are changed by a connect, and otherwise left; a room that is
\* forgotten puts its call astray.
LEMMA RoomSteps ==
  ASSUME Types, [Next]_vars
  PROVE  /\ joined' \subseteq joined \/ \E t \in tasks : RoomConnected(t)
         /\ currentRoom' = currentRoom \/ Forgotten \subseteq astray'
<1> DEFINE Fewer == joined' \subseteq joined
           Same  == currentRoom' = currentRoom
           Noted == Forgotten \subseteq astray'
<1>1. ASSUME NEW by, NEW how, EndCall(by, how) PROVE Noted
  BY <1>1, EndCallShape
<1>2. ASSUME NEW t, Caught(t) PROVE Noted
  BY <1>1, <1>2 DEF Caught
<1>3. ASSUME NEW t \in tasks, LeftRoom(t) \/ RoomReplaced(t) \/ RoomAbandoned(t) PROVE Fewer /\ Noted
  BY <1>1, <1>3 DEF LeftRoom, RoomReplaced, RoomAbandoned, CallStays, Disconnected
<1>4. ASSUME NEW t \in tasks, ConnectFails(t) PROVE Fewer /\ Noted
  BY <1>1, <1>2, <1>4 DEF ConnectFails
<1>5. ASSUME NEW o \in joined, RoomDisconnected(o) PROVE Fewer /\ Noted
  BY <1>1, <1>5 DEF RoomDisconnected, CallStays
<1>6. ASSUME NEW t \in tasks, RoomConnected(t) PROVE Noted
  BY <1>6 DEF RoomConnected, CallStays
<1>7. ASSUME NEW r \in Rooms, InitiateCall(r) \/ Connect(r) \/ Describe(r) \/ RemoteDisconnect(r)
      PROVE  Fewer /\ Same
  BY <1>7 DEF InitiateCall, Connect, Describe, RemoteDisconnect, mediaVars, roomVars
<1>8. ASSUME NEW r \in Rooms, NEW fresh \in BOOLEAN,
             ReceiveInvite(r, fresh) \/ ReceiveDecline(r, fresh) \/ ReceiveMissed(r, fresh)
      PROVE  Fewer /\ Same
  BY <1>8 DEF ReceiveInvite, ReceiveDecline, ReceiveMissed, Wrap, mediaVars, roomVars
<1>9. ASSUME NEW t \in tasks,
             \/ InviteSent(t) \/ InviteFails(t) \/ AnswerCall(t) \/ GetUserMedia(t) \/ MediaRefused(t)
             \/ CreatePeerConnection(t) \/ HungUp(t) \/ TokenFetched(t) \/ MediaPublished(t) \/ SfuFails(t)
      PROVE  Fewer /\ Same
  BY <1>9 DEF InviteSent, InviteFails, AnswerCall, GetUserMedia, MediaRefused, CreatePeerConnection,
     HungUp, TokenFetched, MediaPublished, SfuFails, mediaVars, roomVars
<1>10. ASSUME RingTimeout \/ DismissInvite \/ AcceptCall \/ HangUp \/ IceConnected \/ IceDisconnected
              \/ IceFailed \/ GraceTimeout \/ UpgradeToSfu \/ UNCHANGED vars
       PROVE  Fewer /\ Same
  BY <1>10 DEF RingTimeout, DismissInvite, AcceptCall, HangUp, IceConnected, IceDisconnected, IceFailed,
     GraceTimeout, UpgradeToSfu, vars, mediaVars, roomVars
<1> HIDE DEF Fewer, Same, Noted
<1>11. (Fewer \/ \E t \in tasks : RoomConnected(t)) /\ (Same \/ Noted)
  BY <1>3, <1>4, <1>5, <1>6, <1>7, <1>8, <1>9, <1>10 DEF Next
<1> QED
  BY <1>11 DEF Fewer, Same, Noted

\* A disconnect that is awaited goes on until the room is left.
LEMMA BeingLeftKept ==
  ASSUME Types, [Next]_vars, NEW o \in Conns, BeingLeft(o), o \in joined'
  PROVE  BeingLeft(o)'
<1>1. PICK t \in tasks : t.old = o
  BY DEF BeingLeft
<1>2. t.step \in {"replace", "abandon", "leave"}
  BY <1>1, ConnIsSomething DEF Types, TaskTypes, TaskShape
<1>3. ASSUME NEW u \in tasks, LeftRoom(u) \/ RoomReplaced(u) \/ RoomAbandoned(u) PROVE t \in tasks'
  BY <1>1, <1>3 DEF LeftRoom, RoomReplaced, RoomAbandoned, Disconnected, Goes
<1>4. ASSUME NEW u \in tasks,
             \/ InviteSent(u) \/ InviteFails(u) \/ AnswerCall(u) \/ GetUserMedia(u) \/ MediaRefused(u)
             \/ CreatePeerConnection(u) \/ HungUp(u) \/ TokenFetched(u) \/ RoomConnected(u)
             \/ MediaPublished(u) \/ SfuFails(u) \/ ConnectFails(u)
      PROVE  t \in tasks'
  <2>1. u.op = "initiate" => u.step = "wrap"
    BY DEF Types, TaskTypes, TaskShape, Waits
  <2>2. u.step \notin {"replace", "abandon", "leave"} /\ tasks \ {u} \subseteq tasks'
    BY <1>4, <2>1 DEF InviteSent, InviteFails, AnswerCall, GetUserMedia, MediaRefused, CreatePeerConnection,
       HungUp, TokenFetched, RoomConnected, MediaPublished, SfuFails, ConnectFails, Goes
  <2> QED
    BY <1>2, <2>2
<1>5. \/ tasks \subseteq tasks'
      \/ \E u \in tasks : \/ InviteSent(u) \/ InviteFails(u) \/ AnswerCall(u)
                          \/ GetUserMedia(u) \/ MediaRefused(u) \/ CreatePeerConnection(u)
                          \/ HungUp(u) \/ LeftRoom(u)
                          \/ TokenFetched(u) \/ RoomReplaced(u) \/ RoomConnected(u)
                          \/ RoomAbandoned(u) \/ MediaPublished(u) \/ SfuFails(u) \/ ConnectFails(u)
  BY DEF Next, InitiateCall, Connect, Describe, RemoteDisconnect, ReceiveInvite, ReceiveDecline,
     ReceiveMissed, Wrap, RingTimeout, DismissInvite, AcceptCall, HangUp, IceConnected,
     IceDisconnected, IceFailed, GraceTimeout, P2PFailure, SetUp, SetUpRoom, UpgradeToSfu,
     RoomDisconnected, vars
<1> QED
  BY <1>1, <1>3, <1>4, <1>5 DEF BeingLeft

\* Only a call there is, or one astray, acquires.
LEMMA Acquired ==
  ASSUME CallInv, [Next]_vars, NEW r \in Rooms, Holds(r)'
  PROVE  Holds(r) \/ Ok(r)
<1>types. Types /\ Types'
  BY TypesStep DEF CallInv
<1>1. ASSUME NEW t \in tasks, GetUserMedia(t) \/ CreatePeerConnection(t), P2P(r)' PROVE P2P(r) \/ Ok(r)
  <2>1. Acquires(t)
    BY <1>1, <1>types DEF GetUserMedia, CreatePeerConnection, Acquires, Types, TaskTypes, TaskShape, Waits
  <2> QED
    BY <1>1, <2>1 DEF GetUserMedia, CreatePeerConnection, P2P, CallInv, Joining
<1>2. P2P(r)' => P2P(r) \/ Ok(r)
  <2>1. CASE localStream' = Nothing /\ open' = open \ {localStream} /\ pc' = Nothing
    BY <2>1 DEF P2P
  <2> QED
    BY <1>types, <1>1, <2>1, MediaSteps, LessHolds
<1>3. ASSUME NEW o \in joined', o.room = r, ~BeingLeft(o)' PROVE ~RoomsLeft(r) \/ Ok(r)
  <2>1. o \in Conns
    BY <1>types DEF Types
  <2>2. CASE o \in joined
    BY <1>3, <1>types, <2>1, <2>2, BeingLeftKept DEF RoomsLeft
  <2>3. ASSUME o \notin joined, NEW t \in tasks, RoomConnected(t) PROVE Ok(r)
    <3>1. o = t.conn
      BY <2>3 DEF RoomConnected
    <3>2. t.room = r
      BY <1>3, <1>types, <2>3, <3>1 DEF RoomConnected, Types, TaskTypes, TaskShape, Waits
    <3>3. active # Nothing /\ active.room = t.room
      <4>1. ASSUME Goes(t, "abandon", t.conn) PROVE BeingLeft(o)'
        BY <3>1, <4>1, AtShape DEF Goes, BeingLeft
      <4> QED
        BY <1>3, <2>3, <4>1 DEF RoomConnected
    <3> QED
      BY <3>2, <3>3 DEF CallInv, RoomKnown, Ok, IsActive
  <2> QED
    BY <1>types, <2>2, <2>3, RoomSteps
<1> QED
  BY <1>2, <1>3 DEF Holds, RoomsLeft

LEMMA HeldOpenStep == CallInv /\ HeldOpen /\ [Next]_vars => HeldOpen'
<1> SUFFICES ASSUME CallInv, HeldOpen, [Next]_vars, NEW r \in open' PROVE localStream' = r \/ r \in astray'
  BY DEF HeldOpen
<1>types. Types
  BY DEF CallInv
<1>grown. astray \subseteq astray'
  BY <1>types, CallKept
<1>1. ASSUME NEW t \in tasks, GetUserMedia(t) PROVE localStream' = r \/ r \in astray'
  <2>1. CASE r = t.room
    BY <1>1, <2>1 DEF GetUserMedia
  <2>2. CASE r \in open
    <3>1. r # Nothing
      BY <1>types, <2>2 DEF Types
    <3> QED
      BY <1>1, <1>grown, <2>2, <3>1 DEF GetUserMedia, HeldOpen
  <2> QED
    BY <1>1, <2>1, <2>2 DEF GetUserMedia
<1> QED
  BY <1>types, <1>grown, <1>1, MediaSteps DEF HeldOpen, CreatePeerConnection

\* A room is referred to from its connect on, until it is forgotten or left.
LEMMA AccountedStep == CallInv /\ Accounted /\ [Next]_vars => Accounted'
<1> SUFFICES ASSUME CallInv, Accounted, [Next]_vars, NEW o \in joined'
             PROVE  o = currentRoom' \/ o.room \in astray' \/ BeingLeft(o)'
  BY DEF Accounted
<1>types. Types /\ Types'
  BY TypesStep DEF CallInv
<1>grown. astray \subseteq astray'
  BY <1>types, CallKept
<1>1. CASE o \notin joined
  BY <1>1, <1>types, RoomSteps DEF RoomConnected
<1>2. CASE o \in joined /\ BeingLeft(o)
  BY <1>2, <1>types, BeingLeftKept DEF Types
<1>3. CASE o = currentRoom /\ currentRoom' # currentRoom
  <2>1. BeingLeft(o)' \/ o.room \in Forgotten
    BY <1>3 DEF Forgotten, BeingLeft
  <2> QED
    BY <1>3, <1>types, <2>1, RoomSteps
<1> QED
  BY <1>1, <1>2, <1>3, <1>grown DEF Accounted

\* A call in LiveKit stays in it.
LEMMA SfuStays ==
  ASSUME Types, [Next]_vars, active # Nothing, active' # Nothing, active.isSfuFallback
  PROVE  active'.isSfuFallback
<1>1. \/ active' = active \/ \E x, y : active' = [active EXCEPT !.room = x, !.state = y]
      \/ \E y : active' = [active EXCEPT !.state = y]
      \/ \E y : active' = [active EXCEPT !.isSfuFallback = TRUE, !.state = y]
  <2>1. ASSUME NEW r \in Rooms, InitiateCall(r) \/ Connect(r) \/ Describe(r) \/ RemoteDisconnect(r)
        PROVE  active' = active \/ \E y : active' = [active EXCEPT !.state = y]
    BY <2>1 DEF InitiateCall, Connect, Describe, RemoteDisconnect, EndCall, storeVars
  <2>2. ASSUME NEW r \in Rooms, NEW fresh \in BOOLEAN,
               ReceiveInvite(r, fresh) \/ ReceiveDecline(r, fresh) \/ ReceiveMissed(r, fresh)
        PROVE  active' = active
    BY <2>2, Zenon DEF ReceiveInvite, ReceiveDecline, ReceiveMissed, EndCall, CallStays
  <2>3. ASSUME NEW t \in tasks,
               \/ InviteSent(t) \/ InviteFails(t) \/ GetUserMedia(t) \/ MediaRefused(t)
               \/ CreatePeerConnection(t) \/ HungUp(t) \/ LeftRoom(t)
               \/ TokenFetched(t) \/ RoomReplaced(t) \/ RoomConnected(t) \/ RoomAbandoned(t)
               \/ SfuFails(t) \/ ConnectFails(t)
        PROVE  active' = active
    BY <2>3 DEF InviteSent, InviteFails, GetUserMedia, MediaRefused, CreatePeerConnection, HungUp,
       LeftRoom, TokenFetched, RoomReplaced, RoomConnected, RoomAbandoned, SfuFails, ConnectFails,
       Caught, CallStays, EndCall, storeVars
  <2>4. ASSUME NEW t \in tasks, AnswerCall(t) \/ MediaPublished(t)
        PROVE  \/ \E x, y : active' = [active EXCEPT !.room = x, !.state = y]
               \/ \E y : active' = [active EXCEPT !.isSfuFallback = TRUE, !.state = y]
    BY <2>4 DEF AnswerCall, MediaPublished
  <2>5. CASE IceConnected
    BY <2>5 DEF IceConnected
  <2>6. CASE AcceptCall
    BY <2>6 DEF AcceptCall, Types
  <2>7. ASSUME RingTimeout \/ DismissInvite \/ HangUp \/ IceDisconnected \/ IceFailed \/ GraceTimeout
               \/ UpgradeToSfu \/ (\E o \in joined : RoomDisconnected(o)) \/ UNCHANGED vars
        PROVE  active' = active
    BY <2>7 DEF RingTimeout, DismissInvite, HangUp, IceDisconnected, IceFailed, GraceTimeout,
       UpgradeToSfu, RoomDisconnected, EndCall, CallStays, storeVars, vars
  <2> QED
    BY <2>1, <2>2, <2>3, <2>4, <2>5, <2>6, <2>7 DEF Next
<1> QED
  BY <1>1 DEF Types, Maybe

\* A function that turns on the microphone in the room does, or fails.
LEMMA PublishingEnds ==
  ASSUME Types, [Next]_vars, NEW t \in tasks, t.step = "publish media"
  PROVE  t \in tasks' \/ MediaPublished(t) \/ SfuFails(t)
<1>1. ASSUME NEW u \in tasks,
             \/ InviteSent(u) \/ InviteFails(u) \/ AnswerCall(u)
             \/ GetUserMedia(u) \/ MediaRefused(u) \/ CreatePeerConnection(u)
             \/ HungUp(u) \/ LeftRoom(u)
             \/ TokenFetched(u) \/ RoomReplaced(u) \/ RoomConnected(u)
             \/ RoomAbandoned(u) \/ ConnectFails(u)
      PROVE  t \in tasks'
  <2>1. u.op = "initiate" => u.step = "wrap"
    BY DEF Types, TaskTypes, TaskShape, Waits
  <2>2. u.step # "publish media" /\ tasks \ {u} \subseteq tasks'
    BY <1>1, <2>1 DEF InviteSent, InviteFails, AnswerCall, GetUserMedia, MediaRefused,
       CreatePeerConnection, HungUp, LeftRoom, TokenFetched, RoomReplaced, RoomConnected,
       RoomAbandoned, ConnectFails, Goes
  <2> QED
    BY <2>2
<1>2. ASSUME NEW u \in tasks, MediaPublished(u) \/ SfuFails(u), u # t PROVE t \in tasks'
  BY <1>2 DEF MediaPublished, SfuFails
<1>3. \/ tasks \subseteq tasks'
      \/ \E u \in tasks : \/ InviteSent(u) \/ InviteFails(u) \/ AnswerCall(u)
                          \/ GetUserMedia(u) \/ MediaRefused(u) \/ CreatePeerConnection(u)
                          \/ HungUp(u) \/ LeftRoom(u)
                          \/ TokenFetched(u) \/ RoomReplaced(u) \/ RoomConnected(u)
                          \/ RoomAbandoned(u) \/ MediaPublished(u) \/ SfuFails(u) \/ ConnectFails(u)
  BY DEF Next, InitiateCall, Connect, Describe, RemoteDisconnect, ReceiveInvite, ReceiveDecline,
     ReceiveMissed, Wrap, RingTimeout, DismissInvite, AcceptCall, HangUp, IceConnected,
     IceDisconnected, IceFailed, GraceTimeout, P2PFailure, SetUp, SetUpRoom, UpgradeToSfu,
     RoomDisconnected, vars
<1> QED
  BY <1>1, <1>2, <1>3

\* A call whose room is joined knows it: the functions that publish in it are under way.
LEMMA ConnectedStep == CallInv /\ HeldByCall /\ Connected /\ [Next]_vars => Connected'
<1> SUFFICES ASSUME CallInv, HeldByCall, Connected, [Next]_vars,
                    NEW o \in joined', IsActive(o.room)', o.room \notin astray', ~BeingLeft(o)'
             PROVE  active'.isSfuFallback \/ \E t \in tasks' : t.room = o.room /\ t.step = "publish media"
  BY DEF Connected
<1>types. Types /\ Types'
  BY TypesStep DEF CallInv
<1>conn. o \in Conns /\ o.room \in Rooms
  BY <1>types DEF Types
<1>grown. astray \subseteq astray'
  BY <1>types, CallKept
<1>1. ASSUME NEW t \in tasks, RoomConnected(t), o \notin joined
      PROVE  \E u \in tasks' : u.room = o.room /\ u.step = "publish media"
  <2>1. o = t.conn
    BY <1>1 DEF RoomConnected
  <2>2. t.room = o.room
    BY <1>1, <1>types, <2>1 DEF RoomConnected, Types, TaskTypes, TaskShape, Waits
  <2>3. ASSUME Goes(t, "abandon", t.conn) PROVE BeingLeft(o)'
    BY <2>1, <2>3, AtShape DEF Goes, BeingLeft
  <2>4. Goes(t, "publish media", Nothing)
    BY <1>1, <2>3 DEF RoomConnected
  <2>5. At(t, "publish media", Nothing) \in tasks'
    BY <2>4 DEF Goes
  <2> QED
    BY <2>2, <2>5 DEF At, Task
<1>2. ASSUME NEW t \in tasks, MediaPublished(t) PROVE active'.isSfuFallback
  BY <1>2, <1>types DEF MediaPublished, IsActive, Types, Maybe
<1>3. ASSUME NEW t \in tasks, t.room = o.room, t.step = "publish media"
      PROVE  active'.isSfuFallback \/ t \in tasks'
  <2>1. CASE SfuFails(t)
    BY <1>3, <2>1 DEF SfuFails, Caught, EndCall, IsActive
  <2> QED
    BY <1>2, <1>3, <1>types, <2>1, PublishingEnds
<1>4. CASE o \in joined
  <2>1. ~BeingLeft(o)
    BY <1>conn, <1>types, BeingLeftKept
  <2>2. IsActive(o.room)
    BY <1>4, <1>conn, <1>grown, <2>1 DEF HeldByCall, IsActive
  <2>3. active.isSfuFallback => active'.isSfuFallback
    BY <1>types, <2>2, SfuStays DEF IsActive
  <2> QED
    BY <1>3, <1>4, <1>grown, <2>1, <2>2, <2>3 DEF Connected
<1> QED
  BY <1>1, <1>4, <1>types, RoomSteps

\* What a hang-up releases when it is about to leave: the streams and the connection.
LEMMA NewLeave ==
  ASSUME Types, [Next]_vars, NEW t \in tasks', t \notin tasks, t.step = "leave"
  PROVE  /\ t.old = currentRoom /\ UNCHANGED roomVars /\ ReleaseP2P
         /\ currentRoom # Nothing
<1>1. ASSUME NEW u \in tasks,
             \/ AnswerCall(u) \/ GetUserMedia(u) \/ TokenFetched(u) \/ RoomReplaced(u) \/ RoomConnected(u)
      PROVE  FALSE
  <2>1. \E step \in {"media", "relays", "connect", "replace", "publish media", "abandon"} : \E old :
          t = At(u, step, old)
    BY <1>1 DEF Goes, AnswerCall, GetUserMedia, TokenFetched, RoomReplaced, RoomConnected
  <2> QED
    BY <2>1 DEF At, Task
<1>2. ~HangUp
  BY DEF HangUp, Task
<1>3. ASSUME NEW u \in tasks, HungUp(u)
      PROVE  t.old = currentRoom /\ UNCHANGED roomVars /\ ReleaseP2P /\ currentRoom # Nothing
  BY <1>3, AtShape DEF HungUp, Goes
<1>4. ASSUME NEW r \in Rooms, RemoteDisconnect(r)
      PROVE  t.old = currentRoom /\ UNCHANGED roomVars /\ ReleaseP2P /\ currentRoom # Nothing
  BY <1>4 DEF RemoteDisconnect, Task
<1> QED
  BY <1>1, <1>2, <1>3, <1>4, TaskSteps DEF Task, AcceptCall, Connect, SetUp

\* A hang-up that will not leave a room has none to leave: its call is not in LiveKit,
\* and no function of it is about to be; one that leaves a room leaves the only one.
LEMMA DepartingStep == CallInv /\ Accounted /\ Connected /\ Departing /\ [Next]_vars => Departing'
<1> SUFFICES ASSUME CallInv, Accounted, Connected, Departing, [Next]_vars,
                    NEW t \in tasks', t.step \in {"publish", "leave"},
                    NEW o \in joined', o.room = t.room, ~BeingLeft(o)'
             PROVE  t.room \in astray'
  BY DEF Departing, RoomsLeft
<1>types. Types /\ Types' /\ Crossing'
  BY CallInvStep DEF CallInv
<1>grown. astray \subseteq astray'
  BY <1>types, CallKept
<1>conn. o \in Conns
  BY <1>types DEF Types
<1>left. o \in joined => ~BeingLeft(o)
  BY <1>types, <1>conn, BeingLeftKept
<1>room. t.room \in Rooms /\ t.op = "hangup"
  BY <1>types DEF Types, TaskTypes, TaskShape, Waits
<1>1. CASE o \in joined /\ t \in tasks
  BY <1>1, <1>grown, <1>left DEF Departing, RoomsLeft
<1>2. ASSUME NEW u \in tasks, RoomConnected(u), o \notin joined PROVE t.room \in astray'
  <2>1. t \in tasks
    <3>1. t \in tasks \/ t = At(u, "publish media", Nothing) \/ t = At(u, "abandon", u.conn)
      BY <1>2 DEF Goes, RoomConnected
    <3> QED
      <4>1. t \in tasks \/ t.step = "publish media" \/ t.step = "abandon"
        <5>1. ASSUME t = At(u, "publish media", Nothing) PROVE t.step = "publish media"
          BY <5>1, AtStep
        <5>2. ASSUME t = At(u, "abandon", u.conn) PROVE t.step = "abandon"
          BY <5>2, AtStep
        <5> QED
          BY <3>1, <5>1, <5>2
      <4> QED
        BY <4>1
  <2>2. o = u.conn
    BY <1>2 DEF RoomConnected
  <2>3. u.op \in SetUpOps /\ u.room = t.room
    BY <1>2, <1>types, <2>2 DEF RoomConnected, Types, TaskTypes, TaskShape, Waits, SetUpOps
  <2> QED
    BY <1>grown, <1>room, <2>1, <2>3 DEF CallInv, Crossing
<1>3. ASSUME HangUp, t \notin tasks, o \in joined PROVE t.room \in astray'
  <2>1. t = Task("hangup", active.id, IF active.isSfuFallback THEN "publishSfu" ELSE "publish", Nothing, Nothing)
    BY <1>3 DEF HangUp
  <2>2. t.room = active.id /\ ~active.isSfuFallback /\ IsActive(active.id)
    BY <1>3, <2>1 DEF HangUp, Task, IsActive
  <2>3. ASSUME NEW u \in tasks, u.room = active.id, u.step = "publish media" PROVE SettingUp(active.id)
    <3>1. u.op \in SetUpOps /\ u \in tasks'
      BY <1>3, <1>types, <2>3 DEF HangUp, Types, TaskTypes, TaskShape, Waits, SetUpOps
    <3> QED
      BY <2>3, <3>1 DEF SettingUp, SetUpOps
  <2> QED
    BY <1>3, <1>grown, <1>left, <2>2, <2>3 DEF HangUp, AstrayIfSettingUp, Connected
<1>4. ASSUME t \notin tasks, t.step = "leave", o \in joined PROVE t.room \in astray'
  <2>1. t.old = currentRoom
    BY <1>4, <1>types, NewLeave
  <2>2. o # currentRoom
    BY <2>1 DEF BeingLeft
  <2> QED
    BY <1>4, <1>grown, <1>left, <2>2 DEF Accounted
<1>5. ASSUME ~HangUp, t.step = "publish" PROVE t \in tasks
  <2>1. ASSUME NEW u \in tasks,
               \/ AnswerCall(u) \/ GetUserMedia(u) \/ HungUp(u)
               \/ TokenFetched(u) \/ RoomReplaced(u) \/ RoomConnected(u)
        PROVE  t \in tasks
    <3>1. \/ t \in tasks \/ t = At(u, "media", Nothing) \/ t = At(u, "relays", Nothing)
          \/ t = At(u, "leave", currentRoom) \/ t = At(u, "replace", currentRoom)
          \/ t = At(u, "connect", Nothing) \/ t = At(u, "publish media", Nothing)
          \/ t = At(u, "abandon", u.conn)
      BY <2>1 DEF Goes, AnswerCall, GetUserMedia, HungUp, TokenFetched, RoomReplaced, RoomConnected
    <3> QED
      <4>1. ASSUME t = At(u, "media", Nothing) \/ t = At(u, "relays", Nothing) PROVE t.step # "publish"
        BY <4>1, AtStep
      <4>2. ASSUME t = At(u, "leave", currentRoom) \/ t = At(u, "replace", currentRoom)
            PROVE  t.step # "publish"
        BY <4>2, AtStep
      <4>3. ASSUME t = At(u, "connect", Nothing) \/ t = At(u, "publish media", Nothing)
            PROVE  t.step # "publish"
        BY <4>3, AtStep
      <4>4. ASSUME t = At(u, "abandon", u.conn) PROVE t.step # "publish"
        BY <4>4, AtStep
      <4> QED
        BY <1>5, <3>1, <4>1, <4>2, <4>3, <4>4
  <2> QED
    BY <1>5, <1>types, <2>1, TaskSteps DEF Task, AcceptCall, Connect, SetUp
<1> QED
  BY <1>1, <1>2, <1>3, <1>4, <1>5, <1>types, RoomSteps

\* A hang-up that is leaving the room has released the rest.
LEMMA ReleasedStep == CallInv /\ HeldOpen /\ Released /\ [Next]_vars => Released'
<1> SUFFICES ASSUME CallInv, HeldOpen, Released, [Next]_vars,
                    NEW t \in tasks', t.step = "leave", P2P(t.room)'
             PROVE  t.room \in astray'
  BY DEF Released, P2P
<1>types. Types /\ Types' /\ Crossing'
  BY CallInvStep DEF CallInv
<1>grown. astray \subseteq astray'
  BY <1>types, CallKept
<1>room. t.room \in Rooms /\ t.op = "hangup"
  BY <1>types DEF Types, TaskTypes, TaskShape, Waits
<1>1. ASSUME NEW u \in tasks, GetUserMedia(u) \/ CreatePeerConnection(u), t \in tasks, ~P2P(t.room)
      PROVE  t.room \in astray'
  <2>1. u.op \in SetUpOps
    BY <1>1, <1>types DEF GetUserMedia, CreatePeerConnection, Types, TaskTypes, TaskShape, Waits, SetUpOps
  <2>2. u.room = t.room
    BY <1>1, <1>room DEF GetUserMedia, CreatePeerConnection, P2P
  <2> QED
    BY <1>1, <1>grown, <1>room, <2>1, <2>2 DEF CallInv, Crossing
<1>3. CASE localStream' = Nothing /\ open' = open \ {localStream} /\ pc' = Nothing
  BY <1>3, <1>room, <1>grown DEF HeldOpen, P2P
<1>4. CASE t \in tasks
  <2>1. CASE P2P(t.room)
    BY <1>4, <1>grown, <2>1 DEF Released, P2P
  <2>2. CASE ~P2P(t.room)
    BY <1>1, <1>3, <1>4, <1>room, <1>types, <2>2, MediaSteps, LessHolds
  <2> QED
    BY <2>1, <2>2
<1>5. CASE t \notin tasks
  BY <1>3, <1>5, <1>types, NewLeave DEF ReleaseP2P
<1> QED
  BY <1>4, <1>5

\* What was not held by a call of its own or astray is not held now, and a call that is
\* hung up with no set-up left has released what it held.
LEMMA HeldStep == CallInv /\ MediaInv /\ [Next]_vars => HeldByCall'
<1> SUFFICES ASSUME CallInv, MediaInv, [Next]_vars, NEW r \in Rooms, Holds(r)' PROVE Ok(r)'
  BY DEF HeldByCall, Holds, P2P, RoomsLeft, Ok, IsActive
<1>types. Types /\ Types'
  BY TypesStep DEF CallInv
<1>grown. astray \subseteq astray'
  BY <1>types, CallKept
<1>1. Ok(r)
  BY Acquired DEF MediaInv, HeldByCall, Holds, P2P, RoomsLeft, Ok, IsActive
<1>2. CASE r \in astray
  BY <1>2, <1>grown DEF Ok
<1>3. CASE IsActive(r) /\ HangsUp /\ ~SettingUp(r) /\ ~IsActive(r)' /\ r \notin astray'
  <2>1. r \notin astray
    BY <1>3, <1>grown
  <2>rooms. ASSUME RoomsLeft(r), joined' \subseteq joined PROVE RoomsLeft(r)'
    BY <1>types, <2>rooms, BeingLeftKept DEF RoomsLeft, Types
  <2>none. ASSUME currentRoom = Nothing PROVE RoomsLeft(r)
    BY <1>types, <2>1, <2>none, ConnIsSomething DEF RoomsLeft, MediaInv, Accounted, Types
  <2>p2p. ASSUME ReleaseP2P PROVE ~P2P(r)'
    BY <2>1, <2>p2p DEF MediaInv, HeldOpen, ReleaseP2P, P2P
  <2>2. ASSUME NEW t \in tasks, HungUp(t) PROVE FALSE
    <3>1. t.room = r /\ (t.step = "publish" \/ currentRoom = Nothing)
      <4>1. UNCHANGED active \/ ((t.step = "publish" \/ currentRoom = Nothing) /\ EndCall(t.room, "hangup"))
        BY <2>2 DEF HungUp, CallStays
      <4>2. (t.step = "publish" \/ currentRoom = Nothing) /\ EndCall(t.room, "hangup")
        BY <1>3, <4>1 DEF IsActive
      <4> QED
        BY <1>3, <1>types, <4>2, EndCallShape
    <3>2. RoomsLeft(r)
      BY <2>1, <2>none, <3>1 DEF MediaInv, Departing
    <3> QED
      BY <2>2, <2>rooms, <2>p2p, <3>2 DEF HungUp, roomVars, Holds
  <2>3. ASSUME NEW t \in tasks, LeftRoom(t) PROVE FALSE
    <3>1. t.room = r
      BY <1>3, <1>types, <2>3, EndCallShape DEF LeftRoom
    <3>2. RoomsLeft(r) /\ ~P2P(r)
      BY <2>1, <2>3, <3>1 DEF MediaInv, Departing, Released, LeftRoom, P2P
    <3>3. ~P2P(r)'
      BY <2>3, <3>2 DEF LeftRoom, p2pVars, P2P
    <3>4. joined' \subseteq joined
      BY <2>3 DEF LeftRoom, Disconnected
    <3> QED
      BY <2>rooms, <3>2, <3>3, <3>4 DEF Holds
  <2>4. ASSUME NEW s \in Rooms, RemoteDisconnect(s) PROVE FALSE
    <3>1. EndCall(s, "hangup") /\ (~active.isSfuFallback \/ currentRoom = Nothing) /\ UNCHANGED tasks
      BY <1>3, <2>4 DEF RemoteDisconnect, IsActive
    <3>2. RoomsLeft(r)
      <4>1. ASSUME NEW t \in tasks, t.room = r, t.step = "publish media" PROVE FALSE
        BY <1>3, <1>types, <3>1, <4>1 DEF SettingUp, Types, TaskTypes, TaskShape, Waits
      <4> QED
        BY <1>3, <2>1, <2>none, <3>1, <4>1 DEF MediaInv, Connected, RoomsLeft
    <3> QED
      BY <2>4, <2>rooms, <2>p2p, <3>2 DEF RemoteDisconnect, roomVars, Holds
  <2> QED
    BY <1>3, <2>2, <2>3, <2>4 DEF HangsUp
<1> QED
  BY <1>1, <1>2, <1>3, <1>types, CallKept DEF Ok

-----------------------------------------------------------------------------
LEMMA EndedStep == CallInv /\ MediaInv /\ EndedByOwn /\ [Next]_vars => EndedByOwn'
<1> SUFFICES ASSUME CallInv, MediaInv, EndedByOwn, [Next]_vars PROVE EndedByOwn'
  OBVIOUS
<1>types. Types
  BY DEF CallInv
<1>grown. astray \subseteq astray'
  BY <1>types, CallKept
<1>1. CASE endedBy' = endedBy
  BY <1>1, <1>grown DEF EndedByOwn
<1>2. ASSUME NEW by, NEW how, EndCall(by, how),
             \/ how \in {"hangup", "passing"}
             \/ how = "declined" /\ Partner[by] = Partner[active.id]
             \/ how = "failed" /\ by \in astray
             \/ by = active.id
      PROVE  EndedByOwn'
  <2> SUFFICES ASSUME NEW r \in Rooms, endedBy'[r] # Nothing
               PROVE  \/ endedBy'[r].how \in {"hangup", "passing"}
                      \/ endedBy'[r].how = "declined" /\ Partner[endedBy'[r].room] = Partner[r]
                      \/ endedBy'[r].how = "failed" /\ endedBy'[r].room \in astray'
    BY DEF EndedByOwn
  <2>1. CASE endedBy'[r] = endedBy[r]
    BY <2>1, <1>grown DEF EndedByOwn
  <2>2. CASE endedBy'[r] # endedBy[r]
    <3>1. IsActive(r) /\ by # r /\ endedBy'[r] = [room |-> by, how |-> how]
      BY <1>2, <1>types, <2>2, EndCallShape
    <3>2. endedBy'[r].how = how /\ endedBy'[r].room = by /\ active.id = r
      BY <3>1 DEF IsActive
    <3> QED
      BY <1>2, <1>grown, <3>1, <3>2
  <2> QED
    BY <2>1, <2>2
<1>3. CASE RingTimeout
  <2>1. active.room = ringTimer /\ active # Nothing /\ active.state = "ringing" => active.id = ringTimer
    BY DEF CallInv, RoomKnown
  <2> QED
    BY <1>1, <1>2, <1>3, <2>1 DEF RingTimeout, CallStays
<1>4. ASSUME NEW r \in Rooms, NEW fresh \in BOOLEAN, ReceiveDecline(r, fresh) PROVE EndedByOwn'
  <2>1. UNCHANGED endedBy \/ (EndCall(r, "declined") /\ Partner[r] = Partner[active.id])
    BY <1>4, Zenon DEF ReceiveDecline, CallStays
  <2> QED
    BY <1>1, <1>2, <2>1
<1>5. ASSUME NEW t \in tasks, SfuFails(t) \/ ConnectFails(t) PROVE EndedByOwn'
  <2>1. t.room \in Rooms
    BY <1>types DEF Types, TaskTypes
  <2>2. active # Nothing /\ active.room = t.room => t.room = active.id \/ t.room \in astray
    BY <2>1 DEF CallInv, RoomKnown
  <2> QED
    BY <1>1, <1>2, <1>5, <2>2 DEF SfuFails, ConnectFails, Caught
<1>6. ASSUME NEW o \in joined, RoomDisconnected(o) PROVE EndedByOwn'
  <2>1. o.room \in Rooms
    BY <1>types DEF Types
  <2>2. active = Nothing \/ o.room = active.id \/ o.room \in astray \/ BeingLeft(o)
    BY <2>1 DEF MediaInv, HeldByCall
  <2> QED
    BY <1>1, <1>2, <1>6, <2>2 DEF RoomDisconnected, CallStays
<1>7. ASSUME (\E t \in tasks : HungUp(t) \/ LeftRoom(t)) \/ \E r \in Rooms : RemoteDisconnect(r)
      PROVE  EndedByOwn'
  <2>1. endedBy' = endedBy \/ \E by : EndCall(by, "hangup")
    BY <1>7 DEF HungUp, LeftRoom, RemoteDisconnect, CallStays
  <2> QED
    BY <1>1, <1>2, <2>1
<1>8. \/ endedBy' = endedBy \/ RingTimeout \/ \E o \in joined : RoomDisconnected(o)
      \/ \E t \in tasks : HungUp(t) \/ LeftRoom(t) \/ SfuFails(t) \/ ConnectFails(t)
      \/ \E r \in Rooms : RemoteDisconnect(r) \/ \E fresh \in BOOLEAN : ReceiveDecline(r, fresh)
  BY DEF Next, InitiateCall, Connect, Describe, ReceiveInvite, ReceiveMissed, InviteSent, InviteFails,
     AnswerCall, GetUserMedia, MediaRefused, CreatePeerConnection, TokenFetched, RoomReplaced,
     RoomConnected, RoomAbandoned, MediaPublished, CallStays, DismissInvite, AcceptCall, HangUp,
     IceConnected, IceDisconnected, IceFailed, GraceTimeout, UpgradeToSfu, historyVars, vars
<1> QED
  BY <1>1, <1>3, <1>4, <1>5, <1>6, <1>7, <1>8

-----------------------------------------------------------------------------
LEMMA IInvInit == Init => IInv
<1> SUFFICES ASSUME Init PROVE IInv
  OBVIOUS
<1>1. CallInv
  BY DEF Init, CallInv, Types, TaskTypes, Maybe, Fresh, RoomKnown, Joining, Crossing
<1>2. MediaInv
  BY DEF Init, MediaInv, HeldOpen, Accounted, Connected, Departing, Released, HeldByCall
<1>3. EndedByOwn
  BY DEF Init, EndedByOwn
<1> QED
  BY <1>1, <1>2, <1>3 DEF IInv

LEMMA IInvStep == IInv /\ [Next]_vars => IInv'
BY CallInvStep, HeldOpenStep, AccountedStep, ConnectedStep, DepartingStep, ReleasedStep, HeldStep, EndedStep
   DEF IInv, MediaInv

LEMMA IInvariant == Spec => []IInv
BY IInvInit, IInvStep, PTL DEF Spec

\* Every call the client refers to is one it placed or answered, and no invite is shown
\* during a call (callSlice.ts): for any calls and partners.
THEOREM TypeInvariant == Spec => []TypeOK
<1>1. IInv => TypeOK
  BY DEF IInv, CallInv, Types, TaskTypes, TypeOK, Maybe, States
<1> QED
  BY <1>1, IInvariant, PTL

\* A hang-up, of either side, releases what the call held, whatever comes late
\* (hangupCall, handleRTCSignal): for any calls, as many at once as the late functions
\* make of them.
THEOREM HeldByCallInvariant == Spec => []HeldByCall
<1>1. IInv => HeldByCall
  BY DEF IInv, MediaInv
<1> QED
  BY <1>1, IInvariant, PTL

\* A call is ended by its own ring timer, signals and failures, or by one of the listed
\* ways of another (callService.ts:144-152, #43): for any calls and partners.
THEOREM EndedByOwnInvariant == Spec => []EndedByOwn
<1>1. IInv => EndedByOwn
  BY DEF IInv
<1> QED
  BY <1>1, IInvariant, PTL
=============================================================================
