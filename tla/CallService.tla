----------------------------- MODULE CallService -----------------------------
(***************************************************************************)
(* One client's 1:1 calls: callService.ts with the call slice, the peer     *)
(* connection and the LiveKit room it holds, and the gift wraps and signals *)
(* that reach it.  The partners are the environment: they send what they    *)
(* know the room for, at any time.  A room names a call; Outgoing are the   *)
(* calls this client may place, the others it may be invited to.            *)
(*                                                                         *)
(* Every function runs to its next await; tasks are the functions that      *)
(* wait there.  A signal is read and gated, decrypted, and gated again: the *)
(* second gate is the step.  Setting a description is one step with its      *)
(* signal; candidates, muting and the camera switch are left out.  A second  *)
(* hang-up of a call while one is publishing is the same task.               *)
(*                                                                         *)
(* A LiveKit room is an object: every connect makes one, and currentRoom     *)
(* names the last that connected, whatever others are still joined.  Voice    *)
(* channels, which share it, are left out.                                   *)
(***************************************************************************)

CONSTANTS Rooms, Outgoing, Partner, Nothing,
  Copies  \* tells the LiveKit rooms of one call apart: a bound on those there are at a time

\* The LiveKit rooms, each made for a call.
Conns == [room : Rooms, copy : Copies]

ASSUME CallAssumption ==
  /\ Outgoing \subseteq Rooms /\ Nothing \notin Rooms
  /\ DOMAIN Partner = Rooms
  /\ \A o \in Conns : Nothing # o
  /\ \A call \in [id : Rooms, room : Rooms \cup {Nothing},
                 state : {"ringing", "connecting", "active"}, isSfuFallback : BOOLEAN] :
       Nothing # call

VARIABLES
  active,      \* activeCall: [id, room, state, isSfuFallback], or Nothing
  incoming,    \* the room of incomingCall, or Nothing
  processed,   \* processedWrapIds
  ringTimer, disconnectGraceTimer,   \* the call they were armed for, or Nothing
  localStream, \* the call the camera and microphone were opened for, or Nothing
  open,        \* captures not stopped
  pc,          \* activePeerConnection: [room, ice], or Nothing
  joined,      \* the LiveKit rooms that are connected
  currentRoom, \* the one the client refers to, or Nothing
  tasks,       \* suspended functions
  \* history
  placed,      \* calls placed or answered
  invited,     \* calls whose invite is published
  endedBy,     \* per call, what other call's end ended it: [room, how], or Nothing
  astray       \* calls that ended otherwise than by their hang-up, or hung up during their own
               \* set-up, and those whose stream was lost or not taken by the LiveKit room,
               \* or that have a room which is joined and no longer referred to

storeVars   == <<active, incoming, processed>>
timerVars   == <<ringTimer, disconnectGraceTimer>>
roomVars    == <<joined, currentRoom>>
p2pVars     == <<localStream, open, pc>>
mediaVars   == <<p2pVars, roomVars>>
historyVars == <<placed, invited, endedBy, astray>>
vars == <<storeVars, timerVars, mediaVars, tasks, historyVars>>

\* A suspended function: conn is the LiveKit room it sets up, old the one whose
\* disconnect it awaits.
Task(op, r, step, conn, old) == [op |-> op, room |-> r, step |-> step, conn |-> conn, old |-> old]
At(t, step, old) == Task(t.op, t.room, step, t.conn, old)
Goes(t, step, old) == tasks' = (tasks \ {t}) \cup {At(t, step, old)}

\* A room object not in use.
Free(o) == o \notin joined /\ \A t \in tasks : o \notin {t.conn, t.old}
BeingLeft(o) == \E t \in tasks : t.old = o

SettingUp(r) == \E t \in tasks' : t.room = r /\ t.op \in {"answer", "start", "fallback", "upgrade"}
\* A set-up of r begins, the hang-up of r maybe under way.
SetUp(op, r, step, conn) ==
  /\ tasks' = tasks \cup {Task(op, r, step, conn, Nothing)}
  /\ astray' = IF \E t \in tasks : t.op = "hangup" /\ t.room = r THEN astray \cup {r} ELSE astray
\* One that will connect a LiveKit room.
SetUpRoom(op, r) ==
  \E o \in Conns : o.room = r /\ Free(o) /\ SetUp(op, r, "token", o)
\* The hang-up of r begins, a set-up maybe under way.
AstrayIfSettingUp(r) == astray' = IF SettingUp(r) THEN astray \cup {r} ELSE astray

-----------------------------------------------------------------------------
\* The call whose room this step forgets: still joined, and nobody leaves it.
Forgotten ==
  {o.room : o \in (joined' \cap {currentRoom}) \ ({currentRoom'} \cup {t.old : t \in tasks'})}

CallStays == UNCHANGED <<active, incoming, endedBy>> /\ astray' = astray \cup Forgotten

\* The reducer endCall, on whatever call is active; by is the call on whose
\* behalf.  Only a hang-up releases what it holds, before.
EndCall(by, how) ==
  /\ active' = Nothing /\ incoming' = Nothing
  /\ IF active = Nothing
     THEN UNCHANGED endedBy /\ astray' = astray \cup Forgotten
     ELSE /\ endedBy' = IF by = active.id THEN endedBy
                       ELSE [endedBy EXCEPT ![active.id] = [room |-> by, how |-> how]]
          /\ astray' = astray \cup Forgotten
               \cup {r \in {active.id} : how # "hangup" \/ by # r \/ SettingUp(r)}

\* stopMediaStream of the stream in hand, and the connection closed.
ReleaseP2P ==
  /\ localStream' = Nothing /\ open' = open \ {localStream}
  /\ pc' = Nothing

-----------------------------------------------------------------------------
\* The call button is disabled during a call, and behind the dialog of an invite.
InitiateCall(r) ==
  /\ active = Nothing /\ incoming = Nothing
  /\ r \in Outgoing \ placed
  /\ active' = [id |-> r, room |-> r, state |-> "ringing", isSfuFallback |-> FALSE]
  /\ tasks' = tasks \cup {Task("initiate", r, "wrap", Nothing, Nothing)}
  /\ placed' = placed \cup {r}
  /\ UNCHANGED <<incoming, processed, timerVars, mediaVars, invited, endedBy, astray>>

\* The invite is wrapped and published, whatever became of the call, and the timer
\* set anew.
InviteSent(t) ==
  /\ t \in tasks /\ t.op = "initiate"
  /\ tasks' = tasks \ {t} /\ invited' = invited \cup {t.room}
  /\ ringTimer' = t.room
  /\ UNCHANGED <<storeVars, disconnectGraceTimer, mediaVars, placed, endedBy, astray>>

\* The signer refuses: no invite, and no timer.
InviteFails(t) ==
  /\ t \in tasks /\ t.op = "initiate"
  /\ tasks' = tasks \ {t}
  /\ UNCHANGED <<storeVars, timerVars, mediaVars, historyVars>>

\* Mutant of RingTimeout: any ringing call.
RingTimeout_AnyCall ==
  /\ ringTimer # Nothing
  /\ ringTimer' = Nothing /\ UNCHANGED <<tasks, mediaVars>>
  /\ IF active # Nothing /\ active.state = "ringing"
     THEN EndCall(ringTimer, "missed")
     ELSE CallStays
  /\ UNCHANGED <<processed, disconnectGraceTimer, placed, invited>>

\* The timer ends the call it was set for, and only while it rings.
RingTimeout ==
  /\ ringTimer # Nothing
  /\ ringTimer' = Nothing /\ UNCHANGED <<tasks, mediaVars>>
  /\ IF active # Nothing /\ active.room = ringTimer /\ active.state = "ringing"
     THEN EndCall(ringTimer, "missed")
     ELSE CallStays
  /\ UNCHANGED <<processed, disconnectGraceTimer, placed, invited>>

-----------------------------------------------------------------------------
\* A wrap that was not handled yet.
Wrap(type, r) ==
  /\ <<type, r>> \notin processed
  /\ processed' = processed \cup {<<type, r>>}
  /\ UNCHANGED <<timerVars, mediaVars, tasks, placed, invited>>

\* Mutant of ReceiveInvite: one that comes during a call rings as well.
ReceiveInvite_DuringCall(r, fresh) ==
  /\ r \in Rooms \ Outgoing
  /\ Wrap("invite", r)
  /\ incoming' = IF fresh /\ incoming = Nothing THEN r ELSE incoming
  /\ UNCHANGED <<active, endedBy, astray>>

\* An old one is dropped, and one that comes during a call.
ReceiveInvite(r, fresh) ==
  /\ r \in Rooms \ Outgoing
  /\ Wrap("invite", r)
  /\ incoming' = IF fresh /\ active = Nothing /\ incoming = Nothing THEN r ELSE incoming
  /\ UNCHANGED <<active, endedBy, astray>>

\* A decline names no room: it ends whatever call with that partner, and releases
\* nothing.
ReceiveDecline(r, fresh) ==
  /\ r \in invited
  /\ Wrap("decline", r)
  /\ IF fresh /\ active # Nothing /\ Partner[active.id] = Partner[r]
     THEN EndCall(r, "declined")
     ELSE CallStays

\* Neither does a call_missed: it takes back whatever invite of that partner.
ReceiveMissed(r, fresh) ==
  /\ r \in Rooms \ Outgoing
  /\ Wrap("missed", r)
  /\ incoming' = IF fresh /\ incoming # Nothing /\ Partner[incoming] = Partner[r]
                 THEN Nothing ELSE incoming
  /\ UNCHANGED <<active, endedBy, astray>>

\* rejectCall, or the dialog's own timer.
DismissInvite ==
  /\ incoming # Nothing
  /\ incoming' = Nothing
  /\ UNCHANGED <<active, processed, timerVars, mediaVars, tasks, historyVars>>

-----------------------------------------------------------------------------
\* acceptCall and the first part of answerCall: the room is not known yet.
AcceptCall ==
  /\ incoming # Nothing
  /\ active' = [id |-> incoming, room |-> Nothing, state |-> "connecting", isSfuFallback |-> FALSE]
  /\ incoming' = Nothing
  /\ SetUp("answer", incoming, "room", Nothing)
  /\ placed' = placed \cup {incoming}
  /\ UNCHANGED <<processed, timerVars, mediaVars, invited, endedBy>>

\* The room is derived, and given to the call that is active now.
AnswerCall(t) ==
  /\ t \in tasks /\ t.op = "answer" /\ t.step = "room"
  /\ active' = IF active = Nothing THEN Nothing
               ELSE [active EXCEPT !.room = t.room, !.state = "connecting"]
  /\ Goes(t, "media", Nothing)
  /\ UNCHANGED <<incoming, processed, timerVars, mediaVars, historyVars>>

\* The partner's connect starts the caller's side, once, and only if no connection
\* is left from before.
Connect(r) ==
  /\ r \in invited
  /\ active # Nothing /\ active.room = r /\ active.state = "ringing" /\ pc = Nothing
  /\ ringTimer' = Nothing
  /\ active' = [active EXCEPT !.state = "connecting"]
  /\ SetUp("start", r, "media", Nothing)
  /\ UNCHANGED <<incoming, processed, disconnectGraceTimer, mediaVars, placed, invited, endedBy>>

\* getUserMedia answers, after the user did: the stream is kept whatever became of
\* the call, and one that is kept already is lost.
GetUserMedia(t) ==
  /\ t \in tasks /\ t.step = "media"
  /\ localStream' = t.room /\ open' = open \cup {t.room}
  /\ Goes(t, "relays", Nothing)
  /\ astray' = IF localStream = Nothing THEN astray ELSE astray \cup {localStream}
  /\ UNCHANGED <<storeVars, timerVars, pc, roomVars, placed, invited, endedBy>>

\* The user refuses: the call stays as it is.
MediaRefused(t) ==
  /\ t \in tasks /\ t.step = "media"
  /\ tasks' = tasks \ {t}
  /\ UNCHANGED <<storeVars, timerVars, mediaVars, historyVars>>

\* The signal relays are known: createPeerConnection, which closes another one; then
\* the offer, or the connect, is published, unless the stream is gone.
CreatePeerConnection(t) ==
  /\ t \in tasks /\ t.step = "relays"
  /\ pc' = [room |-> t.room, ice |-> "new"]
  /\ tasks' = tasks \ {t}
  /\ UNCHANGED <<storeVars, timerVars, localStream, open, roomVars, historyVars>>

InCall(r) == r \in invited \cup (Rooms \ Outgoing) /\ active # Nothing /\ active.room = r

\* An offer or an answer, given to whatever connection there is.
Describe(r) ==
  /\ InCall(r) /\ pc # Nothing
  /\ pc' = [pc EXCEPT !.ice = IF @ = "new" THEN "checking" ELSE @]
  /\ UNCHANGED <<storeVars, timerVars, localStream, open, roomVars, tasks, historyVars>>

-----------------------------------------------------------------------------
\* The user hangs up, or joins a voice channel: the timers go, and the signal to the
\* partner is signed and published first.
HangUp ==
  /\ active # Nothing
  /\ LET step == IF active.isSfuFallback THEN "publishSfu" ELSE "publish"
     IN  tasks' = tasks \cup {Task("hangup", active.id, step, Nothing, Nothing)}
  /\ ringTimer' = Nothing /\ disconnectGraceTimer' = Nothing
  /\ AstrayIfSettingUp(active.id)
  /\ UNCHANGED <<storeVars, mediaVars, placed, invited, endedBy>>

\* What there is now is released, and the call there is now ended; before that, the
\* LiveKit room there is now is left.
HungUp(t) ==
  /\ t \in tasks /\ t.step \in {"publish", "publishSfu"}
  /\ ReleaseP2P /\ UNCHANGED roomVars
  /\ IF t.step = "publishSfu" /\ currentRoom # Nothing
     THEN Goes(t, "leave", currentRoom) /\ CallStays
     ELSE tasks' = tasks \ {t} /\ EndCall(t.room, "hangup")
  /\ UNCHANGED <<processed, timerVars, placed, invited>>

\* The partner hung up: nothing is published.
RemoteDisconnect(r) ==
  /\ InCall(r)
  /\ ringTimer' = Nothing /\ disconnectGraceTimer' = Nothing
  /\ ReleaseP2P /\ UNCHANGED roomVars
  /\ IF active.isSfuFallback /\ currentRoom # Nothing
     THEN /\ tasks' = tasks \cup {Task("hangup", active.id, "leave", Nothing, currentRoom)}
          /\ AstrayIfSettingUp(active.id)
          /\ UNCHANGED <<active, incoming, endedBy>>
     ELSE UNCHANGED tasks /\ EndCall(r, "hangup")
  /\ UNCHANGED <<processed, placed, invited>>

\* The disconnect of t.old is done, its handler run: the reference goes, whatever it
\* names by now.
Disconnected(t) == joined' = joined \ {t.old} /\ currentRoom' = Nothing

\* The LiveKit room is left.
LeftRoom(t) ==
  /\ t \in tasks /\ t.step = "leave"
  /\ Disconnected(t)
  /\ tasks' = tasks \ {t}
  /\ EndCall(t.room, "hangup")
  /\ UNCHANGED <<processed, timerVars, p2pVars, placed, invited>>

-----------------------------------------------------------------------------
\* ICE connects: whatever call there is is active.
IceConnected ==
  /\ pc # Nothing /\ pc.ice \in {"checking", "disconnected"}
  /\ pc' = [pc EXCEPT !.ice = "connected"]
  /\ disconnectGraceTimer' = Nothing
  /\ active' = IF active = Nothing THEN Nothing ELSE [active EXCEPT !.state = "active"]
  /\ UNCHANGED <<incoming, processed, ringTimer, localStream, open, roomVars,
                 tasks, historyVars>>

IceDisconnected ==
  /\ pc # Nothing /\ pc.ice = "connected"
  /\ pc' = [pc EXCEPT !.ice = "disconnected"]
  /\ disconnectGraceTimer' = IF disconnectGraceTimer = Nothing THEN pc.room ELSE disconnectGraceTimer
  /\ UNCHANGED <<storeVars, ringTimer, localStream, open, roomVars, tasks, historyVars>>

\* handleP2PFailure up to its first await, for room r: the call there is now gives up
\* its own media.
P2PFailure(r) ==
  IF active = Nothing \/ active.isSfuFallback
  THEN UNCHANGED <<localStream, open, tasks, astray>>
  ELSE /\ localStream' = Nothing /\ open' = open \ {localStream}
       /\ SetUpRoom("fallback", r)

IceFailed ==
  /\ pc # Nothing /\ pc.ice \in {"checking", "disconnected"}
  /\ P2PFailure(pc.room)
  /\ pc' = IF active = Nothing \/ active.isSfuFallback THEN [pc EXCEPT !.ice = "failed"] ELSE Nothing
  /\ UNCHANGED <<storeVars, timerVars, roomVars, placed, invited, endedBy>>

GraceTimeout ==
  /\ disconnectGraceTimer # Nothing
  /\ disconnectGraceTimer' = Nothing
  /\ IF (pc # Nothing => pc.ice = "connected")
     THEN UNCHANGED <<localStream, open, pc, tasks, astray>>
     ELSE /\ P2PFailure(disconnectGraceTimer)
          /\ pc' = IF active = Nothing \/ active.isSfuFallback THEN pc ELSE Nothing
  /\ UNCHANGED <<storeVars, ringTimer, roomVars, placed, invited, endedBy>>

\* Listen Together wants the LiveKit room.
UpgradeToSfu ==
  /\ active # Nothing /\ ~active.isSfuFallback /\ active.room # Nothing
  /\ ReleaseP2P
  /\ SetUpRoom("upgrade", active.room)
  /\ UNCHANGED <<storeVars, timerVars, roomVars, placed, invited, endedBy>>

\* The token is fetched: a room there is is left first.
TokenFetched(t) ==
  /\ t \in tasks /\ t.step = "token"
  /\ IF currentRoom = Nothing THEN Goes(t, "connect", Nothing) ELSE Goes(t, "replace", currentRoom)
  /\ UNCHANGED <<storeVars, timerVars, mediaVars, historyVars>>

RoomReplaced(t) ==
  /\ t \in tasks /\ t.step = "replace"
  /\ Disconnected(t)
  /\ Goes(t, "connect", Nothing)
  /\ CallStays
  /\ UNCHANGED <<processed, timerVars, p2pVars, placed, invited>>

\* Mutant of RoomConnected: nobody looks whether the call is still there.
RoomConnected_Unchecked(t) ==
  /\ t \in tasks /\ t.step = "connect"
  /\ joined' = joined \cup {t.conn} /\ currentRoom' = t.conn
  /\ Goes(t, "publish media", Nothing)
  /\ CallStays
  /\ UNCHANGED <<processed, timerVars, p2pVars, placed, invited>>

\* The room is connected, and referred to instead of any other, which stays joined: it
\* is left again if its call is over.
RoomConnected(t) ==
  /\ t \in tasks /\ t.step = "connect"
  /\ joined' = joined \cup {t.conn} /\ currentRoom' = t.conn
  /\ IF active # Nothing /\ active.room = t.room
     THEN Goes(t, "publish media", Nothing)
     ELSE Goes(t, "abandon", t.conn)
  /\ CallStays
  /\ UNCHANGED <<processed, timerVars, p2pVars, placed, invited>>

RoomAbandoned(t) ==
  /\ t \in tasks /\ t.step = "abandon"
  /\ Disconnected(t)
  /\ tasks' = tasks \ {t}
  /\ CallStays
  /\ UNCHANGED <<processed, timerVars, p2pVars, placed, invited>>

\* The microphone is on in the room, and the call there is now is in LiveKit.
MediaPublished(t) ==
  /\ t \in tasks /\ t.step = "publish media"
  /\ tasks' = tasks \ {t}
  /\ active' = IF active = Nothing THEN Nothing
               ELSE [active EXCEPT !.isSfuFallback = TRUE,
                                   !.state = IF t.op = "fallback" THEN "active" ELSE @]
  /\ UNCHANGED <<incoming, processed, timerVars, mediaVars, historyVars>>

\* The error of a set-up is caught: a fallback ends the call if it is still its own.
Caught(t) ==
  IF t.op = "fallback" /\ active # Nothing /\ active.room = t.room
  THEN EndCall(t.room, "failed")
  ELSE /\ UNCHANGED <<active, incoming, endedBy>>
       /\ astray' = astray \cup Forgotten \cup {r \in {t.room} : t.step = "publish media"}

SfuFails(t) ==
  /\ t \in tasks /\ t.step \in {"token", "connect", "publish media"}
  /\ tasks' = tasks \ {t}
  /\ UNCHANGED roomVars
  /\ Caught(t)
  /\ UNCHANGED <<processed, timerVars, p2pVars, placed, invited>>

\* A connect that fails may run the Disconnected handler first.
ConnectFails(t) ==
  /\ t \in tasks /\ t.step = "connect"
  /\ tasks' = tasks \ {t}
  /\ currentRoom' = Nothing /\ UNCHANGED joined
  /\ IF active # Nothing /\ active.isSfuFallback THEN EndCall(t.room, "passing") ELSE Caught(t)
  /\ UNCHANGED <<processed, timerVars, p2pVars, placed, invited>>

\* LiveKit drops a room, referred to or not: the reference goes, and a call in LiveKit
\* ends.
RoomDisconnected(o) ==
  /\ o \in joined
  /\ joined' = joined \ {o} /\ currentRoom' = Nothing /\ UNCHANGED tasks
  /\ IF active # Nothing /\ active.isSfuFallback
     THEN EndCall(o.room, IF BeingLeft(o) THEN "passing" ELSE "failed")
     ELSE CallStays
  /\ UNCHANGED <<processed, timerVars, p2pVars, placed, invited>>

-----------------------------------------------------------------------------
Init ==
  /\ active = Nothing /\ incoming = Nothing /\ processed = {}
  /\ ringTimer = Nothing /\ disconnectGraceTimer = Nothing
  /\ localStream = Nothing /\ open = {} /\ pc = Nothing
  /\ joined = {} /\ currentRoom = Nothing
  /\ tasks = {}
  /\ placed = {} /\ invited = {} /\ astray = {}
  /\ endedBy = [r \in Rooms |-> Nothing]

Next ==
  \/ \E r \in Rooms : InitiateCall(r) \/ Connect(r) \/ Describe(r) \/ RemoteDisconnect(r)
  \/ \E r \in Rooms, fresh \in BOOLEAN :
       ReceiveInvite(r, fresh) \/ ReceiveDecline(r, fresh) \/ ReceiveMissed(r, fresh)
  \/ \E t \in tasks : \/ InviteSent(t) \/ InviteFails(t) \/ AnswerCall(t)
                      \/ GetUserMedia(t) \/ MediaRefused(t) \/ CreatePeerConnection(t)
                      \/ HungUp(t) \/ LeftRoom(t)
                      \/ TokenFetched(t) \/ RoomReplaced(t) \/ RoomConnected(t)
                      \/ RoomAbandoned(t) \/ MediaPublished(t) \/ SfuFails(t) \/ ConnectFails(t)
  \/ RingTimeout \/ DismissInvite \/ AcceptCall \/ HangUp
  \/ IceConnected \/ IceDisconnected \/ IceFailed \/ GraceTimeout
  \/ UpgradeToSfu \/ \E o \in joined : RoomDisconnected(o)

Spec == Init /\ [][Next]_vars

-----------------------------------------------------------------------------
Maybe(S) == S \cup {Nothing}

\* Every reference to a call is to one that was placed, and no invite is shown during
\* a call: the dialog would cover its controls.
TypeOK ==
  /\ active \in Maybe([id : placed, room : Maybe(Rooms), state : {"ringing", "connecting", "active"},
                       isSfuFallback : BOOLEAN])
  /\ incoming \in Maybe(Rooms \ Outgoing)
  /\ incoming # Nothing => active = Nothing
  /\ {ringTimer, localStream, disconnectGraceTimer} \subseteq Maybe(placed)
  /\ joined \subseteq {o \in Conns : o.room \in placed} /\ currentRoom \in Maybe(joined)
  /\ pc \in Maybe([room : placed, ice : {"new", "checking", "connected", "disconnected", "failed"}])
  /\ open \subseteq placed
  /\ \A t \in tasks : t.room \in placed

\* A hang-up, of either side, leaves no camera, microphone, connection or LiveKit room
\* of the call behind, whatever stale timers, signals and functions come after it,
\* other than a room that is being left.  Excepted are the calls astray: those set up
\* during the hang-up, and those with a room that another connect, disconnect or drop
\* made the client forget (callService.ts:466 has "don't leave an orphaned LiveKit
\* room behind": two connects at once do).
HeldByCall ==
  \A r \in Rooms :
    \/ active # Nothing /\ active.id = r
    \/ r \in astray
    \/ /\ localStream # r /\ r \notin open
       /\ \A o \in joined : o.room = r => BeingLeft(o)
       /\ (pc # Nothing => pc.room # r)

\* No timer, signal or failure of one call ends another (#43): only a hang-up that
\* was still publishing or leaving does, a decline of the same partner, or a LiveKit
\* room that drops: one that is connecting or being left, or one of a call astray.
EndedByOwn ==
  \A r \in Rooms : LET e == endedBy[r] IN
    e # Nothing =>
      \/ e.how \in {"hangup", "passing"}
      \/ e.how = "declined" /\ Partner[e.room] = Partner[r]
      \/ e.how = "failed" /\ e.room \in astray
=============================================================================
