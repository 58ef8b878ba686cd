---------------------------- MODULE SessionProofs ----------------------------
(***************************************************************************)
(* Proofs about Session for any accounts, wraps, queue and workers: the      *)
(* types; that saved messages are lost to no switch, restart or failure but  *)
(* that of a login that threw before it loaded them; that an account's       *)
(* history is known before its wraps are asked for; and that the saved       *)
(* session is that of the account in use.                                    *)
(***************************************************************************)
EXTENDS Session, FiniteSetTheorems, TLAPS

USE SessionAssumption

-----------------------------------------------------------------------------
Steps == {"idle", "keystore", "login", "load", "subscribe", "finish", "switch", "clear"}

\* The part of the types that is about accounts.
AccountTypes ==
  /\ me \in Accounts \cup {Nobody} /\ signer \in Accounts \cup {Nobody}
  /\ key \in Accounts \cup {Nobody} /\ subs \in Accounts \cup {Nobody}
  /\ saved \in [Accounts -> (SUBSET Wraps) \cup {Nothing}]
  /\ accounts \subseteq Accounts /\ session \in accounts \cup {Nobody}
  /\ persisting \in BOOLEAN /\ dirty \in BOOLEAN
  /\ threw \in {"none", "load", "subscribe", "finish"}

\* Where a flow stands tells what has been torn down and what is loaded.
FlowShape ==
  /\ flow \in [step : Steps, to : Accounts \cup {Nobody}]
  /\ flow.step = "idle" => flow.to = Nobody
  /\ flow.step \in {"login", "load", "subscribe", "finish"} => flow.to \in Accounts
  /\ flow.step \in {"keystore", "switch"} => flow.to \in accounts
  /\ flow.step \in {"keystore", "login", "load", "clear"} => ~persisting /\ subs = Nobody
  /\ flow.step = "login" => me = Nobody
  /\ flow.step = "switch" => me # Nobody
  /\ flow.step \in {"load", "subscribe", "finish"} => me = flow.to
  /\ flow.step = "load" => key = me
  /\ dirty => persisting
  /\ persisting => me # Nobody
  /\ subs # Nobody => subs = me
  /\ threw = "load" => ~persisting /\ subs = Nobody
  /\ me = Nobody \/ flow.step \in {"load", "subscribe", "finish"} => threw = "none"

\* Once loaded, the store holds at least what is saved under the prefix in use; only a
\* login that threw shows an account that is not loaded.
Loaded == me # Nobody /\ flow.step \notin {"load", "clear"}
            => key = me /\ (threw # "load" => Kept(me) \subseteq dm)

\* The session is the account's in use until the flow that leaves it changes both, if
\* the login that brought it ended.
Matches == me # Nobody /\ flow.step \in {"idle", "keystore", "switch"} /\ me \in accounts /\ threw = "none"
             => session = me

AccountInv == AccountTypes /\ FlowShape /\ Loaded /\ Matches

\* The part of the types that is about wraps.
WrapTypes ==
  /\ dm \subseteq Wraps /\ seen \subseteq Wraps /\ verifying \subseteq seen
  /\ handling \in [Workers -> Handlers \cup {Nothing}]
  /\ queue \in Seq(Wraps) /\ Len(queue) <= QueueCap
  /\ queue # <<>> => Busy = Workers

IInv == AccountInv /\ WrapTypes

\* What only handles wraps: it leaves the accounts alone and at most adds a message.
WrapStep ==
  \/ \E w \in Wraps : Deliver(w) \/ Unverified(w) \/ Submit(w)
  \/ \E k \in Workers : Unseal(k) \/ AddDMMessage(k) \/ DecryptFailed(k)

LEMMA WrapStepLeaves ==
  ASSUME WrapStep
  PROVE  /\ UNCHANGED <<me, signer, key, persisting, subs, flow, threw, dbVars>>
         /\ dm \subseteq dm'
         /\ dirty' = dirty \/ (dirty' \in BOOLEAN /\ (dirty' => dirty \/ persisting))
<1>1. ASSUME NEW k \in Workers, AddDMMessage(k)
      PROVE  /\ UNCHANGED <<me, signer, key, persisting, subs, flow, threw, dbVars>>
             /\ dm \subseteq dm' /\ dirty' \in BOOLEAN /\ (dirty' => dirty \/ persisting)
  BY <1>1, Zenon DEF AddDMMessage, historyVars
<1> QED
  BY <1>1 DEF WrapStep, Deliver, Unverified, Submit, Unseal, DecryptFailed, stateVars, historyVars

-----------------------------------------------------------------------------
\* What a save writes.
LEMMA FlushKept ==
  ASSUME AccountTypes, dm \subseteq Wraps, FlushSave
  PROVE  /\ saved' \in [Accounts -> (SUBSET Wraps) \cup {Nothing}]
         /\ \A a \in Accounts : Kept(a)' = IF a = key THEN dm ELSE Kept(a)
<1>1. dm # Nothing
  OBVIOUS
<1> QED
  BY <1>1 DEF AccountTypes, FlushSave, Kept

LEMMA AccountStep == AccountInv /\ dm \subseteq Wraps /\ [Next]_vars => AccountInv'
<1> SUFFICES ASSUME AccountInv, dm \subseteq Wraps, [Next]_vars PROVE AccountInv'
  OBVIOUS
<1> USE DEF AccountInv, AccountTypes, FlowShape, Steps
<1>1. CASE UNCHANGED vars
  BY <1>1 DEF vars, stateVars, dbVars, historyVars, Loaded, Matches, Kept
<1>2. CASE WrapStep
  <2>1. UNCHANGED <<me, signer, key, persisting, subs, flow, threw, saved, accounts, session>>
    BY <1>2, WrapStepLeaves DEF dbVars
  <2>2. dm \subseteq dm' /\ dirty' \in BOOLEAN /\ (dirty' => persisting)
    BY <1>2, WrapStepLeaves
  <2> QED
    BY <2>1, <2>2 DEF Loaded, Matches, Kept
<1>3. ASSUME NEW a \in Accounts, SwitchAccount(a) PROVE AccountInv'
  <2>1. saved' \in [Accounts -> (SUBSET Wraps) \cup {Nothing}] /\ Kept(me)' \subseteq dm'
    BY <1>3, FlushKept DEF SwitchAccount, InApp, Loaded, Idle
  <2> QED
    BY <1>3, <2>1 DEF historyVars, SwitchAccount, InApp, Idle, Cleanup, Loaded, Matches
<1>4. CASE Switched
  BY <1>4 DEF Switched, ResetAll, Idle, Loaded, Matches, wrapVars
<1>5. CASE SwitchFailed
  BY <1>5 DEF historyVars, SwitchFailed, Idle, dbVars, Loaded, Matches, Kept
<1>6. ASSUME NEW a \in Accounts, AddAccount(a) PROVE AccountInv'
  <2>1. saved' \in [Accounts -> (SUBSET Wraps) \cup {Nothing}]
    BY <1>6, FlushKept DEF AddAccount
  <2> QED
    BY <1>6, <2>1 DEF AddAccount, InApp, Idle, Cleanup, ResetAll, Loaded, Matches
<1>7. ASSUME NEW a \in Accounts, LogIn(a) PROVE AccountInv'
  BY <1>7 DEF historyVars, LogIn, Idle, dbVars, Loaded, Matches
<1>8. CASE SignedIn
  BY <1>8 DEF historyVars, SignedIn, dbVars, Loaded, Matches
<1>9. CASE LoginFailed
  BY <1>9 DEF historyVars, LoginFailed, Idle, dbVars, Loaded, Matches
<1>19. CASE LoginThrows
  BY <1>19 DEF LoginThrows, Idle, dbVars, Loaded, Matches, Kept
<1>10. CASE LoadDMState
  <2>1. Kept(me)' \subseteq dm'
    BY <1>10 DEF LoadDMState, Kept, dbVars
  <2> QED
    BY <1>10, <2>1 DEF historyVars, LoadDMState, dbVars, Loaded, Matches
<1>11. CASE Subscribe
  BY <1>11 DEF historyVars, Subscribe, dbVars, Loaded, Matches, Kept
<1>12. CASE SaveSession
  BY <1>12 DEF historyVars, SaveSession, Idle, Loaded, Matches, Kept
<1>13. ASSUME NEW a \in Accounts, RemoveAccount(a) PROVE AccountInv'
  <2> DEFINE next == CHOOSE b \in accounts \ {a} : TRUE
  <2>1. next \in accounts \ {a}
    BY <1>13 DEF RemoveAccount
  <2>2. saved' \in [Accounts -> (SUBSET Wraps) \cup {Nothing}] /\ Kept(me)' \subseteq Kept(me)
    <3>1. saved' = [saved EXCEPT ![a] = Nothing] /\ me' = me /\ me \in Accounts
      BY <1>13 DEF RemoveAccount, InApp
    <3>2. saved' \in [Accounts -> (SUBSET Wraps) \cup {Nothing}]
      BY <3>1
    <3>3. saved'[me] = Nothing \/ saved'[me] = saved[me]
      BY <3>1
    <3> QED
      BY <3>1, <3>2, <3>3 DEF Kept
  <2>3. /\ accounts' = accounts \ {a} /\ session' = (IF session = a THEN next ELSE session)
        /\ flow' = (IF me = a THEN [step |-> "switch", to |-> next] ELSE flow)
        /\ UNCHANGED <<me, signer, key, dm, persisting, dirty, subs, threw>>
        /\ me # Nobody /\ flow = Idle
    BY <1>13 DEF RemoveAccount, InApp
  <2> HIDE DEF next
  <2>4. AccountTypes' /\ Loaded'
    BY <2>1, <2>2, <2>3 DEF Loaded, Idle
  <2>5. FlowShape' /\ Matches'
    BY <2>1, <2>3 DEF Matches, Idle
  <2> QED
    BY <2>4, <2>5
<1>14. CASE SwitchAway
  <2>1. saved' \in [Accounts -> (SUBSET Wraps) \cup {Nothing}] /\ (me # Nobody => Kept(me)' \subseteq dm')
    BY <1>14, FlushKept DEF SwitchAway, Loaded
  <2> QED
    BY <1>14, <2>1 DEF historyVars, SwitchAway, Cleanup, Loaded, Matches
<1>15. CASE LogOut
  BY <1>15 DEF historyVars, LogOut, InApp, Cleanup, dbVars, Loaded, Matches
<1>16. CASE Cleared
  <2>1. saved' = [a \in Accounts |-> Nothing] /\ accounts' = {} /\ session' = Nobody
        /\ me' = Nobody /\ threw' = "none" /\ flow' = Idle /\ UNCHANGED <<signer, key, persisting, dirty, subs>>
        /\ flow.step = "clear"
    BY <1>16 DEF Cleared, ResetAll
  <2> QED
    <3>1. saved' \in [Accounts -> (SUBSET Wraps) \cup {Nothing}]
      BY <2>1
    <3>2. AccountTypes'
      BY <2>1, <3>1
    <3>3. FlowShape'
      BY <2>1 DEF Idle
    <3> QED
      BY <2>1, <3>2, <3>3 DEF Loaded, Matches
<1>17. CASE SaveDMState
  <2>1. saved' \in [Accounts -> (SUBSET Wraps) \cup {Nothing}] /\ Kept(me)' \subseteq dm'
    BY <1>17, FlushKept DEF historyVars, SaveDMState, Loaded
  <2> QED
    BY <1>17, <2>1 DEF historyVars, SaveDMState, Loaded, Matches
<1>18. ASSUME NEW closed \in BOOLEAN, Restart(closed) PROVE AccountInv'
  <2>1. saved' \in [Accounts -> (SUBSET Wraps) \cup {Nothing}]
    BY <1>18, FlushKept DEF Restart
  <2> QED
    BY <1>18, <2>1 DEF Restart, Idle, Loaded, Matches
<1> QED
  BY <1>1, <1>2, <1>3, <1>4, <1>5, <1>6, <1>7, <1>8, <1>9, <1>10, <1>11, <1>12, <1>13, <1>14,
     <1>15, <1>16, <1>17, <1>18, <1>19
  DEF Next, Flow, User, WrapStep

-----------------------------------------------------------------------------
\* A worker takes a wrap only to replace what it has done or nothing.
LEMMA StartsType ==
  ASSUME WrapTypes, me \in Accounts \cup {Nobody}, NEW w \in Wraps, NEW k \in Workers, Starts(k, w)
  PROVE  handling' \in [Workers -> Handlers \cup {Nothing}] /\ Busy' = Busy \cup {k}
<1>1. Handler(w) \in Handlers /\ Handler(w) # Nothing
  BY DEF Handler, Handlers
<1> QED
  BY <1>1 DEF WrapTypes, Starts, Busy

LEMMA EndsType ==
  ASSUME WrapTypes, me \in Accounts \cup {Nobody}, NEW k \in Busy, Ends(k)
  PROVE  /\ handling' \in [Workers -> Handlers \cup {Nothing}]
         /\ queue' \in Seq(Wraps) /\ Len(queue') <= QueueCap /\ (queue' # <<>> => Busy' = Workers)
<1>1. k \in Workers
  BY DEF Busy
<1>2. CASE queue = <<>>
  BY <1>1, <1>2 DEF Ends, WrapTypes
<1>3. CASE queue # <<>>
  <2>1. Head(queue) \in Wraps /\ Tail(queue) \in Seq(Wraps) /\ Len(Tail(queue)) <= QueueCap
    BY <1>3 DEF WrapTypes
  <2>2. Starts(k, Head(queue)) /\ queue' = Tail(queue)
    BY <1>3 DEF Ends
  <2>3. handling' \in [Workers -> Handlers \cup {Nothing}] /\ Busy' = Busy \cup {k}
    BY <1>1, <2>1, <2>2, StartsType
  <2>4. Busy = Workers
    BY <1>3 DEF WrapTypes
  <2> QED
    BY <2>1, <2>2, <2>3, <2>4
<1> QED
  BY <1>2, <1>3

LEMMA WrapTypesStep == AccountInv /\ WrapTypes /\ [Next]_vars => WrapTypes'
<1> SUFFICES ASSUME AccountInv, WrapTypes, [Next]_vars PROVE WrapTypes'
  OBVIOUS
<1>me. me \in Accounts \cup {Nobody}
  BY DEF AccountInv, AccountTypes
<1>1. ASSUME UNCHANGED <<queue, handling>>, dm' \subseteq Wraps, seen' \subseteq Wraps,
             verifying' \subseteq seen'
      PROVE  WrapTypes'
  BY <1>1 DEF WrapTypes, Busy
<1>2. ASSUME Cleanup, dm' \subseteq Wraps PROVE WrapTypes'
  BY <1>2 DEF Cleanup, WrapTypes
<1>3. CASE User
  BY <1>1, <1>2, <1>3 DEF User, SwitchAccount, AddAccount, LogIn, RemoveAccount, LogOut, ResetAll,
     WrapTypes, wrapVars
<1>4. CASE LoadDMState
  <2>1. dm' \subseteq Wraps
    <3>1. key \in Accounts /\ saved \in [Accounts -> (SUBSET Wraps) \cup {Nothing}]
      BY <1>4 DEF LoadDMState, AccountInv, AccountTypes, FlowShape
    <3>2. saved[key] \in (SUBSET Wraps) \cup {Nothing}
      BY <3>1
    <3> QED
      BY <1>4, <3>2 DEF LoadDMState, WrapTypes
  <2> QED
    BY <1>1, <1>4, <2>1 DEF LoadDMState, wrapVars, WrapTypes
<1>5. CASE SwitchAway
  BY <1>2, <1>5 DEF SwitchAway, WrapTypes
<1>6. CASE Flow
  BY <1>1, <1>4, <1>5, <1>6 DEF Flow, Switched, SwitchFailed, SignedIn, LoginFailed, LoginThrows, Subscribe,
     SaveSession, Cleared, ResetAll, wrapVars, WrapTypes
<1>7. CASE SaveDMState
  BY <1>1, <1>7 DEF SaveDMState, wrapVars, WrapTypes
<1>8. ASSUME NEW closed \in BOOLEAN, Restart(closed) PROVE WrapTypes'
  BY <1>8 DEF Restart, WrapTypes
<1>9. ASSUME NEW w \in Wraps, Deliver(w) \/ Unverified(w) PROVE WrapTypes'
  BY <1>1, <1>9 DEF Deliver, Unverified, stateVars, WrapTypes
<1>10. ASSUME NEW w \in Wraps, Submit(w) PROVE WrapTypes'
  <2>1. /\ dm' \subseteq Wraps /\ seen' \subseteq Wraps /\ verifying' \subseteq seen'
    BY <1>10 DEF Submit, stateVars, WrapTypes
  <2>2. ASSUME NEW k \in Workers \ Busy, Starts(k, w), UNCHANGED queue PROVE WrapTypes'
    BY <1>me, <2>1, <2>2, StartsType DEF WrapTypes
  <2>3. ASSUME Busy = Workers, Len(queue) < QueueCap, queue' = Append(queue, w), UNCHANGED handling
        PROVE  WrapTypes'
    BY <2>1, <2>3 DEF WrapTypes, Busy
  <2> QED
    BY <1>1, <1>10, <2>1, <2>2, <2>3 DEF Submit
<1>11. ASSUME NEW k \in Workers, Unseal(k) PROVE WrapTypes'
  <2>1. handling[k] \in Handlers /\ handling[k] # Nothing
    BY <1>11 DEF Unseal, Busy, WrapTypes
  <2>2. [handling[k] EXCEPT !.last = TRUE] \in Handlers
    BY <2>1 DEF Handlers
  <2>3. handling' = [handling EXCEPT ![k] = [handling[k] EXCEPT !.last = TRUE]]
    BY <1>11 DEF Unseal
  <2>4. [handling[k] EXCEPT !.last = TRUE] # Nothing
    BY <2>2 DEF Handlers
  <2>5. handling' \in [Workers -> Handlers \cup {Nothing}] /\ Busy' = Busy
    BY <2>1, <2>2, <2>3, <2>4 DEF Busy, WrapTypes
  <2> QED
    BY <1>11, <2>5 DEF Unseal, stateVars, WrapTypes
<1>12. ASSUME NEW k \in Workers, AddDMMessage(k) \/ DecryptFailed(k) PROVE WrapTypes'
  <2>1. k \in Busy /\ Ends(k) /\ UNCHANGED <<seen, verifying>>
    BY <1>12 DEF AddDMMessage, DecryptFailed
  <2>2. handling[k].wrap \in Wraps
    BY <2>1 DEF Busy, WrapTypes, Handlers
  <2>3. dm' \subseteq Wraps
    BY <1>12, <2>2 DEF AddDMMessage, DecryptFailed, stateVars, WrapTypes
  <2> QED
    BY <1>me, <2>1, <2>3, EndsType DEF WrapTypes
<1>13. CASE UNCHANGED vars
  BY <1>1, <1>13 DEF vars, stateVars, wrapVars, WrapTypes
<1> QED
  BY <1>3, <1>6, <1>7, <1>8, <1>9, <1>10, <1>11, <1>12, <1>13 DEF Next

-----------------------------------------------------------------------------
LEMMA InitInv == Init => IInv
<1> SUFFICES ASSUME Init PROVE IInv
  OBVIOUS
<1>1. AccountTypes /\ FlowShape
  BY DEF Init, AccountTypes, FlowShape, Steps, Idle
<1>2. WrapTypes
  BY DEF Init, WrapTypes
<1>3. Loaded /\ Matches
  BY DEF Init, Loaded, Matches
<1> QED
  BY <1>1, <1>2, <1>3 DEF IInv, AccountInv

LEMMA InvStep == IInv /\ [Next]_vars => IInv'
BY AccountStep, WrapTypesStep DEF IInv, WrapTypes

LEMMA Inductive == Spec => []IInv
BY InitInv, InvStep, PTL DEF Spec

\* The identity, the prefix, the subscriptions, the saved accounts, the decrypt queue and
\* its workers keep their types; a wrap waits only while every worker is taken; changes
\* are saved only under the prefix of the account in use.
THEOREM TypeInvariant == Spec => []TypeOK
<1>1. IInv => TypeOK
  BY DEF IInv, AccountInv, AccountTypes, FlowShape, Steps, Loaded, WrapTypes, TypeOK
<1> QED
  BY <1>1, Inductive, PTL

\* When an account's wraps are asked for, all that was saved of its messages is in
\* the store (performLogin, steps 7f and 7g).
THEOREM KnownBeforeAskedInvariant == Spec => []KnownBeforeAsked
<1>1. IInv => KnownBeforeAsked
  BY DEF IInv, AccountInv, AccountTypes, FlowShape, Steps, Loaded, KnownBeforeAsked
<1> QED
  BY <1>1, Inductive, PTL

\* In the app, the session that a restart restores is the account's in use
\* (performLogin step 8, performSwitchAccount, removeAccount).
THEOREM SessionMatchesInvariant == Spec => []SessionMatches
<1>1. IInv => SessionMatches
  BY DEF IInv, AccountInv, Matches, SessionMatches, InApp, Idle
<1> QED
  BY <1>1, Inductive, PTL

\* No step takes a saved message from an account that stays, but the leaving of one whose
\* login threw before its messages were loaded: a flush writes the store under the prefix
\* it was loaded with, or was to be loaded with (flushPendingSave).
THEOREM HistoryKeptProperty == Spec => HistoryKept
<1> DEFINE Stays(a) == Kept(a) \subseteq Kept(a)' \/ (a = me /\ threw = "load")
<1>1. IInv /\ [Next]_vars => (\A a \in accounts' : Stays(a)) \/ UNCHANGED vars
  <2> SUFFICES ASSUME IInv, Next, NEW a \in accounts' PROVE Stays(a)
    BY Zenon
  <2>1. a \in Accounts
    BY InvStep DEF IInv, AccountInv, AccountTypes
  <2>2. AccountTypes /\ dm \subseteq Wraps
    BY DEF IInv, AccountInv, WrapTypes
  <2>3. ASSUME UNCHANGED saved PROVE Stays(a)
    BY <2>3 DEF Kept
  <2>4. ASSUME FlushSave, me # Nobody, flow.step \notin {"load", "clear"} PROVE Stays(a)
    BY <2>1, <2>2, <2>4, FlushKept DEF IInv, AccountInv, Loaded
  <2>5. ASSUME persisting PROVE me # Nobody /\ flow.step \notin {"load", "clear"}
    BY <2>5 DEF IInv, AccountInv, FlowShape
  <2>6. CASE WrapStep
    BY <2>3, <2>6, WrapStepLeaves DEF dbVars
  <2>7. CASE SaveDMState
    BY <2>4, <2>5, <2>7 DEF SaveDMState, IInv, AccountInv, FlowShape
  <2>8. ASSUME NEW closed \in BOOLEAN, Restart(closed) PROVE Stays(a)
    BY <2>3, <2>4, <2>5, <2>8 DEF Restart
  <2>9. CASE User
    <3>1. ASSUME NEW b \in Accounts, RemoveAccount(b) PROVE Stays(a)
      <4>1. a # b /\ saved' = [saved EXCEPT ![b] = Nothing]
        BY <3>1 DEF RemoveAccount
      <4> QED
        BY <2>1, <2>2, <4>1 DEF Kept, AccountTypes
    <3> QED
      BY <2>3, <2>4, <2>9, <3>1 DEF User, SwitchAccount, AddAccount, LogIn, LogOut, InApp, Idle, dbVars
  <2>10. CASE SwitchAway
    <3>1. CASE me = Nobody
      BY <2>10, <3>1 DEF SwitchAway, IInv, AccountInv, FlowShape
    <3> QED
      BY <2>4, <2>10, <3>1 DEF SwitchAway
  <2>11. CASE Flow
    BY <2>3, <2>10, <2>11 DEF Flow, Switched, SwitchFailed, SignedIn, LoginFailed, LoginThrows, LoadDMState,
       Subscribe, SaveSession, Cleared, dbVars
  <2> QED
    BY <2>6, <2>7, <2>8, <2>9, <2>11 DEF Next, WrapStep
<1> QED
  BY <1>1, Inductive, PTL DEF Spec, HistoryKept

-----------------------------------------------------------------------------
\* Where a wrap is, and whose it is

\* What is delivered or waits is addressed to the account subscribed.
Addressed == /\ \A w \in seen : To[w] = subs
             /\ \A i \in DOMAIN queue : To[queue[i]] = subs

\* A handler runs under the account its wrap is addressed to; one whose last decryption
\* is under way ends under that account, or is late.
HandlersOwn ==
  \A k \in Busy : /\ To[handling[k].wrap] = handling[k].by
                  /\ handling[k].last => To[handling[k].wrap] = me \/ handling[k].wrap \in late

SignerOwn == me # Nobody => signer \in {me, Nobody}

\* What the store holds, and what is saved, is its account's or late.
StoreOwn == \A w \in dm : To[w] = me \/ w \in late
SavedOwn == \A a \in Accounts : \A w \in Kept(a) : To[w] = a \/ w \in late

OwnInv == Addressed /\ HandlersOwn /\ SignerOwn /\ StoreOwn /\ SavedOwn

\* What the end of a handler moves: the first of the queue, to its worker.
LEMMA EndsMoves ==
  ASSUME WrapTypes, me \in Accounts \cup {Nobody}, NEW k \in Busy, Ends(k)
  PROVE  /\ \A j \in Busy' : \/ j \in Busy /\ handling'[j] = handling[j]
                             \/ \E i \in DOMAIN queue : handling'[j] = Handler(queue[i])
         /\ \A i \in DOMAIN queue' : \E h \in DOMAIN queue : queue'[i] = queue[h]
         /\ \A j \in Busy : j = k \/ (j \in Busy' /\ handling'[j] = handling[j])
         /\ \A i \in DOMAIN queue : \/ \E h \in DOMAIN queue' : queue'[h] = queue[i]
                                    \/ k \in Busy' /\ handling'[k].wrap = queue[i]
<1>1. k \in Workers /\ handling \in [Workers -> Handlers \cup {Nothing}]
  BY DEF Busy, WrapTypes
<1>2. CASE queue = <<>>
  <2>1. handling' = [handling EXCEPT ![k] = Nothing] /\ queue' = queue
    BY <1>2 DEF Ends
  <2> QED
    BY <1>1, <1>2, <2>1 DEF Busy
<1>3. CASE queue # <<>>
  <2>1. /\ queue \in Seq(Wraps) /\ queue' = Tail(queue)
        /\ handling' = [handling EXCEPT ![k] = Handler(queue[1])]
    BY <1>3 DEF Ends, Starts, WrapTypes
  <2>2. /\ Len(queue) \in Nat \ {0} /\ DOMAIN queue = 1 .. Len(queue)
        /\ DOMAIN queue' = 1 .. Len(queue) - 1
        /\ \A i \in 1 .. Len(queue) - 1 : queue'[i] = queue[i + 1]
    BY <1>3, <2>1
  <2>3. Handler(queue[1]) # Nothing /\ Handler(queue[1]).wrap = queue[1]
    <3>1. queue[1] \in Wraps
      BY <2>1, <2>2
    <3> QED
      BY <3>1 DEF Handler, Handlers
  <2>4. Busy' = Busy /\ handling'[k] = Handler(queue[1]) /\ \A j \in Busy : j # k => handling'[j] = handling[j]
    BY <1>1, <2>1, <2>3 DEF Busy
  <2>5. \A i \in DOMAIN queue' : \E h \in DOMAIN queue : queue'[i] = queue[h]
    BY <2>2
  <2>6. \A i \in DOMAIN queue : i = 1 \/ \E h \in DOMAIN queue' : queue'[h] = queue[i]
    <3> SUFFICES ASSUME NEW i \in DOMAIN queue, i # 1 PROVE \E h \in DOMAIN queue' : queue'[h] = queue[i]
      OBVIOUS
    <3>1. i - 1 \in DOMAIN queue' /\ queue'[i - 1] = queue[i]
      BY <2>2
    <3> QED
      BY <3>1
  <2> QED
    BY <2>2, <2>3, <2>4, <2>5, <2>6
<1> QED
  BY <1>2, <1>3

\* What a start adds.
LEMMA StartsAdds ==
  ASSUME WrapTypes, me \in Accounts \cup {Nobody}, NEW w \in Wraps, NEW k \in Workers, Starts(k, w)
  PROVE  /\ Busy' = Busy \cup {k} /\ handling'[k] = Handler(w) /\ Handler(w).wrap = w
         /\ \A j \in Busy : j # k => handling'[j] = handling[j]
<1>1. Handler(w) # Nothing
  BY DEF Handler, Handlers
<1> QED
  BY <1>1 DEF WrapTypes, Starts, Busy, Handler

LEMMA LateGrows == [Next]_vars => late \subseteq late'
BY DEF Next, Flow, User, Switched, SwitchFailed, SignedIn, LoginFailed, LoginThrows, LoadDMState, Subscribe,
   SaveSession, SwitchAway, Cleared, SwitchAccount, AddAccount, LogIn, RemoveAccount, LogOut, SaveDMState,
   Restart, Deliver, Unverified, Submit, Unseal, AddDMMessage, DecryptFailed, ResetAll, historyVars, vars

LEMMA AddressedStep == IInv /\ Addressed /\ [Next]_vars => Addressed'
<1> SUFFICES ASSUME IInv, Addressed, [Next]_vars PROVE Addressed'
  OBVIOUS
<1>types. WrapTypes /\ me \in Accounts \cup {Nobody} /\ (subs # Nobody => subs = me) /\ subs \in Accounts \cup {Nobody}
  BY DEF IInv, AccountInv, AccountTypes, FlowShape
<1>1. ASSUME UNCHANGED <<seen, queue, subs>> PROVE Addressed'
  BY <1>1 DEF Addressed
<1>2. ASSUME seen' = {}, queue' = <<>> PROVE Addressed'
  BY <1>2 DEF Addressed
<1>3. CASE Subscribe
  <2>1. subs' = me /\ UNCHANGED <<seen, queue>>
    BY <1>3 DEF Subscribe, wrapVars, IInv, AccountInv, FlowShape
  <2>2. subs = Nobody => seen = {} /\ DOMAIN queue = {}
    <3>1. \A i \in DOMAIN queue : queue[i] \in Wraps
      BY <1>types DEF WrapTypes
    <3> QED
      BY <1>types, <3>1 DEF Addressed, WrapTypes
  <2> QED
    BY <1>types, <2>1, <2>2 DEF Addressed
<1>4. ASSUME NEW w \in Wraps, Deliver(w) \/ Unverified(w) PROVE Addressed'
  BY <1>4 DEF Deliver, Unverified, Addressed, stateVars
<1>5. ASSUME NEW w \in Wraps, Submit(w) PROVE Addressed'
  <2>1. seen' \subseteq seen /\ subs' = subs /\ To[w] = subs
    BY <1>5, <1>types DEF Submit, stateVars, Addressed, WrapTypes
  <2>2. queue' = queue \/ queue' = Append(queue, w)
    BY <1>5 DEF Submit
  <2>3. CASE queue' = queue
    BY <2>1, <2>3 DEF Addressed
  <2>4. CASE queue' = Append(queue, w)
    BY <1>types, <2>1, <2>4 DEF Addressed, WrapTypes
  <2> QED
    BY <2>2, <2>3, <2>4
<1>6. ASSUME NEW k \in Workers, Unseal(k) PROVE Addressed'
  BY <1>1, <1>6 DEF Unseal, stateVars
<1>7. ASSUME NEW k \in Workers, AddDMMessage(k) \/ DecryptFailed(k) PROVE Addressed'
  <2>1. k \in Busy /\ Ends(k) /\ UNCHANGED <<seen, subs>>
    BY <1>7 DEF AddDMMessage, DecryptFailed, stateVars
  <2> QED
    BY <1>types, <2>1, EndsMoves DEF Addressed
<1> QED
  BY <1>1, <1>2, <1>3, <1>4, <1>5, <1>6, <1>7 DEF Next, Flow, User, Switched, SwitchFailed, SignedIn,
     LoginFailed, LoginThrows, LoadDMState, SaveSession, SwitchAway, Cleared, SwitchAccount, AddAccount, LogIn,
     RemoveAccount, LogOut, SaveDMState, Restart, Cleanup, wrapVars, stateVars, vars

LEMMA SignerStep == IInv /\ SignerOwn /\ [Next]_vars => SignerOwn'
<1> SUFFICES ASSUME IInv, SignerOwn, [Next]_vars PROVE SignerOwn'
  OBVIOUS
<1>1. ASSUME UNCHANGED me, signer' \in {signer, Nobody} PROVE SignerOwn'
  BY <1>1 DEF SignerOwn
<1>2. ASSUME me' = Nobody PROVE SignerOwn'
  BY <1>2 DEF SignerOwn
<1>3. CASE SignedIn
  BY <1>3 DEF SignedIn, SignerOwn
<1> QED
  BY <1>1, <1>2, <1>3 DEF Next, Flow, User, Switched, SwitchFailed, LoginFailed, LoginThrows, LoadDMState, Subscribe,
     SaveSession, SwitchAway, Cleared, SwitchAccount, AddAccount, LogIn, RemoveAccount, LogOut, SaveDMState,
     Restart, Deliver, Unverified, Submit, Unseal, AddDMMessage, DecryptFailed, Cleanup, ResetAll,
     stateVars, vars

\* Whose the identity becomes, and when.
LEMMA MeMoves ==
  ASSUME IInv, [Next]_vars
  PROVE  \/ me' = me
         \/ me' = Nobody /\ UNCHANGED handling
            /\ \A k \in Busy : handling[k].last => handling[k].wrap \in late'
         \/ me = Nobody /\ UNCHANGED <<handling, dm, late, saved>>
         \/ me' = Nobody /\ Busy' = {}
<1>1. ASSUME ResetAll, UNCHANGED handling
      PROVE  /\ me' = Nobody /\ UNCHANGED handling
             /\ \A k \in Busy : handling[k].last => handling[k].wrap \in late'
  BY <1>1 DEF ResetAll
<1>2. CASE Switched \/ Cleared \/ \E a \in Accounts : AddAccount(a)
  BY <1>1, <1>2 DEF Switched, Cleared, AddAccount, Cleanup, wrapVars
<1>3. CASE SignedIn
  BY <1>3 DEF SignedIn, IInv, AccountInv, FlowShape, wrapVars, historyVars, dbVars
<1>4. ASSUME NEW closed \in BOOLEAN, Restart(closed) PROVE me' = Nobody /\ Busy' = {}
  BY <1>4 DEF Restart, Busy
<1> QED
  BY <1>2, <1>3, <1>4 DEF Next, Flow, User, SwitchFailed, LoginFailed, LoginThrows, LoadDMState, Subscribe,
     SaveSession, SwitchAway, SwitchAccount, LogIn, RemoveAccount, LogOut, SaveDMState,
     Deliver, Unverified, Submit, Unseal, AddDMMessage, DecryptFailed, stateVars, vars

LEMMA HandlersStep == IInv /\ Addressed /\ HandlersOwn /\ SignerOwn /\ [Next]_vars => HandlersOwn'
<1> SUFFICES ASSUME IInv, Addressed, HandlersOwn, SignerOwn, [Next]_vars PROVE HandlersOwn'
  OBVIOUS
<1>types. /\ WrapTypes /\ me \in Accounts \cup {Nobody} /\ subs \in Accounts \cup {Nobody}
          /\ subs # Nobody => subs = me
  BY DEF IInv, AccountInv, AccountTypes, FlowShape
<1>late. late \subseteq late'
  BY LateGrows
<1>1. CASE UNCHANGED handling
  <2>1. Busy' = Busy
    BY <1>1 DEF Busy
  <2>2. \A k \in Busy : To[handling[k].wrap] \in Accounts
    BY <1>types DEF WrapTypes, Busy, Handlers
  <2> QED
    BY <1>1, <1>late, <2>1, <2>2, MeMoves DEF HandlersOwn
<1>2. ASSUME NEW closed \in BOOLEAN, Restart(closed) PROVE HandlersOwn'
  BY <1>2 DEF Restart, HandlersOwn, Busy
<1>own. ASSUME NEW w \in Wraps, To[w] = subs
        PROVE  Handler(w).wrap = w /\ Handler(w).by = To[w] /\ ~Handler(w).last
  BY <1>types, <1>own DEF Handler
<1>3. ASSUME NEW w \in Wraps, Submit(w) PROVE HandlersOwn'
  <2>1. To[w] = subs /\ UNCHANGED <<me, late>>
    BY <1>3, <1>types DEF Submit, Addressed, WrapTypes, stateVars, historyVars
  <2>2. ASSUME NEW k \in Workers \ Busy, Starts(k, w) PROVE HandlersOwn'
    <3>1. /\ Busy' = Busy \cup {k} /\ handling'[k] = Handler(w)
          /\ \A j \in Busy : j # k => handling'[j] = handling[j]
      BY <1>types, <2>2, StartsAdds
    <3> QED
      BY <1>own, <2>1, <3>1 DEF HandlersOwn
  <2> QED
    BY <1>1, <1>3, <2>2 DEF Submit
<1>4. ASSUME NEW k \in Workers, Unseal(k) PROVE HandlersOwn'
  <2>1. /\ k \in Busy /\ signer = handling[k].by /\ me # Nobody /\ UNCHANGED <<me, late>>
        /\ handling' = [handling EXCEPT ![k] = [handling[k] EXCEPT !.last = TRUE]]
    BY <1>4 DEF Unseal, MayDecrypt, stateVars, historyVars
  <2>2. handling[k] \in Handlers /\ To[handling[k].wrap] = me
    <3>1. handling[k] \in Handlers
      BY <2>1, <1>types DEF WrapTypes, Busy
    <3>2. To[handling[k].wrap] \in Accounts /\ To[handling[k].wrap] = signer
      BY <2>1, <3>1 DEF HandlersOwn, Handlers
    <3> QED
      BY <2>1, <3>1, <3>2 DEF SignerOwn
  <2>3. /\ \A j \in Busy' : j \in Busy \/ j = k
        /\ \A j \in Busy : j # k => handling'[j] = handling[j]
        /\ handling'[k] = [handling[k] EXCEPT !.last = TRUE]
    BY <1>types, <2>1 DEF Busy, WrapTypes
  <2>4. handling'[k].wrap = handling[k].wrap /\ handling'[k].by = handling[k].by
    BY <2>2, <2>3 DEF Handlers
  <2> QED
    BY <2>1, <2>2, <2>3, <2>4 DEF HandlersOwn
<1>5. ASSUME NEW k \in Workers, AddDMMessage(k) \/ DecryptFailed(k) PROVE HandlersOwn'
  <2>1. k \in Busy /\ Ends(k) /\ UNCHANGED <<me, late>>
    BY <1>5 DEF AddDMMessage, DecryptFailed, stateVars, historyVars
  <2>2. \A j \in Busy' : \/ j \in Busy /\ handling'[j] = handling[j]
                         \/ \E i \in DOMAIN queue : handling'[j] = Handler(queue[i])
    BY <1>types, <2>1, EndsMoves
  <2>3. \A i \in DOMAIN queue : queue[i] \in Wraps /\ To[queue[i]] = subs
    BY <1>types DEF WrapTypes, Addressed
  <2> QED
    BY <1>own, <2>1, <2>2, <2>3 DEF HandlersOwn
<1> QED
  BY <1>1, <1>2, <1>3, <1>4, <1>5 DEF Next, Flow, User, Switched, SwitchFailed, SignedIn,
     LoginFailed, LoginThrows, LoadDMState, Subscribe, SaveSession, SwitchAway, Cleared, SwitchAccount, AddAccount,
     LogIn, RemoveAccount, LogOut, SaveDMState, Deliver, Unverified, Cleanup, wrapVars, vars

\* A save writes what is its account's or late, since it writes the store of the account
\* in use under its prefix.
LEMMA SavedStep == IInv /\ OwnInv /\ [Next]_vars => SavedOwn'
<1> SUFFICES ASSUME IInv, OwnInv, [Next]_vars PROVE SavedOwn'
  OBVIOUS
<1>late. late \subseteq late'
  BY LateGrows
<1>1. CASE UNCHANGED saved
  BY <1>1, <1>late DEF OwnInv, SavedOwn, Kept
<1>2. ASSUME FlushSave, me # Nobody, flow.step \notin {"load", "clear"} PROVE SavedOwn'
  <2>1. AccountTypes /\ dm \subseteq Wraps /\ key = me
    BY <1>2 DEF IInv, AccountInv, WrapTypes, Loaded
  <2>2. \A a \in Accounts : Kept(a)' = IF a = key THEN dm ELSE Kept(a)
    BY <1>2, <2>1, FlushKept
  <2> QED
    BY <1>late, <2>1, <2>2 DEF OwnInv, SavedOwn, StoreOwn
<1>3. ASSUME persisting PROVE me # Nobody /\ flow.step \notin {"load", "clear"}
  BY <1>3 DEF IInv, AccountInv, FlowShape
<1>4. CASE SaveDMState
  BY <1>2, <1>3, <1>4 DEF SaveDMState, IInv, AccountInv, FlowShape
<1>5. ASSUME NEW closed \in BOOLEAN, Restart(closed) PROVE SavedOwn'
  BY <1>1, <1>2, <1>3, <1>5 DEF Restart
<1>6. ASSUME NEW b \in Accounts, RemoveAccount(b) PROVE SavedOwn'
  <2>1. \A a \in Accounts : Kept(a)' \subseteq Kept(a)
    BY <1>6 DEF RemoveAccount, Kept, IInv, AccountInv, AccountTypes
  <2> QED
    BY <1>late, <2>1 DEF OwnInv, SavedOwn
<1>7. CASE SwitchAway
  BY <1>2, <1>7 DEF SwitchAway, IInv, AccountInv, FlowShape
<1>8. CASE Cleared
  <2>1. \A a \in Accounts : Kept(a)' = {}
    BY <1>8 DEF Cleared, Kept
  <2> QED
    BY <2>1 DEF SavedOwn
<1> QED
  BY <1>1, <1>2, <1>4, <1>5, <1>6, <1>7, <1>8 DEF Next, Flow, User, Switched, SwitchFailed, SignedIn,
     LoginFailed, LoginThrows, LoadDMState, Subscribe, SaveSession, SwitchAccount, AddAccount, LogIn, LogOut,
     InApp, Idle, Deliver, Unverified, Submit, Unseal, AddDMMessage, DecryptFailed, dbVars, vars

LEMMA StoreStep == IInv /\ OwnInv /\ [Next]_vars => StoreOwn'
<1> SUFFICES ASSUME IInv, OwnInv, [Next]_vars PROVE StoreOwn'
  OBVIOUS
<1>late. late \subseteq late'
  BY LateGrows
<1>types. WrapTypes
  BY DEF IInv
<1>1. CASE UNCHANGED <<dm, me>>
  BY <1>1, <1>late DEF OwnInv, StoreOwn
<1>2. CASE dm' = {}
  BY <1>2 DEF StoreOwn
<1>3. CASE SignedIn
  <2>1. me = Nobody /\ UNCHANGED dm
    BY <1>3 DEF SignedIn, IInv, AccountInv, FlowShape
  <2> QED
    BY <1>late, <1>types, <2>1 DEF OwnInv, StoreOwn, WrapTypes
<1>4. CASE LoadDMState
  <2>1. dm' = dm \/ dm' = Kept(me)
    BY <1>4 DEF LoadDMState, Kept, IInv, AccountInv, FlowShape
  <2>2. me \in Accounts /\ me' = me
    BY <1>4 DEF LoadDMState, IInv, AccountInv, FlowShape
  <2> QED
    BY <1>late, <2>1, <2>2 DEF OwnInv, StoreOwn, SavedOwn
<1>5. ASSUME NEW k \in Workers, AddDMMessage(k) PROVE StoreOwn'
  <2>1. k \in Busy /\ handling[k].last /\ dm' = dm \cup {handling[k].wrap} /\ me' = me
    BY <1>5 DEF AddDMMessage
  <2> QED
    BY <1>late, <2>1 DEF OwnInv, StoreOwn, HandlersOwn
<1> QED
  BY <1>1, <1>2, <1>3, <1>4, <1>5 DEF Next, Flow, User, Switched, SwitchFailed,
     LoginFailed, LoginThrows, Subscribe, SaveSession, SwitchAway, Cleared, SwitchAccount, AddAccount,
     LogIn, RemoveAccount, LogOut, SaveDMState, Restart, Deliver, Unverified, Submit, Unseal,
     DecryptFailed, ResetAll, stateVars, vars

LEMMA OwnInvariant == Spec => [](IInv /\ OwnInv)
<1>1. Init => OwnInv
  BY DEF Init, OwnInv, Addressed, HandlersOwn, SignerOwn, StoreOwn, SavedOwn, Kept, Busy
<1>2. IInv /\ OwnInv /\ [Next]_vars => OwnInv'
  BY AddressedStep, HandlersStep, SignerStep, StoreStep, SavedStep DEF OwnInv
<1> QED
  BY <1>1, <1>2, InitInv, InvStep, PTL DEF Spec

\* The messages of an account, in the store or saved, are its own, but for those whose
\* last decryption was under way when the account changed (handleGiftWrapEvent's check of
\* the signer): for any accounts, wraps and workers.
THEOREM OnlyLateStrayInvariant == Spec => []OnlyLateStray
<1>1. IInv /\ OwnInv => OnlyLateStray
  BY DEF IInv, AccountInv, AccountTypes, FlowShape, OwnInv, StoreOwn, SavedOwn, OnlyLateStray
<1> QED
  BY <1>1, OwnInvariant, PTL

-----------------------------------------------------------------------------
Placed(w) == \/ w \in verifying \cup dm \cup failed
             \/ \E i \in DOMAIN queue : queue[i] = w
             \/ \E k \in Busy : handling[k].wrap = w

\* While nobody is subscribed the deduplicator is empty, so that the store can be emptied.
LEMMA SwallowedStep == IInv /\ OwnInv /\ NoneSwallowed /\ [Next]_vars => NoneSwallowed'
<1> SUFFICES ASSUME IInv, OwnInv, NoneSwallowed, [Next]_vars, NEW w \in seen' PROVE Placed(w)'
  BY DEF NoneSwallowed, Placed
<1>types. WrapTypes /\ me \in Accounts \cup {Nobody}
  BY DEF IInv, AccountInv, AccountTypes
<1>none. subs = Nobody => seen = {}
  BY <1>types DEF OwnInv, Addressed, WrapTypes
<1>1. ASSUME UNCHANGED <<queue, handling>>, w \in seen,
             verifying \cup dm \cup failed \subseteq verifying' \cup dm' \cup failed'
      PROVE  Placed(w)'
  BY <1>1 DEF NoneSwallowed, Placed, Busy
<1>2. CASE seen' = {}
  BY <1>2
<1>3. CASE Switched \/ Cleared \/ LoadDMState
  <2>1. subs = Nobody /\ seen' = seen
    BY <1>3 DEF Switched, Cleared, LoadDMState, wrapVars, IInv, AccountInv, FlowShape
  <2> QED
    BY <1>none, <2>1
<1>4. ASSUME NEW v \in Wraps, Deliver(v) \/ Unverified(v) PROVE Placed(w)'
  BY <1>4 DEF Deliver, Unverified, stateVars, NoneSwallowed, Placed, Busy
<1>5. ASSUME NEW v \in Wraps, Submit(v) PROVE Placed(w)'
  <2>1. /\ verifying' = verifying \ {v} /\ UNCHANGED <<dm, failed>> /\ w \in seen
        /\ Placed(w)
    BY <1>5 DEF Submit, stateVars, NoneSwallowed, Placed
  <2>2. ASSUME NEW k \in Workers \ Busy, Starts(k, v), UNCHANGED queue PROVE Placed(w)'
    <3>1. /\ Busy' = Busy \cup {k} /\ handling'[k].wrap = v
          /\ \A j \in Busy : j # k => handling'[j] = handling[j]
      BY <1>types, <2>2, StartsAdds
    <3>2. \A j \in Busy : handling'[j] = handling[j]
      BY <2>2, <3>1
    <3>3. CASE w = v
      BY <3>1, <3>3 DEF Placed
    <3>4. CASE w # v
      BY <2>1, <2>2, <3>1, <3>2, <3>4 DEF Placed
    <3> QED
      BY <3>3, <3>4
  <2>3. ASSUME queue' = Append(queue, v), UNCHANGED handling PROVE Placed(w)'
    <3>1. /\ \A i \in DOMAIN queue : i \in DOMAIN queue' /\ queue'[i] = queue[i]
          /\ Len(queue) + 1 \in DOMAIN queue' /\ queue'[Len(queue) + 1] = v
      BY <1>types, <2>3 DEF WrapTypes
    <3> QED
      BY <2>1, <2>3, <3>1 DEF Placed, Busy
  <2>4. ASSUME seen' = seen \ {v}, UNCHANGED <<queue, handling>> PROVE Placed(w)'
    BY <2>1, <2>4 DEF Placed, Busy
  <2> QED
    BY <1>5, <2>2, <2>3, <2>4 DEF Submit
<1>6. ASSUME NEW k \in Workers, Unseal(k) PROVE Placed(w)'
  <2>1. /\ k \in Busy /\ UNCHANGED <<verifying, dm, failed, queue>> /\ w \in seen
        /\ handling' = [handling EXCEPT ![k] = [handling[k] EXCEPT !.last = TRUE]]
    BY <1>6 DEF Unseal, stateVars
  <2>2. handling[k] \in Handlers
    BY <1>types, <2>1 DEF WrapTypes, Busy
  <2>3. [handling[k] EXCEPT !.last = TRUE].wrap = handling[k].wrap
        /\ [handling[k] EXCEPT !.last = TRUE] # Nothing
    <3>1. [handling[k] EXCEPT !.last = TRUE] \in Handlers
      BY <2>2 DEF Handlers
    <3> QED
      BY <2>2, <3>1 DEF Handlers
  <2>4. \A j \in Busy : j \in Busy' /\ handling'[j].wrap = handling[j].wrap
    BY <1>types, <2>1, <2>3 DEF Busy, WrapTypes
  <2> QED
    BY <2>1, <2>4 DEF NoneSwallowed, Placed
<1>7. ASSUME NEW k \in Workers, AddDMMessage(k) \/ DecryptFailed(k) PROVE Placed(w)'
  <2>1. /\ k \in Busy /\ Ends(k) /\ w \in seen /\ verifying' = verifying
        /\ dm \cup failed \subseteq dm' \cup failed' /\ handling[k].wrap \in dm' \cup failed'
    BY <1>7 DEF AddDMMessage, DecryptFailed, stateVars
  <2>2. /\ \A j \in Busy : j = k \/ (j \in Busy' /\ handling'[j] = handling[j])
        /\ \A i \in DOMAIN queue : \/ \E h \in DOMAIN queue' : queue'[h] = queue[i]
                                   \/ k \in Busy' /\ handling'[k].wrap = queue[i]
    BY <1>types, <2>1, EndsMoves
  <2> QED
    BY <2>1, <2>2 DEF NoneSwallowed, Placed
<1>8. CASE UNCHANGED <<wrapVars, dm>>
  BY <1>1, <1>8 DEF wrapVars
<1> QED
  BY <1>2, <1>3, <1>4, <1>5, <1>6, <1>7, <1>8 DEF Next, Flow, User, SwitchFailed, SignedIn,
     LoginFailed, LoginThrows, Subscribe, SaveSession, SwitchAway, SwitchAccount, AddAccount,
     LogIn, RemoveAccount, LogOut, SaveDMState, Restart, Cleanup, stateVars, vars

\* A wrap the deduplicator would drop is on its way through the worker and the queue, in
\* the store, or failed (processIncomingEvent, DecryptQueue.submit): no overflow, switch,
\* restart or failure leaves one that is only remembered.
THEOREM NoneSwallowedInvariant == Spec => []NoneSwallowed
<1>1. Init => NoneSwallowed
  BY DEF Init, NoneSwallowed
<1> QED
  BY <1>1, SwallowedStep, OwnInvariant, PTL DEF Spec
=============================================================================
