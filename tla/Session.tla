------------------------------- MODULE Session -------------------------------
(***************************************************************************)
(* Accounts of the client and their direct messages: login, switch,         *)
(* removal, logout and restart (loginFlow.ts), the messages kept per        *)
(* account in IndexedDB (dmPersistence.ts, userStateStore.ts), and the gift *)
(* wraps that arrive, are queued and decrypted (eventPipeline.ts,           *)
(* decryptQueue.ts) while all that goes on.                                 *)
(*                                                                         *)
(* A flow is one call of performLogin, switchAccount or performLogout: its  *)
(* actions are the stretches between its awaits.  While it runs, an overlay *)
(* keeps the user from starting another (App.tsx); the one login without    *)
(* it, from the login screen, is taken to be waited for.  A decryption is   *)
(* two calls of the signer, each with the key it has when it is issued.     *)
(***************************************************************************)
EXTENDS Naturals, Sequences

CONSTANTS
  Accounts,
  Wraps,
  To,          \* the account a wrap is addressed to
  QueueCap,    \* MAX_PENDING
  Workers,     \* of the queue: concurrencyForSigner, of one kind of signer
  Nobody,
  Nothing

Handlers == [wrap : Wraps, by : Accounts \cup {Nobody}, last : BOOLEAN]

ASSUME SessionAssumption ==
  /\ To \in [Wraps -> Accounts]
  /\ QueueCap \in Nat \ {0} /\ Workers # {}
  /\ Nobody \notin Accounts /\ \A x \in (SUBSET Wraps) \cup Handlers : Nothing # x

VARIABLES
  me,          \* identity.pubkey
  signer,      \* whose key a decryption issued now is made with, or Nobody
  key,         \* activePubkey, the prefix of what is read and saved
  dm,          \* wraps whose message the DM store holds (processedWrapIds)
  persisting,  \* changes of the DM store are saved
  dirty,       \* the save timer runs
  subs,        \* the account wraps are asked for, or Nobody
  flow,        \* the flow under way: [step, to]
  seen,        \* the deduplicator
  verifying,   \* wraps with the verification worker
  queue,       \* DecryptQueue
  handling,    \* the handler each worker runs, [wrap, by, last], or Nothing
  \* IndexedDB
  saved,       \* dm_state of each account, or Nothing
  accounts,    \* session.accounts
  session,     \* session.activePubkey, or Nobody
  \* history
  failed,      \* wraps whose decryption failed since the deduplicator was cleared
  late,        \* wraps whose last decryption was under way when the account changed
  removed,     \* accounts removed and not logged in to since
  threw        \* the step at which the login of the account shown threw, or "none"

wrapVars  == <<seen, verifying, queue, handling, failed>>
dbVars    == <<saved, accounts, session>>
stateVars == <<me, signer, key, dm, persisting, dirty, subs, flow>>
historyVars == <<late, removed, threw>>
vars == <<stateVars, wrapVars, dbVars, historyVars>>

Idle == [step |-> "idle", to |-> Nobody]
InApp == me # Nobody /\ flow = Idle
Busy == {k \in Workers : handling[k] # Nothing}

-----------------------------------------------------------------------------
\* Mutant of Cleanup: the subscriptions stay open.
Cleanup_KeepsSubs ==
  /\ persisting' = FALSE /\ dirty' = FALSE /\ UNCHANGED subs
  /\ signer' \in {signer, Nobody}
  /\ seen' = {} /\ verifying' = {} /\ queue' = <<>> /\ failed' = {}
  /\ UNCHANGED handling

\* performCleanup but for its saving; a remote signer is closed, the keystore
\* keeps its key until it is switched.  A verification under way is rejected.
Cleanup ==
  /\ persisting' = FALSE /\ dirty' = FALSE /\ subs' = Nobody
  /\ signer' \in {signer, Nobody}
  /\ seen' = {} /\ verifying' = {} /\ queue' = <<>> /\ failed' = {}
  /\ UNCHANGED handling

\* resetAll.
ResetAll ==
  /\ me' = Nobody /\ dm' = {} /\ threw' = "none"
  /\ late' = late \cup {handling[k].wrap : k \in {i \in Busy : handling[i].last}}

\* flushPendingSave: what the store holds, whether or not a save is due.
FlushSave == saved' = [saved EXCEPT ![key] = dm]

\* switchAccount up to the keystore call.
SwitchAccount(a) ==
  /\ InApp /\ a \in accounts \ {me}
  /\ FlushSave /\ Cleanup
  /\ flow' = [step |-> "keystore", to |-> a]
  /\ UNCHANGED <<me, key, dm, accounts, session, historyVars>>

\* The keystore has switched: the new prefix first, then the store is emptied,
\* the session saved, and the login begins; or saving the session throws.
Switched ==
  /\ flow.step = "keystore"
  /\ signer' \in {flow.to, Nobody}
  /\ key' = flow.to /\ ResetAll
  /\ \/ session' = flow.to /\ flow' = [flow EXCEPT !.step = "login"]
     \/ session' = session /\ flow' = Idle
  /\ UNCHANGED <<persisting, dirty, subs, wrapVars, saved, accounts, removed>>

\* The keystore refuses: the account before is shown again.
SwitchFailed ==
  /\ flow.step = "keystore"
  /\ flow' = Idle
  /\ UNCHANGED <<me, signer, key, dm, persisting, dirty, subs, wrapVars, dbVars, historyVars>>

\* AddAccountModal: cleanup and reset, and login with the prefix still the old one.
AddAccount(a) ==
  /\ InApp
  /\ FlushSave /\ Cleanup /\ ResetAll
  /\ flow' = [step |-> "login", to |-> a]
  /\ removed' = removed \ {a}
  /\ UNCHANGED <<key, accounts, session>>

\* A login from the login screen.
LogIn(a) ==
  /\ me = Nobody /\ flow = Idle
  /\ flow' = [step |-> "login", to |-> a]
  /\ removed' = removed \ {a}
  /\ UNCHANGED <<me, signer, key, dm, persisting, dirty, subs, wrapVars, dbVars, late, threw>>

\* Mutant of SignedIn: changes are saved from then on.
SignedIn_Persists ==
  /\ flow.step = "login"
  /\ signer' = flow.to /\ key' = flow.to /\ me' = flow.to
  /\ persisting' = TRUE /\ dirty' = TRUE
  /\ flow' = [flow EXCEPT !.step = "load"]
  /\ UNCHANGED <<dm, subs, wrapVars, dbVars, historyVars>>

\* performLogin, steps 1-4: a relay and the signer answer.
SignedIn ==
  /\ flow.step = "login"
  /\ signer' = flow.to /\ key' = flow.to /\ me' = flow.to
  /\ flow' = [flow EXCEPT !.step = "load"]
  /\ UNCHANGED <<dm, persisting, dirty, subs, wrapVars, dbVars, historyVars>>

\* No relay, no signer, or another key than expected: back to the login screen.
LoginFailed ==
  /\ flow.step = "login"
  /\ flow' = Idle
  /\ UNCHANGED <<me, signer, key, dm, persisting, dirty, subs, wrapVars, dbVars, historyVars>>

\* An await after the identity is set throws, of IndexedDB most of them: no caller
\* takes the identity back, so the account is shown with what was done so far.
LoginThrows ==
  /\ flow.step \in {"load", "subscribe", "finish"}
  /\ flow' = Idle /\ threw' = flow.step
  /\ UNCHANGED <<me, signer, key, dm, persisting, dirty, subs, wrapVars, dbVars, late, removed>>

\* Step 7f: loadDMState, if anything was saved, and startDMPersistence, whose
\* first notice of the store sets the timer.
LoadDMState ==
  /\ flow.step = "load"
  /\ dm' = IF saved[key] = Nothing THEN dm ELSE saved[key]
  /\ persisting' = TRUE /\ dirty' = TRUE
  /\ flow' = [flow EXCEPT !.step = "subscribe"]
  /\ UNCHANGED <<me, signer, key, subs, wrapVars, dbVars, historyVars>>

\* Step 7g.
Subscribe ==
  /\ flow.step = "subscribe"
  /\ subs' = flow.to
  /\ flow' = [flow EXCEPT !.step = "finish"]
  /\ UNCHANGED <<me, signer, key, dm, persisting, dirty, wrapVars, dbVars, historyVars>>

\* Mutant of SaveSession: the account is added, the active one stays.
SaveSession_KeepsActive ==
  /\ flow.step = "finish"
  /\ accounts' = accounts \cup {flow.to}
  /\ session' = IF session = Nobody THEN flow.to ELSE session
  /\ flow' = Idle
  /\ UNCHANGED <<me, signer, key, dm, persisting, dirty, subs, wrapVars, saved, historyVars>>

\* Step 8.
SaveSession ==
  /\ flow.step = "finish"
  /\ accounts' = accounts \cup {flow.to} /\ session' = flow.to
  /\ flow' = Idle
  /\ UNCHANGED <<me, signer, key, dm, persisting, dirty, subs, wrapVars, saved, historyVars>>

\* removeAccount up to saving the session: of the one in use, which after a login
\* that threw may not be among the accounts, a switch follows.
RemoveAccount(a) ==
  /\ InApp /\ a \in accounts \cup {me} /\ accounts \ {a} # {}
  /\ saved' = [saved EXCEPT ![a] = Nothing]
  /\ accounts' = accounts \ {a} /\ removed' = removed \cup {a}
  /\ LET next == CHOOSE b \in accounts \ {a} : TRUE
     IN  /\ session' = IF session = a THEN next ELSE session
         /\ flow' = IF me = a THEN [step |-> "switch", to |-> next] ELSE flow
  /\ UNCHANGED <<me, signer, key, dm, persisting, dirty, subs, wrapVars, late, threw>>

\* The switch it ends with.
SwitchAway ==
  /\ flow.step = "switch"
  /\ FlushSave /\ Cleanup
  /\ flow' = [flow EXCEPT !.step = "keystore"]
  /\ UNCHANGED <<me, key, dm, accounts, session, historyVars>>

\* performLogout up to its first await: saves are cancelled.
LogOut ==
  /\ InApp
  /\ Cleanup
  /\ key' = Nobody
  /\ flow' = [step |-> "clear", to |-> Nobody]
  /\ UNCHANGED <<me, dm, dbVars, historyVars>>

\* IndexedDB is cleared, then the store.
Cleared ==
  /\ flow.step = "clear"
  /\ saved' = [a \in Accounts |-> Nothing] /\ accounts' = {} /\ session' = Nobody
  /\ ResetAll /\ flow' = Idle
  /\ UNCHANGED <<signer, key, persisting, dirty, subs, wrapVars, removed>>

\* The save timer fires.
SaveDMState ==
  /\ dirty
  /\ FlushSave /\ dirty' = FALSE
  /\ UNCHANGED <<me, signer, key, dm, persisting, subs, flow, wrapVars, accounts, session, historyVars>>

\* The app ends, closed (what is due is saved) or killed, and starts again: the
\* session it finds is restored.
Restart(closed) ==
  /\ IF closed /\ persisting THEN FlushSave ELSE UNCHANGED saved
  /\ me' = Nobody /\ signer' = Nobody /\ key' = session /\ dm' = {}
  /\ persisting' = FALSE /\ dirty' = FALSE /\ subs' = Nobody
  /\ flow' = IF session = Nobody THEN Idle ELSE [step |-> "login", to |-> session]
  /\ seen' = {} /\ verifying' = {} /\ queue' = <<>> /\ handling' = [k \in Workers |-> Nothing] /\ failed' = {}
  /\ threw' = "none"
  /\ UNCHANGED <<accounts, session, late, removed>>

-----------------------------------------------------------------------------
\* A relay delivers a wrap addressed to the account subscribed.
Deliver(w) ==
  /\ To[w] = subs /\ w \notin seen
  /\ seen' = seen \cup {w} /\ verifying' = verifying \cup {w}
  /\ UNCHANGED <<stateVars, queue, handling, failed, dbVars, historyVars>>

Unverified(w) ==
  /\ w \in verifying
  /\ verifying' = verifying \ {w} /\ seen' = seen \ {w}
  /\ UNCHANGED <<stateVars, queue, handling, failed, dbVars, historyVars>>

\* A handler that starts takes the identity as it is and issues the first call.
Handler(w) == [wrap |-> w, by |-> me, last |-> FALSE]

Starts(k, w) == handling' = [handling EXCEPT ![k] = Handler(w)]

\* Mutant of Submit: a wrap the queue has no room for stays marked.
Submit_KeepsSeen(w) ==
  /\ w \in verifying
  /\ verifying' = verifying \ {w}
  /\ IF Busy # Workers
     THEN (\E k \in Workers \ Busy : Starts(k, w)) /\ UNCHANGED queue
     ELSE /\ queue' = IF Len(queue) < QueueCap THEN Append(queue, w) ELSE queue
          /\ UNCHANGED handling
  /\ UNCHANGED <<stateVars, seen, failed, dbVars, historyVars>>

\* DecryptQueue.submit: a free worker takes it, or it waits, or, when the queue is
\* full, it is forgotten and may come again.
Submit(w) ==
  /\ w \in verifying
  /\ verifying' = verifying \ {w}
  /\ \/ /\ \E k \in Workers \ Busy : Starts(k, w)
        /\ UNCHANGED <<queue, seen>>
     \/ /\ Busy = Workers /\ Len(queue) < QueueCap
        /\ queue' = Append(queue, w)
        /\ UNCHANGED <<handling, seen>>
     \/ /\ Busy = Workers /\ Len(queue) >= QueueCap
        /\ seen' = seen \ {w}
        /\ UNCHANGED <<queue, handling>>
  /\ UNCHANGED <<stateVars, failed, dbVars, historyVars>>

\* Mutant of Ends: the worker does not look at the queue.
Ends_Idle(k) == handling' = [handling EXCEPT ![k] = Nothing] /\ UNCHANGED queue

\* The handler ends and its worker takes the next wrap.
Ends(k) ==
  IF queue = <<>>
  THEN handling' = [handling EXCEPT ![k] = Nothing] /\ UNCHANGED queue
  ELSE Starts(k, Head(queue)) /\ queue' = Tail(queue)

\* The key that decrypts now is that of the account the handler started under.
MayDecrypt(k) == me # Nobody /\ signer = handling[k].by

\* Mutant of Unseal: the signer is not asked who it is.
Unseal_AnySigner(k) ==
  /\ k \in Busy /\ ~handling[k].last
  /\ handling' = [handling EXCEPT ![k].last = TRUE]
  /\ UNCHANGED <<stateVars, seen, verifying, queue, failed, dbVars, historyVars>>

\* The wrap is decrypted; the second call, for the seal, is issued.
Unseal(k) ==
  /\ k \in Busy /\ ~handling[k].last /\ MayDecrypt(k)
  /\ handling' = [handling EXCEPT ![k].last = TRUE]
  /\ UNCHANGED <<stateVars, seen, verifying, queue, failed, dbVars, historyVars>>

\* The message goes to whatever store is there now.
AddDMMessage(k) ==
  /\ k \in Busy /\ handling[k].last
  /\ dm' = dm \cup {handling[k].wrap}
  /\ dirty' = (dirty \/ (persisting /\ handling[k].wrap \notin dm))
  /\ Ends(k)
  /\ UNCHANGED <<me, signer, key, persisting, subs, flow, seen, verifying, failed, dbVars, historyVars>>

\* A decryption fails, for want of the key or of an answer, or the wrap is
\* not for this account: nothing is said.
DecryptFailed(k) ==
  /\ k \in Busy
  /\ failed' = failed \cup {handling[k].wrap}
  /\ Ends(k)
  /\ UNCHANGED <<stateVars, seen, verifying, dbVars, historyVars>>

-----------------------------------------------------------------------------
Init ==
  /\ me = Nobody /\ signer = Nobody /\ key = Nobody /\ dm = {}
  /\ persisting = FALSE /\ dirty = FALSE /\ subs = Nobody /\ flow = Idle
  /\ seen = {} /\ verifying = {} /\ queue = <<>> /\ handling = [k \in Workers |-> Nothing] /\ failed = {}
  /\ saved = [a \in Accounts |-> Nothing] /\ accounts = {} /\ session = Nobody
  /\ late = {} /\ removed = {} /\ threw = "none"

Flow == Switched \/ SwitchFailed \/ SignedIn \/ LoginFailed \/ LoginThrows \/ LoadDMState
        \/ Subscribe \/ SaveSession \/ SwitchAway \/ Cleared
User == \/ \E a \in Accounts : SwitchAccount(a) \/ AddAccount(a) \/ LogIn(a) \/ RemoveAccount(a)
        \/ LogOut
Next ==
  \/ Flow \/ User \/ SaveDMState
  \/ \E closed \in BOOLEAN : Restart(closed)
  \/ \E w \in Wraps : Deliver(w) \/ Unverified(w) \/ Submit(w)
  \/ \E k \in Workers : Unseal(k) \/ AddDMMessage(k) \/ DecryptFailed(k)

Spec == Init /\ [][Next]_vars

-----------------------------------------------------------------------------
\* The types, and that a wrap waits only while every worker is taken.
TypeOK ==
  /\ me \in Accounts \cup {Nobody} /\ signer \in Accounts \cup {Nobody}
  /\ key \in Accounts \cup {Nobody} /\ subs \in Accounts \cup {Nobody}
  /\ dm \subseteq Wraps /\ seen \subseteq Wraps /\ verifying \subseteq seen
  /\ saved \in [Accounts -> (SUBSET Wraps) \cup {Nothing}]
  /\ accounts \subseteq Accounts /\ session \in accounts \cup {Nobody}
  /\ handling \in [Workers -> Handlers \cup {Nothing}]
  /\ queue \in Seq(Wraps) /\ Len(queue) <= QueueCap
  /\ queue # <<>> => Busy = Workers
  /\ persisting => key = me /\ me # Nobody
  /\ dirty => persisting
  /\ threw \in {"none", "load", "subscribe", "finish"}

Kept(a) == IF saved[a] = Nothing THEN {} ELSE saved[a]

\* What is saved of an account's messages is never lost by what happens to other
\* accounts, by restarts or by failures: only by removing the account
\* (loginFlow.ts:1499-1500), or by leaving one whose login threw after the identity
\* was set and before its messages were loaded (577-1163): the flush then writes the
\* store, still without them, over what is saved.
HistoryKept ==
  [][\A a \in accounts' : Kept(a) \subseteq Kept(a)' \/ (a = me /\ threw = "load")]_vars

\* When the relays are asked for an account's wraps, all it has saved is known, so
\* that none is taken for new (loginFlow.ts:1160-1162).
KnownBeforeAsked == subs # Nobody => Kept(subs) \subseteq dm

\* A wrap the deduplicator would drop is on its way, in the store, or could not be
\* decrypted (eventPipeline.ts:416-421).
NoneSwallowed ==
  \A w \in seen :
    \/ w \in verifying \cup dm \cup failed
    \/ \E i \in DOMAIN queue : queue[i] = w
    \/ \E k \in Busy : handling[k].wrap = w

\* A message of one account reaches the messages of another only if its last
\* decryption was already under way when the account changed.
OnlyLateStray ==
  /\ me # Nobody => \A w \in dm : To[w] = me \/ w \in late
  /\ persisting => \A w \in Kept(me) : To[w] = me \/ w \in late

\* In the app, a restart would come back to this account, unless it was removed
\* and the switch away from it failed, or its login threw before the session was
\* saved (loginFlow.ts:577-1300).
SessionMatches == InApp /\ me \in accounts /\ threw = "none" => session = me

\* Nothing of a removed account stays (loginFlow.ts:1456, userStateStore.ts:66-67).
RemovedIsGone == flow = Idle => \A a \in removed : saved[a] = Nothing
=============================================================================
