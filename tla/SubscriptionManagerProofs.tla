---------------------- MODULE SubscriptionManagerProofs ----------------------
(***************************************************************************)
(* Theorems about SubscriptionManager for any number of subscriptions and   *)
(* relays: onEOSE is called at most once, never after close(), and "all-eose" *)
(* means that every relay of the subscription has answered.                 *)
(***************************************************************************)
EXTENDS SubscriptionManager, SequenceTheorems, TLAPS

Reasons == {"all-eose", "timeout", "no-relays"}

\* What onEOSE was called with is a list per subscription, and it is empty as
\* long as the one-shot flag is down: the part of the state EoseAtMostOnce
\* rests on.
FlagInv ==
  /\ reasons \in [Ids -> Seq(Reasons)]
  /\ \A id \in Ids : Len(reasons[id]) <= 1
  /\ \A id \in Ids \ eoseFired : reasons[id] = << >>

\* A call of onEOSE appends one reason for its own subscription, and only
\* CallOnEose, reached through FireEose, does so.
LEMMA FireEoseEffect ==
  ASSUME FlagInv, NEW id \in Ids, NEW reason \in Reasons, FireEose(id, reason)
  PROVE  /\ FlagInv'
         /\ \A other \in Ids : reasons'[other] # reasons[other] =>
              other = id /\ id \in subscriptions
<1>1. CASE id \in subscriptions \ eoseFired
  <2>1. /\ eoseFired' = eoseFired \cup {id}
        /\ reasons' = IF id \in Listeners
                      THEN [reasons EXCEPT ![id] = Append(reasons[id], reason)] ELSE reasons
    BY <1>1 DEF FireEose, CallOnEose
  <2>2. reasons[id] = << >> /\ reasons \in [Ids -> Seq(Reasons)]
    BY <1>1 DEF FlagInv
  <2>3. /\ Append(reasons[id], reason) \in Seq(Reasons)
        /\ Len(Append(reasons[id], reason)) = 1
    BY <2>2, AppendProperties
  <2>4. /\ reasons' \in [Ids -> Seq(Reasons)]
        /\ Len(reasons'[id]) <= 1
        /\ \A other \in Ids \ {id} : reasons'[other] = reasons[other]
    <3>1. CASE id \in Listeners
      <4>1. reasons' = [reasons EXCEPT ![id] = Append(reasons[id], reason)]
        BY <2>1, <3>1
      <4>2. /\ reasons' \in [Ids -> Seq(Reasons)]
            /\ reasons'[id] = Append(reasons[id], reason)
            /\ \A other \in Ids \ {id} : reasons'[other] = reasons[other]
        BY <2>2, <2>3, <4>1
      <4> QED
        BY <2>3, <4>2
    <3>2. CASE id \notin Listeners
      BY <2>1, <2>2, <3>2 DEF FlagInv
    <3> QED
      BY <3>1, <3>2
  <2>5. FlagInv'
    BY <2>1, <2>4 DEF FlagInv
  <2> QED
    BY <1>1, <2>4, <2>5
<1>2. CASE id \notin subscriptions \ eoseFired
  <2>1. UNCHANGED <<eoseFired, reasons>>
    BY <1>2 DEF FireEose, StaySilent
  <2> QED
    BY <2>1 DEF FlagInv
<1> QED
  BY <1>1, <1>2

\* No onEOSE was called yet.
LEMMA FlagInit == Init => FlagInv
<1> SUFFICES ASSUME Init
             PROVE  FlagInv
  OBVIOUS
<1>1. reasons = [id \in Ids |-> << >>]
  BY DEF Init
<1>2. << >> \in Seq(Reasons) /\ Len(<< >>) = 0
  BY EmptySeq
<1> QED
  BY <1>1, <1>2 DEF FlagInv

\* One step: the flag invariant holds again, and only a subscription that is
\* still open has its onEOSE called.
LEMMA FlagStep ==
  ASSUME FlagInv, [Next]_vars
  PROVE  /\ FlagInv'
         /\ \A id \in Ids \ subscriptions : reasons'[id] = reasons[id]
<1>1. ASSUME UNCHANGED <<eoseFired, reasons>>
      PROVE  /\ FlagInv'
             /\ \A id \in Ids \ subscriptions : reasons'[id] = reasons[id]
  BY <1>1 DEF FlagInv
<1>2. ASSUME NEW id \in Ids, NEW reason \in Reasons, FireEose(id, reason)
      PROVE  /\ FlagInv'
             /\ \A other \in Ids \ subscriptions : reasons'[other] = reasons[other]
  <2>1. CASE id \in subscriptions
    <3>1. /\ FlagInv'
          /\ \A other \in Ids : other # id => reasons'[other] = reasons[other]
      BY <1>2, FireEoseEffect
    <3>2. ASSUME NEW other \in Ids \ subscriptions
          PROVE  reasons'[other] = reasons[other]
      <4>1. reasons' = reasons \/ reasons' = [reasons EXCEPT ![id] = Append(reasons[id], reason)]
        BY <1>2 DEF FireEose, CallOnEose, StaySilent
      <4> QED
        BY <2>1, <4>1 DEF FlagInv
    <3> QED
      BY <3>1, <3>2
  <2>2. CASE id \notin subscriptions
    <3>1. UNCHANGED <<eoseFired, reasons>>
      BY <1>2, <2>2 DEF FireEose, StaySilent
    <3> QED
      BY <1>1, <3>1
  <2> QED
    BY <2>1, <2>2
<1>3. ASSUME NEW id \in Ids, EoseTimeout(id)
      PROVE  /\ FlagInv'
             /\ \A other \in Ids \ subscriptions : reasons'[other] = reasons[other]
  BY <1>2, <1>3 DEF EoseTimeout, Reasons
<1>4. ASSUME NEW id \in Ids, NoRelays(id)
      PROVE  /\ FlagInv'
             /\ \A other \in Ids \ subscriptions : reasons'[other] = reasons[other]
  BY <1>2, <1>4 DEF NoRelays, Reasons
<1>5. ASSUME NEW r \in Relays, NEW id \in Ids, Eose(r, id)
      PROVE  /\ FlagInv'
             /\ \A other \in Ids \ subscriptions : reasons'[other] = reasons[other]
  <2>1. FireEose(id, "all-eose") \/ StaySilent
    BY <1>5 DEF Eose
  <2> QED
    BY <1>1, <1>2, <2>1 DEF StaySilent, Reasons
<1>6. ASSUME NEW id \in Ids, NEW urls \in SUBSET Relays, NEW safe \in BOOLEAN,
             Subscribe(id, urls, safe)
      PROVE  UNCHANGED <<eoseFired, reasons>>
  BY <1>6 DEF Subscribe
<1>7. ASSUME NEW id \in Ids, Close(id)
      PROVE  UNCHANGED <<eoseFired, reasons>>
  BY <1>7 DEF Close
<1>8. ASSUME NEW r \in Relays, Dial(r) \/ Drop(r) \/ Open(r) \/ Lose(r)
      PROVE  UNCHANGED <<eoseFired, reasons>>
  BY <1>8 DEF Dial, Drop, Open, Lose
<1>9. ASSUME NEW r \in Relays, NEW id \in Ids, Refuse(r, id)
      PROVE  UNCHANGED <<eoseFired, reasons>>
  BY <1>9 DEF Refuse
<1>10. CASE Logout
  BY <1>1, <1>10 DEF Logout
<1>11. CASE UNCHANGED vars
  BY <1>1, <1>11 DEF vars
<1> QED
  BY <1>1, <1>3, <1>4, <1>5, <1>6, <1>7, <1>8, <1>9, <1>10, <1>11 DEF Next

\* For any number of subscriptions and relays, no order of EOSEs, reconnects,
\* timers and closes calls an onEOSE twice.
THEOREM OneEose == Spec => []EoseAtMostOnce
<1>1. FlagInv => EoseAtMostOnce
  BY DEF FlagInv, EoseAtMostOnce
<1>2. FlagInv /\ [Next]_vars => FlagInv'
  BY FlagStep
<1> QED
  BY <1>1, <1>2, FlagInit, PTL DEF Spec

\* ... nor calls it after the subscription was closed.
THEOREM NoEoseAfterClose == Spec => SilentAfterClose
<1>1. FlagInv /\ [Next]_vars => FlagInv'
  BY FlagStep
<1>2. FlagInv /\ [Next]_vars =>
        [\A id \in Ids \ subscriptions : reasons'[id] = reasons[id]]_vars
  BY FlagStep
<1> QED
  BY <1>1, <1>2, FlagInit, PTL DEF Spec, SilentAfterClose
-----------------------------------------------------------------------------
\* The type invariant

\* The initial state is well typed.
LEMMA TypeInit == Init => TypeOK
<1> SUFFICES ASSUME Init
             PROVE  TypeOK
  OBVIOUS
<1>1. << >> \in Seq(Reasons)
  BY EmptySeq
<1>2. reasons \in [Ids -> Seq(Reasons)]
  BY <1>1 DEF Init
<1> QED
  BY <1>2 DEF Init, TypeOK, Reasons

\* A call of onEOSE keeps the types of what it touches.
LEMMA FireEoseTyped ==
  ASSUME TypeOK, NEW id \in Ids, NEW reason \in Reasons, FireEose(id, reason)
  PROVE  /\ subscriptions' \subseteq subscriptions /\ eoseFired' \subseteq created
         /\ eoseTimer' \subseteq subscriptions' \cap Listeners
         /\ callbacks' \subseteq SubIds /\ intended' \in [SubIds -> SUBSET Relays]
         /\ tracked' \in [Relays -> SUBSET SubIds]
         /\ reasons' \in [Ids -> Seq(Reasons)]
<1>1. CASE id \in subscriptions \ eoseFired
  <2>1. /\ eoseFired' \subseteq created
        /\ eoseTimer' = eoseTimer \ {id}
        /\ subscriptions' \in {subscriptions, subscriptions \ {id}}
    BY <1>1 DEF FireEose, CallOnEose, TypeOK
  <2>2. reasons' \in [Ids -> Seq(Reasons)]
    <3>1. reasons \in [Ids -> Seq(Reasons)]
      BY DEF TypeOK, Reasons
    <3>2. Append(reasons[id], reason) \in Seq(Reasons)
      BY <3>1, AppendProperties
    <3>3. reasons' \in {reasons, [reasons EXCEPT ![id] = Append(reasons[id], reason)]}
      BY <1>1 DEF FireEose, CallOnEose
    <3> QED
      BY <3>1, <3>2, <3>3
  <2>3. /\ callbacks' \subseteq SubIds /\ intended' \in [SubIds -> SUBSET Relays]
        /\ tracked' \in [Relays -> SUBSET SubIds]
    <3>1. CASE id \in Once
      <4>1. CloseAtManager({id})
        BY <1>1, <3>1 DEF FireEose, CallOnEose
      <4>2. callbacks' \subseteq SubIds
        BY <4>1 DEF CloseAtManager, TypeOK
      <4>3. intended' \in [SubIds -> SUBSET Relays]
        BY <4>1 DEF CloseAtManager, TypeOK
      <4>4. tracked' \in [Relays -> SUBSET SubIds]
        BY <4>1 DEF CloseAtManager, TypeOK
      <4> QED
        BY <4>2, <4>3, <4>4
    <3>2. CASE id \notin Once
      BY <1>1, <3>2 DEF FireEose, CallOnEose, managerVars, TypeOK
    <3> QED
      BY <3>1, <3>2
  <2> QED
    BY <2>1, <2>2, <2>3 DEF TypeOK
<1>2. CASE id \notin subscriptions \ eoseFired
  BY <1>2 DEF FireEose, StaySilent, managerVars, TypeOK, Reasons
<1> QED
  BY <1>1, <1>2

\* Every step keeps the types.
LEMMA TypeStep == TypeOK /\ [Next]_vars => TypeOK'
<1> SUFFICES ASSUME TypeOK, [Next]_vars
             PROVE  TypeOK'
  OBVIOUS
<1>0. \A id \in Ids : SubId(id) \in SubIds
  BY DEF SubIds
<1>1. ASSUME NEW id \in Ids, NEW urls \in SUBSET Relays, NEW safe \in BOOLEAN,
             Subscribe(id, urls, safe)
      PROVE  TypeOK'
  <2>1. Targets(urls, safe) \in SUBSET Relays
    BY DEF Targets
  <2>2. /\ quorum' \in [Ids -> SUBSET Relays] /\ eosed' \in [Ids -> SUBSET Relays]
        /\ intended' \in [SubIds -> SUBSET Relays]
    BY <1>0, <1>1, <2>1 DEF Subscribe, TypeOK
  <2>3. /\ tracked' \in [Relays -> SUBSET SubIds]
        /\ awaiting' \in [Relays -> SUBSET SubIds]
    BY <1>0, <1>1, <2>1 DEF Subscribe, TypeOK
  <2>4. /\ subscriptions' \subseteq created' /\ created' \subseteq Ids
        /\ eoseTimer' \subseteq subscriptions' \cap Listeners /\ microtask' \subseteq Listeners
        /\ eoseFired' \subseteq created'
        /\ callbacks' \subseteq SubIds
        /\ connected' \subseteq dialed' /\ dialed' \subseteq Relays
    BY <1>0, <1>1, <2>1 DEF Subscribe, TypeOK
  <2>5. UNCHANGED <<reasons, answered>>
    BY <1>1 DEF Subscribe
  <2> QED
    BY <2>2, <2>3, <2>4, <2>5 DEF TypeOK
<1>2. ASSUME NEW id \in Ids, EoseTimeout(id)
      PROVE  TypeOK'
  <2>1. "timeout" \in Reasons /\ FireEose(id, "timeout")
    BY <1>2 DEF EoseTimeout, Reasons
  <2>2. UNCHANGED <<created, eoseVars, microtask, linkVars, awaiting, answered>>
    BY <1>2 DEF EoseTimeout
  <2> QED
    BY <2>1, <2>2, FireEoseTyped DEF TypeOK, Reasons, eoseVars, linkVars
<1>3. ASSUME NEW id \in Ids, NoRelays(id)
      PROVE  TypeOK'
  <2>1. "no-relays" \in Reasons /\ FireEose(id, "no-relays")
    BY <1>3 DEF NoRelays, Reasons
  <2>2. /\ microtask' = microtask \ {id}
        /\ UNCHANGED <<created, eoseVars, linkVars, awaiting, answered>>
    BY <1>3 DEF NoRelays
  <2> QED
    BY <2>1, <2>2, FireEoseTyped DEF TypeOK, Reasons, eoseVars, linkVars
<1>4. ASSUME NEW id \in Ids, Close(id)
      PROVE  TypeOK'
  BY <1>4 DEF Close, CloseAtManager, TypeOK, eoseVars, linkVars
<1>5. ASSUME NEW r \in Relays, Dial(r)
      PROVE  TypeOK'
  BY <1>5 DEF Dial, TypeOK, vars, mapVars, eoseVars, managerVars, linkVars
<1>6. ASSUME NEW r \in Relays, Drop(r)
      PROVE  TypeOK'
  BY <1>6 DEF Drop, TypeOK, vars, mapVars, eoseVars, managerVars, linkVars
<1>7. ASSUME NEW r \in Relays, Open(r)
      PROVE  TypeOK'
  <2> DEFINE forward == {h \in callbacks : r \in intended[h]}
  <2>1. forward \in SUBSET SubIds
    BY DEF TypeOK
  <2>2. /\ tracked' \in [Relays -> SUBSET SubIds]
        /\ awaiting' \in [Relays -> SUBSET SubIds]
    BY <1>7, <2>1 DEF Open, TypeOK
  <2>3. connected' \subseteq dialed'
    BY <1>7 DEF Open, TypeOK
  <2> QED
    BY <1>7, <2>2, <2>3 DEF Open, TypeOK, vars, mapVars, eoseVars, managerVars, linkVars
<1>8. ASSUME NEW r \in Relays, Lose(r)
      PROVE  TypeOK'
  BY <1>8 DEF Lose, TypeOK, vars, mapVars, eoseVars, managerVars, linkVars
<1>9. ASSUME NEW r \in Relays, NEW id \in Ids, Refuse(r, id)
      PROVE  TypeOK'
  <2>1. /\ tracked' \in [Relays -> SUBSET SubIds]
        /\ awaiting' \in [Relays -> SUBSET SubIds]
    BY <1>9 DEF Refuse, TypeOK
  <2> QED
    BY <1>9, <2>1 DEF Refuse, TypeOK, vars, mapVars, eoseVars, managerVars, linkVars
<1>10. ASSUME NEW r \in Relays, NEW id \in Ids, Eose(r, id)
       PROVE  TypeOK'
  <2>1. FireEose(id, "all-eose") \/ StaySilent
    BY <1>10 DEF Eose
  <2>2. /\ subscriptions' \subseteq subscriptions /\ eoseFired' \subseteq created
        /\ eoseTimer' \subseteq subscriptions' \cap Listeners
        /\ callbacks' \subseteq SubIds /\ intended' \in [SubIds -> SUBSET Relays]
        /\ tracked' \in [Relays -> SUBSET SubIds]
        /\ reasons' \in [Ids -> Seq(Reasons)]
    <3>1. CASE FireEose(id, "all-eose")
      BY <3>1, FireEoseTyped DEF Reasons
    <3>2. CASE StaySilent
      BY <3>2 DEF StaySilent, managerVars, TypeOK, Reasons
    <3> QED
      BY <2>1, <3>1, <3>2
  <2>3. /\ awaiting' \in [Relays -> SUBSET SubIds]
        /\ answered' \in [Ids -> SUBSET Relays]
    BY <1>10 DEF Eose, TypeOK
  <2>4. eosed' \in [Ids -> SUBSET Relays]
    <3>1. \/ eosed' = [eosed EXCEPT ![id] = eosed[id] \cup {r}]
          \/ UNCHANGED eosed
      BY <1>10 DEF Eose
    <3>2. eosed \in [Ids -> SUBSET Relays]
      BY DEF TypeOK
    <3>3. eosed[id] \cup {r} \in SUBSET Relays
      BY <3>2
    <3> QED
      BY <3>1, <3>2, <3>3
  <2>5. UNCHANGED <<created, quorum, microtask, linkVars>>
    BY <1>10 DEF Eose
  <2> QED
    BY <2>2, <2>3, <2>4, <2>5 DEF TypeOK, Reasons, linkVars
<1>11. CASE Logout
  BY <1>11 DEF Logout, TypeOK, eoseVars
<1>12. CASE UNCHANGED vars
  BY <1>12 DEF TypeOK, vars, mapVars, eoseVars, managerVars, linkVars
<1> QED
  BY <1>1, <1>2, <1>3, <1>4, <1>5, <1>6, <1>7, <1>8, <1>9, <1>10, <1>11, <1>12 DEF Next

\* Every variable keeps its type, and no backstop outlives its subscription.
THEOREM TypeInvariant == Spec => []TypeOK
BY TypeInit, TypeStep, PTL DEF Spec
-----------------------------------------------------------------------------
\* "all-eose" is honest

\* Every EOSE that was counted was received, and the relay manager never means a
\* subscription for a relay its quorum does not wait for: the two layers compute
\* the indexer strip on their own, and must agree.
HonestInv ==
  /\ \A id \in Ids : eosed[id] \subseteq answered[id]
  /\ \A id \in created : intended[SubId(id)] \subseteq quorum[id]
  /\ HonestAllEose

\* HonestAllEose of one subscription.
HonestFor(id) ==
  reasons[id] = <<"all-eose">> =>
    intended[SubId(id)] \subseteq answered[id] /\ answered[id] # {}

\* The relay manager's ids differ when the subscriptions do.
LEMMA SubIdInjective ==
  ASSUME NEW a \in Ids, NEW b \in Ids
  PROVE  SubId(a) \in SubIds /\ (SubId(a) = SubId(b) => a = b)
BY DEF SubId, SubIds

\* A step that takes nothing back from the history and calls no onEOSE keeps it:
\* a close or a logout only empties what is intended.
LEMMA HonestSame ==
  ASSUME TypeOK, HonestInv, UNCHANGED <<created, eosed, quorum, answered>>,
         \A id \in Ids : intended'[SubId(id)] \subseteq intended[SubId(id)],
         \A id \in Ids : reasons'[id] = reasons[id] \/ reasons'[id] # <<"all-eose">>
  PROVE  HonestInv'
<1>1. \A id \in Ids : HonestFor(id)
  BY DEF HonestInv, HonestAllEose, HonestFor
<1>2. \A id \in Ids : HonestFor(id)'
  BY <1>1 DEF HonestFor
<1>3. HonestAllEose'
  BY <1>2 DEF HonestAllEose, HonestFor
<1>4. \A id \in created' : intended'[SubId(id)] \subseteq quorum'[id]
  <2> SUFFICES ASSUME NEW id \in created
               PROVE  intended'[SubId(id)] \subseteq quorum[id]
    OBVIOUS
  <2>1. id \in Ids
    BY DEF TypeOK
  <2> QED
    BY <2>1 DEF HonestInv
<1> QED
  BY <1>3, <1>4 DEF HonestInv

\* What a call of onEOSE does to the call's own history and to the intentions.
LEMMA FireEoseHonest ==
  ASSUME TypeOK, FlagInv, NEW id \in Ids, NEW reason \in Reasons, FireEose(id, reason)
  PROVE  /\ \A other \in Ids : intended'[SubId(other)] \subseteq intended[SubId(other)]
         /\ \A other \in Ids \ {id} : reasons'[other] = reasons[other]
         /\ \/ reasons'[id] = reasons[id]
            \/ reasons'[id] = <<reason>> /\ id \in subscriptions
<1>1. CASE id \in subscriptions \ eoseFired
  <2>1. reasons[id] = << >>
    BY <1>1 DEF FlagInv
  <2>2. reasons' \in {reasons, [reasons EXCEPT ![id] = Append(reasons[id], reason)]}
    BY <1>1 DEF FireEose, CallOnEose
  <2>3. Append(reasons[id], reason) = <<reason>>
    BY <2>1
  <2>4. reasons \in [Ids -> Seq(Reasons)]
    BY DEF FlagInv
  <2>5. \/ intended' = intended
        \/ intended' = [h \in SubIds |-> IF h \in {id} THEN {} ELSE intended[h]]
    BY <1>1 DEF FireEose, CallOnEose, CloseAtManager, managerVars
  <2>6. \A other \in Ids : intended'[SubId(other)] \subseteq intended[SubId(other)]
    BY <2>5, SubIdInjective
  <2>7. /\ \A other \in Ids \ {id} : reasons'[other] = reasons[other]
        /\ reasons'[id] = reasons[id] \/ reasons'[id] = Append(reasons[id], reason)
    BY <2>2, <2>4
  <2> QED
    BY <1>1, <2>3, <2>6, <2>7
<1>2. CASE id \notin subscriptions \ eoseFired
  BY <1>2 DEF FireEose, StaySilent, managerVars
<1> QED
  BY <1>1, <1>2

\* Nothing is open yet.
LEMMA HonestInit == Init => HonestInv
<1> SUFFICES ASSUME Init
             PROVE  HonestInv
  OBVIOUS
<1>1. \A id \in Ids : reasons[id] = << >> /\ eosed[id] = {}
  BY DEF Init
<1>2. << >> # <<"all-eose">>
  OBVIOUS
<1>3. HonestAllEose
  BY <1>1, <1>2 DEF HonestAllEose
<1> QED
  BY <1>1, <1>3 DEF Init, HonestInv

\* The EOSE that completes a quorum completes it honestly.
LEMMA EoseHonest ==
  ASSUME TypeOK, FlagInv, HonestInv, NEW r \in Relays, NEW id \in Ids, Eose(r, id)
  PROVE  HonestInv'
<1> DEFINE got == eosed[id] \cup {r}
<1>1. /\ answered' = [answered EXCEPT ![id] = answered[id] \cup {r}]
      /\ UNCHANGED <<created, quorum>>
      /\ answered \in [Ids -> SUBSET Relays] /\ eosed \in [Ids -> SUBSET Relays]
      /\ subscriptions \subseteq created /\ created \subseteq Ids
  BY DEF Eose, TypeOK
<1>2. /\ answered'[id] = answered[id] \cup {r}
      /\ \A other \in Ids \ {id} : answered'[other] = answered[other]
      /\ \A other \in Ids : answered[other] \subseteq answered'[other]
  BY <1>1
<1>3. /\ eosed' = eosed \/ eosed' = [eosed EXCEPT ![id] = got]
      /\ FireEose(id, "all-eose") \/ StaySilent
  BY DEF Eose
<1>4. \A other \in Ids : eosed'[other] \subseteq answered'[other]
  <2>1. \A other \in Ids : eosed[other] \subseteq answered[other]
    BY DEF HonestInv
  <2> QED
    BY <1>1, <1>2, <1>3, <2>1
<1>5. /\ \A other \in Ids : intended'[SubId(other)] \subseteq intended[SubId(other)]
      /\ \A other \in Ids \ {id} : reasons'[other] = reasons[other]
      /\ reasons'[id] = reasons[id] \/ id \in subscriptions
  <2>1. CASE FireEose(id, "all-eose")
    BY <2>1, FireEoseHonest DEF Reasons
  <2>2. CASE StaySilent
    BY <2>2 DEF StaySilent, managerVars
  <2> QED
    BY <1>3, <2>1, <2>2
<1>6. \A other \in created' : intended'[SubId(other)] \subseteq quorum'[other]
  <2>1. \A other \in created : intended[SubId(other)] \subseteq quorum[other]
    BY DEF HonestInv
  <2> QED
    BY <1>1, <1>5, <2>1
<1>7. \A other \in Ids : HonestFor(other)
  BY DEF HonestInv, HonestAllEose, HonestFor
<1>8. \A other \in Ids \ {id} : HonestFor(other)'
  BY <1>2, <1>5, <1>7 DEF HonestFor
<1>9. HonestFor(id)'
  <2>1. CASE reasons'[id] = reasons[id]
    BY <1>2, <1>5, <1>7, <2>1 DEF HonestFor
  <2>2. CASE reasons'[id] # reasons[id]
    <3>1. id \in subscriptions /\ ~StaySilent
      BY <1>5, <2>2 DEF StaySilent
    <3>2. AllEosed(id, got) /\ eosed' = [eosed EXCEPT ![id] = got]
      BY <3>1 DEF Eose
    <3>3. quorum[id] \subseteq got
      BY <3>2 DEF AllEosed
    <3>4. got \subseteq answered'[id]
      BY <1>2 DEF HonestInv
    <3>5. intended'[SubId(id)] \subseteq quorum[id]
      BY <1>1, <1>6, <3>1
    <3> QED
      BY <1>2, <3>3, <3>4, <3>5 DEF HonestFor
  <2> QED
    BY <2>1, <2>2
<1>10. HonestAllEose'
  BY <1>8, <1>9 DEF HonestAllEose, HonestFor
<1> QED
  BY <1>4, <1>6, <1>10 DEF HonestInv

\* A new subscription waits for every relay it is meant for.
LEMMA SubscribeHonest ==
  ASSUME TypeOK, FlagInv, HonestInv, NEW id \in Ids, NEW urls \in SUBSET Relays,
         NEW safe \in BOOLEAN, Subscribe(id, urls, safe)
  PROVE  HonestInv'
<1> DEFINE T == Targets(urls, safe)
<1>1. /\ id \notin created /\ created' = created \cup {id}
      /\ quorum' = [quorum EXCEPT ![id] = T] /\ eosed' = [eosed EXCEPT ![id] = {}]
      /\ intended' = [intended EXCEPT ![SubId(id)] = T]
      /\ UNCHANGED <<reasons, answered>>
  BY DEF Subscribe, Targets
<1>2. /\ created \subseteq Ids /\ eoseFired \subseteq created
      /\ quorum \in [Ids -> SUBSET Relays] /\ eosed \in [Ids -> SUBSET Relays]
      /\ intended \in [SubIds -> SUBSET Relays]
  BY DEF TypeOK
<1> HIDE DEF T
<1>3. reasons'[id] # <<"all-eose">>
  <2>1. reasons[id] = << >>
    BY <1>1, <1>2 DEF FlagInv
  <2> QED
    BY <1>1, <2>1
<1>4. \A other \in Ids \ {id} :
        /\ intended'[SubId(other)] = intended[SubId(other)]
        /\ quorum'[other] = quorum[other] /\ eosed'[other] = eosed[other]
  BY <1>1, <1>2, SubIdInjective
<1>5. quorum'[id] = T /\ eosed'[id] = {} /\ intended'[SubId(id)] = T
  BY <1>1, <1>2, SubIdInjective
<1>6. \A other \in Ids : HonestFor(other)
  BY DEF HonestInv, HonestAllEose, HonestFor
<1>7. \A other \in Ids : HonestFor(other)'
  BY <1>1, <1>3, <1>4, <1>6 DEF HonestFor
<1>8. HonestAllEose'
  BY <1>7 DEF HonestAllEose, HonestFor
<1>9. \A other \in Ids : eosed'[other] \subseteq answered'[other]
  BY <1>1, <1>4, <1>5 DEF HonestInv
<1>10. \A other \in created' : intended'[SubId(other)] \subseteq quorum'[other]
  BY <1>1, <1>2, <1>4, <1>5 DEF HonestInv
<1> QED
  BY <1>8, <1>9, <1>10 DEF HonestInv

\* One step.
LEMMA HonestStep == TypeOK /\ FlagInv /\ HonestInv /\ [Next]_vars => HonestInv'
<1> SUFFICES ASSUME TypeOK, FlagInv, HonestInv, [Next]_vars
             PROVE  HonestInv'
  OBVIOUS
<1>1. ASSUME NEW id \in Ids, NEW reason \in Reasons, reason # "all-eose", FireEose(id, reason),
             UNCHANGED <<created, eosed, quorum, answered>>
      PROVE  HonestInv'
  <2>1. <<reason>> # <<"all-eose">>
    BY <1>1
  <2>2. /\ \A other \in Ids : intended'[SubId(other)] \subseteq intended[SubId(other)]
        /\ \A other \in Ids : reasons'[other] = reasons[other] \/ reasons'[other] # <<"all-eose">>
    BY <1>1, <2>1, FireEoseHonest
  <2> QED
    BY <1>1, <2>2, HonestSame
<1>2. ASSUME UNCHANGED <<created, eosed, quorum, answered, reasons, intended>>
      PROVE  HonestInv'
  BY <1>2, HonestSame
<1>3. ASSUME NEW id \in Ids, EoseTimeout(id)
      PROVE  HonestInv'
  BY <1>1, <1>3 DEF EoseTimeout, Reasons, eoseVars
<1>4. ASSUME NEW id \in Ids, NoRelays(id)
      PROVE  HonestInv'
  BY <1>1, <1>4 DEF NoRelays, Reasons, eoseVars
<1>5. ASSUME NEW id \in Ids, Close(id)
      PROVE  HonestInv'
  <2>1. \A other \in Ids : intended'[SubId(other)] \subseteq intended[SubId(other)]
    BY <1>5, SubIdInjective DEF Close, CloseAtManager
  <2> QED
    BY <1>5, <2>1, HonestSame DEF Close, eoseVars
<1>6. ASSUME NEW r \in Relays, Dial(r) \/ Drop(r) \/ Open(r) \/ Lose(r)
      PROVE  HonestInv'
  BY <1>2, <1>6 DEF Dial, Drop, Open, Lose, mapVars, eoseVars, managerVars
<1>7. ASSUME NEW r \in Relays, NEW id \in Ids, Refuse(r, id)
      PROVE  HonestInv'
  BY <1>2, <1>7 DEF Refuse, mapVars, eoseVars, managerVars
<1>8. CASE Logout
  <2>1. \A other \in Ids : intended'[SubId(other)] \subseteq intended[SubId(other)]
    BY <1>8, SubIdInjective DEF Logout
  <2> QED
    BY <1>8, <2>1, HonestSame DEF Logout, eoseVars
<1>9. CASE UNCHANGED vars
  BY <1>2, <1>9 DEF vars, mapVars, eoseVars, managerVars
<1> QED
  BY <1>3, <1>4, <1>5, <1>6, <1>7, <1>8, <1>9, SubscribeHonest, EoseHonest DEF Next

\* For any relays and any order of EOSEs, reconnects, refusals and closes,
\* "all-eose" means that every relay the subscription went to has answered it.
THEOREM HonestAllEoseInvariant == Spec => []HonestAllEose
<1>1. Init => TypeOK /\ FlagInv /\ HonestInv
  BY TypeInit, FlagInit, HonestInit
<1>2. TypeOK /\ FlagInv /\ HonestInv /\ [Next]_vars => TypeOK' /\ FlagInv' /\ HonestInv'
  BY TypeStep, FlagStep, HonestStep
<1>3. HonestInv => HonestAllEose
  BY DEF HonestInv
<1> QED
  BY <1>1, <1>2, <1>3, PTL DEF Spec
=============================================================================
