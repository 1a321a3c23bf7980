--------------------------- MODULE CredChainProofs ---------------------------
(***************************************************************************)
(* Proofs about CredChain: for any number of callers, any slack and any    *)
(* expiry times, one refresh is in flight at a time, the verdict that led  *)
(* into it stays right, what the cache hands out stays usable for the      *)
(* slack, and the mutex and the slow resolution implement CredProvider.    *)
(***************************************************************************)
EXTENDS CredChain, TLAPS

\* The bounds of the model are numbers.
LEMMA BoundsTyped == Slack \in Nat /\ MaxTime \in Nat /\ MaxIssued \in Nat
BY CredentialsAssumption, ChainAssumption DEF CredentialsAssumption, ChainAssumption

\* mu tells exactly who is inside the critical section.
MutexInv == \A c \in Callers : pc[c] \in Holding <=> mu = c

\* Serials are handed out by issued.
SerialInv ==
  /\ cached.serial <= issued
  /\ \A c \in Callers : val[c].serial <= issued

\* A call holds a value only between its answer and Take.
ValInv == \A c \in Callers : pc[c] \notin {"answered", "ok"} => val[c] = NoValue

\* What a hit returned was good for the slack when it was returned.
HitInv ==
  \A c \in Callers : pc[c] = "ok" /\ grant[c].hit =>
    val[c].expires = NoExpiry \/ grant[c].at + Slack < val[c].expires

IInv ==
  /\ TypeOK /\ MutexInv /\ SerialInv /\ ValInv /\ HitInv /\ ResolveStillDue

-----------------------------------------------------------------------------
(* Expiry. *)

\* An expiry is a point in time, or 0 for none.
LEMMA ExpiryTyped == ASSUME NEW v \in Value PROVE v.expires \in Nat
<1>1. v.expires \in Expiries \cup {0}
  BY DEF Value, NoExpiry
<1>2. Expiries \subseteq Nat
  BY CredentialsAssumption DEF CredentialsAssumption
<1>3. \A x \in Expiries \cup {0} : x \in Nat
  BY <1>2
<1> QED
  BY <1>1, <1>3, Zenon

\* Time does not make credentials that were due good again (chain.expired).
LEMMA DueStays ==
  ASSUME NEW v \in Value, NEW t \in Nat, NEW u \in Nat, t <= u, Due(v, t)
  PROVE  Due(v, u)
<1>1. v.expires \in Nat
  BY ExpiryTyped
<1>2. t + Slack <= u + Slack /\ t + Slack \in Nat /\ u + Slack \in Nat
  BY BoundsTyped
<1> QED
  BY <1>1, <1>2 DEF Due

\* The zero Value of Retrieve's error returns is a Value.
LEMMA NoValueTyped == NoValue \in Value
BY DEF NoValue, Value, NoExpiry

-----------------------------------------------------------------------------
(* The inductive invariant. *)

\* A chain nobody has used satisfies the invariant.
LEMMA InitInv == Init => IInv
<1> SUFFICES ASSUME Init PROVE IInv
  OBVIOUS
<1>1. TypeOK
  <2>1. NoGrant \in [hit : BOOLEAN, at : Nat]
    BY DEF NoGrant
  <2>2. 0 \in 0..MaxTime /\ 0 \in 0..MaxIssued
    BY BoundsTyped
  <2> QED
    BY <2>1, <2>2, NoValueTyped, Zenon DEF Init, TypeOK
<1>2. MutexInv
  BY ChainAssumption DEF ChainAssumption, Init, MutexInv, Holding
<1>3. SerialInv /\ ValInv
  BY DEF Init, SerialInv, ValInv, NoValue
<1>4. HitInv /\ ResolveStillDue
  BY DEF Init, HitInv, ResolveStillDue
<1> QED
  BY <1>1, <1>2, <1>3, <1>4 DEF IInv

\* Every step keeps the types.
LEMMA TypeStep == TypeOK /\ [Next]_vars => TypeOK'
<1> SUFFICES ASSUME TypeOK, [Next]_vars PROVE TypeOK'
  OBVIOUS
<1> USE NoValueTyped, BoundsTyped DEF TypeOK, Holding
<1>1. CASE Tick
  BY <1>1 DEF Tick, chainVars
<1>2. ASSUME NEW c \in Callers, Cancel(c) \/ Renew(c) PROVE TypeOK'
  BY <1>2 DEF Cancel, Renew, chainVars
<1>3. ASSUME NEW c \in Callers, UNCHANGED <<now, ctxDone>>,
             Call(c) \/ Lock(c) \/ Miss(c)
      PROVE  TypeOK'
  BY <1>3 DEF Call, Lock, Miss, Goto
<1>4. ASSUME NEW c \in Callers, UNCHANGED <<now, ctxDone>>, Hit(c) PROVE TypeOK'
  BY <1>4 DEF Hit, Goto, Unlock
<1>5. ASSUME NEW c \in Callers, UNCHANGED <<now, ctxDone>>, Issue(c) PROVE TypeOK'
  BY <1>5 DEF Issue, Goto, Value
<1>6. ASSUME NEW c \in Callers, UNCHANGED <<now, ctxDone>>, Store(c) PROVE TypeOK'
  BY <1>6 DEF Store, Goto, Unlock
<1>7. ASSUME NEW c \in Callers, UNCHANGED <<now, ctxDone>>, Fail(c) PROVE TypeOK'
  BY <1>7 DEF Fail, Unlock
<1>8. ASSUME NEW c \in Callers, UNCHANGED <<now, ctxDone>>, Take(c) PROVE TypeOK'
  BY <1>8 DEF Take, NoGrant
<1>9. CASE UNCHANGED vars
  BY <1>9 DEF vars, chainVars
<1> QED
  BY <1>1, <1>2, <1>3, <1>4, <1>5, <1>6, <1>7, <1>8, <1>9 DEF Next, Advance

\* A step of one call, or a step that the chain's variables do not see.
LEMMA Cases ==
  ASSUME [Next]_vars
  PROVE  \/ UNCHANGED chainVars /\ (Tick \/ UNCHANGED now)
         \/ \E c \in Callers : /\ UNCHANGED <<now, ctxDone>>
                               /\ Call(c) \/ Advance(c) \/ Take(c)
<1>1. CASE Tick
  BY <1>1 DEF Tick
<1>2. ASSUME NEW c \in Callers, Cancel(c) \/ Renew(c)
      PROVE  UNCHANGED chainVars /\ UNCHANGED now
  BY <1>2 DEF Cancel, Renew
<1>3. CASE UNCHANGED vars
  BY <1>3 DEF vars
<1> QED
  BY <1>1, <1>2, <1>3 DEF Next

\* Only the holder of the mutex moves inside the critical section.
LEMMA MutexStep == TypeOK /\ MutexInv /\ [Next]_vars => MutexInv'
<1> SUFFICES ASSUME TypeOK, MutexInv, [Next]_vars PROVE MutexInv'
  OBVIOUS
<1> USE ChainAssumption DEF ChainAssumption, MutexInv, TypeOK, Holding
<1>1. CASE UNCHANGED chainVars
  BY <1>1 DEF chainVars
<1>2. ASSUME NEW c \in Callers, Call(c) \/ Lock(c) \/ Miss(c) PROVE MutexInv'
  BY <1>2 DEF Call, Lock, Miss, Goto
<1>3. ASSUME NEW c \in Callers, Hit(c) \/ Store(c) \/ Fail(c) PROVE MutexInv'
  BY <1>3 DEF Hit, Store, Fail, Goto, Unlock
<1>4. ASSUME NEW c \in Callers, Issue(c) \/ Take(c) PROVE MutexInv'
  BY <1>4 DEF Issue, Take, Goto
<1> QED
  BY <1>1, <1>2, <1>3, <1>4, Cases DEF Advance

\* A new serial is larger than every serial in use.
LEMMA SerialStep == TypeOK /\ SerialInv /\ [Next]_vars => SerialInv'
<1> SUFFICES ASSUME TypeOK, SerialInv, [Next]_vars PROVE SerialInv'
  OBVIOUS
<1> USE DEF SerialInv, TypeOK
<1>0. issued \in Nat /\ NoValue.serial = 0
  BY BoundsTyped DEF NoValue
<1>1. CASE UNCHANGED chainVars
  BY <1>1 DEF chainVars
<1>2. ASSUME NEW c \in Callers, Call(c) \/ Lock(c) \/ Miss(c) PROVE SerialInv'
  BY <1>2 DEF Call, Lock, Miss
<1>3. ASSUME NEW c \in Callers, Hit(c) \/ Store(c) PROVE SerialInv'
  BY <1>3 DEF Hit, Store, Unlock
<1>4. ASSUME NEW c \in Callers, Issue(c) PROVE SerialInv'
  <2>1. issued' = issued + 1 /\ cached' = cached
    BY <1>4 DEF Issue
  <2>2. PICK e : val' = [val EXCEPT ![c] = [serial |-> issued + 1, expires |-> e]]
    BY <1>4 DEF Issue
  <2>3. cached.serial \in Nat /\ \A d \in Callers : val[d].serial \in Nat
    BY DEF Value
  <2>4. ASSUME NEW d \in Callers PROVE val'[d].serial <= issued'
    <3>1. CASE d = c
      <4>1. val'[c].serial = issued + 1
        BY <2>2
      <4> QED
        BY <4>1, <3>1, <2>1, <1>0
    <3>2. CASE d # c
      <4>1. val'[d] = val[d]
        BY <2>2, <3>2
      <4>2. val[d].serial <= issued
        OBVIOUS
      <4> QED
        BY <4>1, <4>2, <2>1, <2>3, <1>0
    <3> QED
      BY <3>1, <3>2
  <2>5. cached'.serial <= issued'
    BY <2>1, <2>3, <1>0
  <2> QED
    BY <2>4, <2>5
<1>5. ASSUME NEW c \in Callers, Fail(c) \/ Take(c) PROVE SerialInv'
  BY <1>0, <1>5 DEF Fail, Take, Unlock
<1> QED
  BY <1>1, <1>2, <1>3, <1>4, <1>5, Cases DEF Advance

\* Nobody but the answered and the served has a value.
LEMMA ValStep == TypeOK /\ ValInv /\ [Next]_vars => ValInv'
<1> SUFFICES ASSUME TypeOK, ValInv, [Next]_vars PROVE ValInv'
  OBVIOUS
<1> USE DEF ValInv, TypeOK, Holding
<1>1. CASE UNCHANGED chainVars
  BY <1>1 DEF chainVars
<1>2. ASSUME NEW c \in Callers, Call(c) \/ Lock(c) \/ Miss(c) PROVE ValInv'
  BY <1>2 DEF Call, Lock, Miss, Goto
<1>3. ASSUME NEW c \in Callers, Hit(c) \/ Store(c) \/ Issue(c) PROVE ValInv'
  BY <1>3 DEF Hit, Store, Issue, Goto, Unlock
<1>4. ASSUME NEW c \in Callers, Fail(c) \/ Take(c) PROVE ValInv'
  BY <1>4 DEF Fail, Take, Unlock
<1> QED
  BY <1>1, <1>2, <1>3, <1>4, Cases DEF Advance

\* A value that leaves the cache is good for the slack at that moment.
LEMMA HitStep == TypeOK /\ HitInv /\ [Next]_vars => HitInv'
<1> SUFFICES ASSUME TypeOK, HitInv, [Next]_vars PROVE HitInv'
  OBVIOUS
<1> USE DEF HitInv, TypeOK, Holding
<1>1. CASE UNCHANGED chainVars
  BY <1>1 DEF chainVars
<1>2. ASSUME NEW c \in Callers, Call(c) \/ Lock(c) \/ Miss(c) \/ Issue(c)
      PROVE  HitInv'
  BY <1>2 DEF Call, Lock, Miss, Issue, Goto
<1>3. ASSUME NEW c \in Callers, Hit(c) PROVE HitInv'
  BY <1>3 DEF Hit, Goto, Unlock, Due
<1>4. ASSUME NEW c \in Callers, Store(c) PROVE HitInv'
  BY <1>4 DEF Store, Goto, Unlock
<1>5. ASSUME NEW c \in Callers, Fail(c) \/ Take(c) PROVE HitInv'
  BY <1>5 DEF Fail, Take, Unlock, NoGrant
<1> QED
  BY <1>1, <1>2, <1>3, <1>4, <1>5, Cases DEF Advance

\* The cache that was due when resolve was entered is due until the answer is
\* stored: time only makes it worse, and nobody else can write it.
LEMMA DueStep ==
  TypeOK /\ MutexInv /\ SerialInv /\ ResolveStillDue /\ [Next]_vars
    => ResolveStillDue'
<1> SUFFICES ASSUME TypeOK, MutexInv, SerialInv, ResolveStillDue, [Next]_vars
             PROVE  ResolveStillDue'
  OBVIOUS
<1> USE DEF ResolveStillDue, TypeOK
<1>1. CASE UNCHANGED chainVars /\ (Tick \/ UNCHANGED now)
  <2>1. CASE UNCHANGED <<chainVars, now>>
    BY <2>1 DEF chainVars, Due
  <2>2. CASE UNCHANGED chainVars /\ Tick
    <3>1. now \in Nat /\ now' \in Nat /\ now <= now'
      BY <2>2, BoundsTyped DEF Tick
    <3>2. Due(cached, now) => Due(cached, now')
      BY <3>1, DueStays
    <3>3. UNCHANGED <<have, cached, pc, val>>
      BY <2>2 DEF chainVars
    <3>4. Due(cached, now') = Due(cached, now)'
      BY <3>3 DEF Due
    <3> QED
      BY <3>2, <3>3, <3>4
  <2> QED
    BY <1>1, <2>1, <2>2
<1>2. ASSUME NEW c \in Callers, UNCHANGED <<now, ctxDone>>,
             Call(c) \/ Lock(c) \/ Hit(c) \/ Take(c) \/ Fail(c)
      PROVE  ResolveStillDue'
  BY <1>2 DEF Call, Lock, Hit, Take, Fail, Goto, Unlock, Due
<1>3. ASSUME NEW c \in Callers, UNCHANGED <<now, ctxDone>>, Miss(c)
      PROVE  ResolveStillDue'
  BY <1>3 DEF Miss, Goto, Due
<1>4. ASSUME NEW c \in Callers, UNCHANGED <<now, ctxDone>>, Issue(c)
      PROVE  ResolveStillDue'
  <2>1. PICK e : val' = [val EXCEPT ![c] = [serial |-> issued + 1, expires |-> e]]
    BY <1>4 DEF Issue
  <2>2. val'[c].serial > cached.serial
    <3>1. val'[c].serial = issued + 1
      BY <2>1
    <3>2. issued \in Nat /\ cached.serial \in Nat /\ cached.serial <= issued
      BY BoundsTyped DEF SerialInv, Value
    <3> QED
      BY <3>1, <3>2
  <2>3. \A d \in Callers : d # c => val'[d] = val[d] /\ pc'[d] = pc[d]
    BY <1>4, <2>1 DEF Issue, Goto
  <2>4. pc[c] = "resolving" /\ UNCHANGED <<have, cached, now>>
    BY <1>4 DEF Issue, Goto
  <2> QED
    BY <2>2, <2>3, <2>4 DEF Due
<1>5. ASSUME NEW c \in Callers, UNCHANGED <<now, ctxDone>>, Store(c)
      PROVE  ResolveStillDue'
  <2>1. ASSUME NEW d \in Callers PROVE pc'[d] \notin {"resolving", "answered"}
    BY <1>5 DEF Store, Goto, MutexInv, Holding
  <2> QED
    BY <2>1
<1> QED
  BY <1>1, <1>2, <1>3, <1>4, <1>5, Cases DEF Advance

\* Every step keeps the invariant.
LEMMA InvStep == IInv /\ [Next]_vars => IInv'
BY TypeStep, MutexStep, SerialStep, ValStep, HitStep, DueStep DEF IInv

\* The inductive invariant holds of every behaviour of Retrieve.
THEOREM Invariance == Spec => []IInv
BY InitInv, InvStep, PTL DEF Spec

-----------------------------------------------------------------------------
(* What follows from it. *)

\* The state of the chain and of its callers is as declared, for any number of
\* goroutines.
THEOREM TypeCorrect == Spec => []TypeOK
<1>1. IInv => TypeOK
  BY DEF IInv
<1> QED
  BY <1>1, Invariance, PTL

\* chain.mu keeps every caller but one out of resolve.
THEOREM SingleRefresh == Spec => []OneResolver
<1>1. IInv => OneResolver
  BY DEF IInv, MutexInv, OneResolver, Holding
<1> QED
  BY <1>1, Invariance, PTL

\* The decision to refresh is not overtaken by events while resolve runs, and
\* the cache never goes back to older credentials.
THEOREM RefreshStillDue == Spec => []ResolveStillDue
<1>1. IInv => ResolveStillDue
  BY DEF IInv
<1> QED
  BY <1>1, Invariance, PTL

\* Credentials out of the cache stay valid for the slack after they are handed
\* out, whatever the clock and the expiry times.
THEOREM CacheHitUsable == Spec => []HitUsableForSlack
<1>1. IInv => HitUsableForSlack
  <2> SUFFICES ASSUME IInv, NEW c \in Callers, pc[c] = "ok", grant[c].hit,
                      now <= grant[c].at + Slack, val[c].expires # NoExpiry
               PROVE  now < val[c].expires
    BY DEF HitUsableForSlack
  <2>1. grant[c].at + Slack < val[c].expires
    BY DEF IInv, HitInv
  <2>2. val[c] \in Value /\ grant[c].at \in Nat /\ now \in Nat
    BY BoundsTyped DEF IInv, TypeOK
  <2>3. val[c].expires \in Nat
    BY <2>2, ExpiryTyped
  <2> QED
    BY <2>1, <2>2, <2>3, BoundsTyped
<1> QED
  BY <1>1, Invariance, PTL

\* What is cached is replaced only when it is due, and by newer credentials: an
\* error, a lost answer or an answer that was overtaken never puts anything there.
THEOREM CacheOnlyRenewed ==
  Spec => [][cached' # cached =>
               /\ ~(have /\ ~Due(cached, now))
               /\ have' /\ cached'.serial > cached.serial]_vars
<1>1. ASSUME IInv, Next, cached' # cached
      PROVE  ~(have /\ ~Due(cached, now)) /\ have' /\ cached'.serial > cached.serial
  <2>1. PICK c \in Callers : Store(c)
    BY <1>1 DEF Next, Tick, Cancel, Renew, Call, Take, Advance, Lock, Hit, Miss, Issue,
       Fail, chainVars
  <2> QED
    BY <1>1, <2>1 DEF Store, Goto, IInv, ResolveStillDue
<1>2. IInv /\ [Next]_vars =>
        [cached' # cached => /\ ~(have /\ ~Due(cached, now))
                             /\ have' /\ cached'.serial > cached.serial]_vars
  BY <1>1
<1> QED
  BY <1>2, Invariance, PTL DEF Spec

-----------------------------------------------------------------------------
(* CredChain implements CredProvider. *)

\* CredProvider speaks of the same values and of the same expiry.
LEMMA SameCredentials ==
  /\ Promise!NoValue = NoValue /\ Promise!Value = Value
  /\ \A v, t : Promise!Due(v, t) <=> Due(v, t)
BY DEF Promise!NoValue, Promise!Value, Promise!Due, Promise!NoExpiry,
       NoValue, Value, Due, NoExpiry

\* Initially nobody has called and nothing is cached.
LEMMA RefineInit == Init => Promise!Init
<1> SUFFICES ASSUME Init PROVE Promise!Init
  OBVIOUS
<1>1. now \in Nat /\ have = FALSE /\ cached = NoValue
  BY DEF Init
<1>2. callBar = [c \in Callers |-> "idle"]
  BY DEF Init, callBar
<1>3. valBar = [c \in Callers |-> NoValue]
  BY DEF Init, valBar
<1> QED
  BY <1>1, <1>2, <1>3, SameCredentials DEF Promise!Init

\* A step of one call that CredProvider sees.
LEMMA MapStep ==
  ASSUME TypeOK, NEW c \in Callers, NEW to \in {"idle", "ok", "failed"}, NEW v,
         pc' = [pc EXCEPT ![c] = to], val' = [val EXCEPT ![c] = v]
  PROVE  /\ callBar' = [callBar EXCEPT ![c] = to]
         /\ valBar' = [valBar EXCEPT ![c] = v]
BY DEF TypeOK, callBar, valBar

\* A call inside Retrieve is a pending call.
LEMMA MapPending ==
  ASSUME NEW c \in Callers, pc[c] \in Holding \cup {"blocked"}
  PROVE  callBar[c] = "pending"
BY DEF callBar, Holding

\* Retrieve that is served from the cache reuses the current value.
LEMMA RefineHit ==
  ASSUME IInv, NEW c \in Callers, Hit(c), UNCHANGED now
  PROVE  Promise!Reuse(c)
<1>1. callBar' = [callBar EXCEPT ![c] = "ok"] /\ valBar' = [valBar EXCEPT ![c] = cached]
  BY MapStep DEF IInv, Hit, Goto, Unlock
<1>2. callBar[c] = "pending"
  BY MapPending DEF Hit, Goto, Holding
<1>3. have /\ ~Due(cached, now) /\ UNCHANGED <<now, have, cached>>
  BY DEF Hit
<1> QED
  BY <1>1, <1>2, <1>3, SameCredentials
  DEF Promise!Reuse, Promise!Good, Promise!Finish

\* Retrieve that stores an answer renews the current value.
LEMMA RefineStore ==
  ASSUME IInv, NEW c \in Callers, Store(c), UNCHANGED now
  PROVE  Promise!Renew(c)
<1>1. callBar' = [callBar EXCEPT ![c] = "ok"] /\ valBar' = [valBar EXCEPT ![c] = val[c]]
  BY MapStep DEF IInv, Store, Goto, Unlock
<1>2. callBar[c] = "pending"
  BY MapPending DEF Store, Goto, Holding
<1>3. cached' = val[c] /\ have' = TRUE /\ val[c] \in Value
  BY DEF Store, IInv, TypeOK
<1>4. ~(have /\ ~Due(cached, now)) /\ val[c].serial > cached.serial
  BY DEF Store, Goto, IInv, ResolveStillDue
<1> QED
  BY <1>1, <1>2, <1>3, <1>4, SameCredentials
  DEF Promise!Renew, Promise!Good, Promise!Finish

\* Retrieve whose resolution fails is refused, the value being due.
LEMMA RefineFail ==
  ASSUME IInv, NEW c \in Callers, Fail(c), UNCHANGED now
  PROVE  Promise!Refuse(c)
<1>1. callBar' = [callBar EXCEPT ![c] = "failed"] /\ valBar' = [valBar EXCEPT ![c] = NoValue]
  BY MapStep DEF IInv, Fail, Unlock
<1>2. callBar[c] = "pending"
  BY MapPending DEF Fail, Holding
<1>3. ~(have /\ ~Due(cached, now)) /\ UNCHANGED <<have, cached>>
  BY DEF Fail, IInv, ResolveStillDue
<1> QED
  BY <1>1, <1>2, <1>3, SameCredentials
  DEF Promise!Refuse, Promise!Good, Promise!Finish

\* The caller takes from the provider what it takes from the chain.
LEMMA RefineTake ==
  ASSUME IInv, NEW c \in Callers, Take(c), UNCHANGED now
  PROVE  Promise!Take(c)
<1>1. callBar' = [callBar EXCEPT ![c] = "idle"] /\ valBar' = [valBar EXCEPT ![c] = NoValue]
  BY MapStep DEF IInv, Take
<1>2. callBar[c] \in {"ok", "failed"} /\ UNCHANGED <<now, have, cached>>
  BY DEF Take, callBar
<1> QED
  BY <1>1, <1>2, SameCredentials DEF Promise!Take

\* A call of the chain is a call of the provider.
LEMMA RefineCall ==
  ASSUME IInv, NEW c \in Callers, Call(c), UNCHANGED now
  PROVE  Promise!Call(c)
<1>1. callBar' = [callBar EXCEPT ![c] = "pending"]
  BY DEF Call, Goto, callBar, IInv, TypeOK
<1>2. callBar[c] = "idle"
  BY DEF Call, Goto, callBar
<1>3. valBar' = valBar
  BY DEF Call, Goto, valBar, IInv, TypeOK
<1> QED
  BY <1>1, <1>2, <1>3 DEF Call, Promise!Call

\* The steps between: the mutex is taken, resolve is entered, an answer comes.
LEMMA RefineInside ==
  ASSUME IInv, NEW c \in Callers, Lock(c) \/ Miss(c) \/ Issue(c), UNCHANGED now
  PROVE  UNCHANGED Promise!vars
<1>1. callBar' = callBar
  BY DEF Lock, Miss, Issue, Goto, callBar, IInv, TypeOK
<1>2. CASE Lock(c) \/ Miss(c)
  <2>1. valBar' = valBar
    BY <1>2 DEF Lock, Miss, Goto, valBar, IInv, TypeOK
  <2> QED
    BY <1>1, <1>2, <2>1 DEF Lock, Miss, Promise!vars
<1>3. CASE Issue(c)
  <2>1. val[c] = NoValue
    BY <1>3 DEF Issue, Goto, IInv, ValInv
  <2>2. PICK e : val' = [val EXCEPT ![c] = [serial |-> issued + 1, expires |-> e]]
    BY <1>3 DEF Issue
  <2>3. valBar' = valBar
    BY <1>3, <2>1, <2>2 DEF Issue, Goto, valBar, IInv, TypeOK
  <2> QED
    BY <1>1, <1>3, <2>3 DEF Issue, Promise!vars
<1> QED
  BY <1>2, <1>3

\* The clock of CredProvider is that of the chain.
LEMMA RefineTick == IInv /\ Tick => Promise!Tick
<1> SUFFICES ASSUME IInv, Tick PROVE Promise!Tick
  OBVIOUS
<1>1. now' \in Nat /\ now' > now
  BY BoundsTyped DEF Tick, IInv, TypeOK
<1>2. UNCHANGED <<have, cached, callBar, valBar>>
  BY DEF Tick, chainVars, callBar, valBar
<1> QED
  BY <1>1, <1>2 DEF Promise!Tick

\* Every step of the chain is a step of the provider or changes nothing it shows.
LEMMA RefineStep == IInv /\ [Next]_vars => [Promise!Next]_(Promise!vars)
<1> SUFFICES ASSUME IInv, [Next]_vars PROVE [Promise!Next]_(Promise!vars)
  OBVIOUS
<1>1. CASE Tick
  BY <1>1, RefineTick DEF Promise!Next
<1>2. CASE UNCHANGED <<chainVars, now>>
  BY <1>2 DEF chainVars, Promise!vars, callBar, valBar
<1>3. ASSUME NEW c \in Callers, UNCHANGED <<now, ctxDone>>,
             Call(c) \/ Advance(c) \/ Take(c)
      PROVE  [Promise!Next]_(Promise!vars)
  <2>1. CASE Lock(c) \/ Miss(c) \/ Issue(c)
    BY <1>3, <2>1, RefineInside
  <2>2. \/ Promise!Call(c) \/ Promise!Reuse(c) \/ Promise!Renew(c)
        \/ Promise!Refuse(c) \/ Promise!Take(c)
        \/ Lock(c) \/ Miss(c) \/ Issue(c)
    BY <1>3, RefineCall, RefineHit, RefineStore, RefineFail, RefineTake DEF Advance
  <2> QED
    BY <2>1, <2>2 DEF Promise!Next
<1>4. ASSUME NEW c \in Callers, Cancel(c) \/ Renew(c)
      PROVE  UNCHANGED <<chainVars, now>>
  BY <1>4 DEF Cancel, Renew
<1> QED
  BY <1>1, <1>2, <1>3, <1>4 DEF Next, vars

\* The mutex, the cache and the slow resolution together are as good as answering
\* each call in one indivisible step: Retrieve keeps what creds.Provider promises.
THEOREM KeepsPromise == Spec => PromiseKept
<1>1. Init => Promise!Init
  BY RefineInit
<1>2. IInv /\ [Next]_vars => [Promise!Next]_(Promise!vars)
  BY RefineStep
<1> QED
  BY <1>1, <1>2, Invariance, PTL DEF Spec, PromiseKept, Promise!Spec
=============================================================================
