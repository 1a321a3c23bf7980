---------------------------- MODULE ConverseProofs ----------------------------
(***************************************************************************)
(* Proofs about Converse: for any number of concurrent calls, any server   *)
(* and any retry limit and back-off, the calls use the credential chain as *)
(* CredChain says, requests are bounded and fresh, response bodies are     *)
(* closed, and the result is the verdict on the last response.             *)
(***************************************************************************)
EXTENDS Converse, TLAPS

\* The proofs about the credential chain, for the calls of ConverseStream.
ChainProofs == INSTANCE CredChainProofs WITH Callers <- Calls

\* The constants satisfy what CredChain assumes of its own.
LEMMA ChainConstants ==
  /\ Slack \in Nat /\ Expiries \subseteq Nat \ {0}
  /\ Nobody \notin Calls /\ MaxTime \in Nat /\ MaxIssued \in Nat
BY CredentialsAssumption, ConverseAssumption
DEF CredentialsAssumption, ConverseAssumption

-----------------------------------------------------------------------------
(* Converse implements CredChain. *)

\* The calls of ConverseStream do to the chain what CredChain's callers do.
LEMMA ChainStep == [Next]_vars => [Chain!Next]_(Chain!vars)
<1> SUFFICES ASSUME [Next]_vars PROVE [Chain!Next]_(Chain!vars)
  OBVIOUS
<1>1. CASE Environment
  BY <1>1 DEF Environment, Chain!Next
<1>2. ASSUME NEW c \in Calls, Step(c) PROVE [Chain!Next]_(Chain!vars)
  <2>1. CASE UNCHANGED chainVars
    BY <1>2, <2>1 DEF Step, chainVars, Chain!vars, Chain!chainVars
  <2>2. CASE Joint(c)
    BY <1>2, <2>2 DEF Step, Joint, BuildSigned, Sign, NoCredentials, Chain!Next
  <2> QED
    BY <1>2, <2>1, <2>2 DEF Step
<1>3. CASE UNCHANGED vars
  BY <1>3 DEF vars, chainVars, Chain!vars, Chain!chainVars
<1> QED
  BY <1>1, <1>2, <1>3 DEF Next

\* Concurrent calls of ConverseStream are callers of the credential chain:
\* whatever a call does with its request, Retrieve is entered once per signed
\* attempt, its result is used once, and the cache is touched by nothing else.
THEOREM ImplementsChain == Spec => Chain!Spec
<1>1. Init => Chain!Init
  BY DEF Init
<1> QED
  BY <1>1, ChainStep, PTL DEF Spec, Chain!Spec

\* The chain of Converse and the chain of its proofs are the same.
LEMMA SameChain ==
  /\ Chain!TypeOK <=> ChainProofs!TypeOK
  /\ Chain!ResolveStillDue <=> ChainProofs!ResolveStillDue
  /\ Chain!OneResolver <=> ChainProofs!OneResolver
<1>1. Chain!Value = ChainProofs!Value /\ Chain!Holding = ChainProofs!Holding
  BY DEF Chain!Value, ChainProofs!Value, Chain!NoExpiry, ChainProofs!NoExpiry,
         Chain!Holding, ChainProofs!Holding
<1>2. \A v, t : Chain!Due(v, t) <=> ChainProofs!Due(v, t)
  BY DEF Chain!Due, ChainProofs!Due, Chain!NoExpiry, ChainProofs!NoExpiry
<1> QED
  BY <1>1, <1>2
  DEF Chain!TypeOK, ChainProofs!TypeOK, Chain!OneResolver, ChainProofs!OneResolver,
      Chain!ResolveStillDue, ChainProofs!ResolveStillDue

\* The chain inside a call and the chain the proofs speak of are one specification.
LEMMA SameChainSpec == Chain!Spec => ChainProofs!Spec
<1>1. Chain!Init => ChainProofs!Init
  BY DEF Chain!Init, ChainProofs!Init, Chain!NoValue, ChainProofs!NoValue,
    Chain!NoExpiry, ChainProofs!NoExpiry, Chain!NoGrant, ChainProofs!NoGrant
<1>2. [Chain!Next]_(Chain!vars) => [ChainProofs!Next]_(ChainProofs!vars)
  BY DEF Chain!Next, ChainProofs!Next, Chain!vars, ChainProofs!vars,
      Chain!chainVars, ChainProofs!chainVars, Chain!Tick,
      ChainProofs!Tick, Chain!Cancel, ChainProofs!Cancel, Chain!Renew,
      ChainProofs!Renew, Chain!Call, ChainProofs!Call, Chain!Advance,
      ChainProofs!Advance, Chain!Take, ChainProofs!Take, Chain!Lock,
      ChainProofs!Lock, Chain!Hit, ChainProofs!Hit, Chain!Miss,
      ChainProofs!Miss, Chain!Issue, ChainProofs!Issue, Chain!Store,
      ChainProofs!Store, Chain!Fail, ChainProofs!Fail, Chain!Goto,
      ChainProofs!Goto, Chain!Unlock, ChainProofs!Unlock, Chain!Due,
      ChainProofs!Due, Chain!NoExpiry, ChainProofs!NoExpiry,
      Chain!NoValue, ChainProofs!NoValue, Chain!NoGrant,
      ChainProofs!NoGrant
<1> QED
  BY <1>1, <1>2, PTL DEF Chain!Spec, ChainProofs!Spec

\* chain.mu keeps concurrent calls of ConverseStream from refreshing together,
\* and the verdict that led into a refresh is right when its answer arrives.
THEOREM ChainInvariants ==
  Spec => [](Chain!TypeOK /\ Chain!ResolveStillDue /\ Chain!OneResolver)
<1>1. ChainProofs!Spec => []ChainProofs!TypeOK
  BY ChainConstants, ChainProofs!TypeCorrect
<1>2. ChainProofs!Spec => []ChainProofs!ResolveStillDue
  BY ChainConstants, ChainProofs!RefreshStillDue
<1>3. ChainProofs!Spec => []ChainProofs!OneResolver
  BY ChainConstants, ChainProofs!SingleRefresh
<1> QED
  BY <1>1, <1>2, <1>3, ImplementsChain, SameChainSpec, SameChain, PTL

-----------------------------------------------------------------------------
(* The inductive invariant, one call at a time. *)

Attempts == 0..Retries
Readers == {"full", "empty"}
Signature == [serial : Nat, at : Nat]
Response == [status : Nat, after : RetryAfters \cup {NoResponse.after}]

CallState ==
  [st : States, attempt : Attempts, reader : Readers, sig : Signature,
   resp : Response, open : BOOLEAN, timer : Int, out : Outcomes]

History ==
  [sends : Nat, late : Nat, notBefore : Int, woke : Nat, floor : Nat]

\* The loop: a result only at its end, and a back-off only before a retry.
LoopInv(c) ==
  /\ At(c, "idle") => call[c].attempt = 0
  /\ call[c].out = "none" <=> ~At(c, "done")
  /\ call[c].st \in {"drain", "sleep"} => AttemptsRemain(c)

\* BodyAccounted, of one call.
BodyInv(c) ==
  call[c].open <=> \/ call[c].st \in {"responded", "drain", "readbody"}
                   \/ call[c].out = "stream"

\* One request for each attempt, from the moment it is sent.
SendsInv(c) ==
  /\ hist[c].sends <= call[c].attempt + 1
  /\ call[c].st \in {"idle", "build", "retrieve", "send"} =>
       hist[c].sends <= call[c].attempt

\* An attempt begun late is refused by the HTTP client and not repeated.
LateInv(c) ==
  hist[c].late > 0 =>
    /\ hist[c].late = 1 /\ ctxDone[c]
    /\ call[c].st \in {"build", "retrieve", "send", "errored", "done"}

\* The verdict on an error response, from the moment it is taken.
Rejected(c) ==
  /\ call[c].resp.status \notin 200..299
  /\ \/ setup.custom \/ call[c].resp.status \notin {429} \cup 500..599
     \/ call[c].attempt = Retries

VerdictInv(c) ==
  /\ call[c].out \in {"stream", "closed"} => call[c].resp.status \in 200..299
  /\ At(c, "readbody") \/ call[c].out = "apierror" => Rejected(c)
  /\ At(c, "drain") => setup.custom \/ call[c].resp.status \notin 200..299

\* What this attempt has so far belongs to this attempt.
FreshInv(c) ==
  /\ hist[c].woke <= now /\ hist[c].floor <= cached.serial
  /\ ~At(c, "retrieve") => pc[c] = "idle"
  /\ pc[c] = "ok" => val[c].serial > 0 /\ val[c].serial >= hist[c].floor
  /\ call[c].st \in {"retrieve", "send", "inflight"} => call[c].reader = "full"
  /\ call[c].st \in {"send", "inflight"} /\ ~setup.bearer =>
       /\ call[c].sig.at >= hist[c].woke
       /\ call[c].sig.serial > 0
       /\ call[c].sig.serial >= hist[c].floor

\* The cache is empty or holds issued credentials.
CacheInv == have => cached.serial > 0

LocalInv == \A c \in Calls :
  LoopInv(c) /\ BodyInv(c) /\ SendsInv(c) /\ LateInv(c) /\ VerdictInv(c)

-----------------------------------------------------------------------------
(* Which steps there are. *)

\* A step of the loop of call c, alone or with the chain.
Own(c) == Local(c) \/ BuildSigned(c) \/ Sign(c) \/ NoCredentials(c)

\* The loop of one call moves, or no loop does.
LEMMA Cases ==
  ASSUME [Next]_vars
  PROVE  /\ setup' = setup
         /\ \/ UNCHANGED <<call, hist>>
            \/ \E c \in Calls :
                 /\ Own(c) /\ UNCHANGED <<now, ctxDone>>
                 /\ \/ UNCHANGED chainVars
                    \/ BuildSigned(c) \/ Sign(c) \/ NoCredentials(c)
BY DEF Next, Environment, Step, Joint, Own, vars

\* A context that has ended stays ended.
LEMMA ContextStays ==
  ASSUME TypeOK, [Next]_vars, NEW c \in Calls, ctxDone[c]
  PROVE  ctxDone'[c]
<1>1. ctxDone \in [Calls -> BOOLEAN]
  BY DEF TypeOK, Chain!TypeOK
<1>2. UNCHANGED ctxDone \/ \E d \in Calls : ctxDone' = [ctxDone EXCEPT ![d] = TRUE]
  BY DEF Next, Environment, Step, Chain!Tick, Chain!Cancel, vars
<1> QED
  BY <1>1, <1>2

\* The types that the proofs about one call use.
LEMMA CallTyped ==
  ASSUME TypeOK
  PROVE  call \in [Calls -> CallState] /\ hist \in [Calls -> History]
BY DEF TypeOK, CallState, History, Attempts, Readers, Signature, Response

\* ... field by field.
LEMMA FieldsTyped ==
  ASSUME TypeOK, NEW c \in Calls
  PROVE  /\ call[c].attempt \in Int /\ 0 <= call[c].attempt /\ call[c].attempt <= Retries
         /\ call[c].resp.status \in Nat
         /\ call[c].resp.after \in RetryAfters \cup {NoResponse.after}
         /\ call[c].timer \in Int
         /\ call[c].sig.at \in Nat /\ call[c].sig.serial \in Nat
         /\ hist[c].sends \in Nat /\ hist[c].late \in Nat
         /\ hist[c].woke \in Nat /\ hist[c].floor \in Nat /\ hist[c].notBefore \in Int
<1>1. call[c] \in CallState /\ hist[c] \in History
  BY CallTyped
<1>2. Retries \in Nat
  BY ConverseAssumption DEF ConverseAssumption, Retries
<1>3. call[c].attempt \in Attempts /\ call[c].timer \in Int
  BY <1>1 DEF CallState
<1>4. call[c].resp \in Response /\ call[c].sig \in Signature
  BY <1>1 DEF CallState
<1>5. call[c].resp.status \in Nat /\ call[c].resp.after \in RetryAfters \cup {NoResponse.after}
  BY <1>4 DEF Response
<1>6. call[c].sig.at \in Nat /\ call[c].sig.serial \in Nat
  BY <1>4 DEF Signature
<1> QED
  BY <1>1, <1>2, <1>3, <1>5, <1>6 DEF Attempts, History

\* The values that the loop assigns.
LEMMA Names ==
  /\ "full" \in Readers /\ "empty" \in Readers
  /\ "build" \in States /\ "retrieve" \in States /\ "send" \in States
  /\ "inflight" \in States /\ "errored" \in States /\ "responded" \in States
  /\ "drain" \in States /\ "sleep" \in States /\ "readbody" \in States
  /\ "done" \in States
  /\ \A s \in {"invalid", "request", "credentials", "sign", "transport",
             "cancelled", "apierror", "stream", "closed"} : s \in Outcomes
BY DEF States, Outcomes, Readers

\* The steps of the loop by their part in it.
Prepare(c) ==
  \/ Begin(c) \/ BadEndpoint(c) \/ BuildBearer(c)
  \/ BuildSigned(c) \/ Sign(c) \/ NoCredentials(c)
Exchange(c) == Refused(c) \/ Send(c) \/ Lost(c) \/ Respond(c)
Retry(c) == RetryError(c) \/ RetryResponse(c) \/ Drained(c) \/ Woken(c)
Finish(c) ==
  GiveUp(c) \/ Accept(c) \/ BodyRead(c) \/ Interrupted(c) \/ CloseStream(c)

\* A step of a call's own loop belongs to one of its four phases.
LEMMA Parts ==
  ASSUME NEW c, Own(c) PROVE Prepare(c) \/ Exchange(c) \/ Retry(c) \/ Finish(c)
BY DEF Own, Local, Prepare, Exchange, Retry, Finish

\* A step of the loop of c is a step of that loop only.
LEMMA OneCall ==
  ASSUME TypeOK, NEW c \in Calls, Own(c), NEW d \in Calls, d # c
  PROVE  call'[d] = call[d] /\ hist'[d] = hist[d]
<1> USE CallTyped DEF Return, NextAttempt, Sleep
<1>1. CASE Prepare(c)
  BY <1>1 DEF Prepare, Begin, BadEndpoint, BuildBearer, BuildSigned, Sign, NoCredentials
<1>2. CASE Exchange(c)
  BY <1>2 DEF Exchange, Refused, Send, Lost, Respond
<1>3. CASE Retry(c)
  BY <1>3 DEF Retry, RetryError, RetryResponse, Drained, Woken
<1>4. CASE Finish(c)
  BY <1>4 DEF Finish, GiveUp, Accept, BodyRead, Interrupted, CloseStream
<1> QED
  BY <1>1, <1>2, <1>3, <1>4, Parts

-----------------------------------------------------------------------------
(* Each part of the invariant is kept by the loop of its call. *)

\* The loop reaches a back-off only with attempts left, a result only at its end.
LEMMA LoopStep ==
  ASSUME TypeOK, NEW c \in Calls, LoopInv(c), Own(c)
  PROVE  LoopInv(c)'
<1> USE CallTyped DEF LoopInv, AttemptsRemain, At, Return, NextAttempt, Sleep, CallState
<1>1. CASE Prepare(c)
  BY <1>1 DEF Prepare, Begin, BadEndpoint, BuildBearer, BuildSigned, Sign, NoCredentials
<1>2. CASE Exchange(c)
  BY <1>2 DEF Exchange, Refused, Send, Lost, Respond
<1>3. CASE Retry(c)
  BY <1>3 DEF Retry, RetryError, RetryResponse, Drained, Woken
<1>4. CASE Finish(c)
  BY <1>4 DEF Finish, GiveUp, Accept, BodyRead, Interrupted, CloseStream
<1> QED
  BY <1>1, <1>2, <1>3, <1>4, Parts

\* Every way out of the loop closes the body, except the way with a Stream.
LEMMA BodyStep ==
  ASSUME TypeOK, NEW c \in Calls, LoopInv(c), BodyInv(c), Own(c)
  PROVE  BodyInv(c)'
<1> USE CallTyped DEF LoopInv, BodyInv, At, Return, NextAttempt, Sleep, CallState
<1>1. CASE Prepare(c)
  BY <1>1 DEF Prepare, Begin, BadEndpoint, BuildBearer, BuildSigned, Sign, NoCredentials
<1>2. CASE Exchange(c)
  BY <1>2 DEF Exchange, Refused, Send, Lost, Respond
<1>3. CASE Retry(c)
  BY <1>3 DEF Retry, RetryError, RetryResponse, Drained, Woken
<1>4. CASE Finish(c)
  BY <1>4 DEF Finish, GiveUp, Accept, BodyRead, Interrupted, CloseStream
<1> QED
  BY <1>1, <1>2, <1>3, <1>4, Parts

\* Only Send sends, and only the next attempt sends again.
LEMMA SendsStep ==
  ASSUME TypeOK, NEW c \in Calls, LoopInv(c), SendsInv(c), Own(c)
  PROVE  SendsInv(c)'
<1> USE CallTyped, FieldsTyped DEF SendsInv, LoopInv, History, At, Return, NextAttempt, Sleep, CallState
<1>1. CASE Prepare(c)
  BY <1>1 DEF Prepare, Begin, BadEndpoint, BuildBearer, BuildSigned, Sign, NoCredentials
<1>2. CASE Exchange(c)
  BY <1>2 DEF Exchange, Refused, Send, Lost, Respond
<1>3. CASE RetryError(c)
  BY <1>3 DEF RetryError
<1>4. CASE RetryResponse(c)
  BY <1>4 DEF RetryResponse
<1>5. CASE Drained(c) \/ Woken(c)
  BY <1>5 DEF Drained, Woken
<1>6. CASE Finish(c)
  BY <1>6 DEF Finish, GiveUp, Accept, BodyRead, Interrupted, CloseStream
<1> QED
  BY <1>1, <1>2, <1>3, <1>4, <1>5, <1>6, Parts DEF Retry

\* Once the context has ended, Send and RetryError are not taken.
LEMMA LateStep ==
  ASSUME TypeOK, NEW c \in Calls, LoopInv(c), LateInv(c), Own(c), UNCHANGED ctxDone
  PROVE  LateInv(c)'
<1> USE CallTyped, FieldsTyped DEF LateInv, LoopInv, History, At, Return, NextAttempt, Sleep, CallState
<1>1. CASE Prepare(c)
  BY <1>1 DEF Prepare, Begin, BadEndpoint, BuildBearer, BuildSigned, Sign, NoCredentials
<1>2. CASE Exchange(c)
  BY SMTT(30), <1>2 DEF Exchange, Refused, Send, Lost, Respond
<1>3. CASE Retry(c)
  <2>1. CASE RetryError(c)
    BY <2>1 DEF RetryError
  <2>2. CASE RetryResponse(c)
    BY <2>2 DEF RetryResponse
  <2>3. CASE Drained(c) \/ Woken(c)
    <3>1. hist[c].late = 0
      BY <2>3 DEF Drained, Woken
    <3> QED
      BY <2>3, <3>1 DEF Drained, Woken
  <2> QED
    BY <1>3, <2>1, <2>2, <2>3 DEF Retry
<1>4. CASE Finish(c)
  BY <1>4 DEF Finish, GiveUp, Accept, BodyRead, Interrupted, CloseStream
<1> QED
  BY <1>1, <1>2, <1>3, <1>4, Parts

\* The class of a status is its first digit.
LEMMA StatusClass == ASSUME NEW s \in Nat PROVE Is2xx(s) <=> s \in 200..299
BY DEF Is2xx

\* When no attempts remain all of them have been made.
LEMMA LastAttempt ==
  ASSUME TypeOK, NEW c \in Calls, ~AttemptsRemain(c)
  PROVE  call[c].attempt = Retries
BY FieldsTyped, ConverseAssumption DEF ConverseAssumption, AttemptsRemain, Retries

\* The verdict is taken on the response at hand, and kept.
LEMMA VerdictStep ==
  ASSUME TypeOK, NEW c \in Calls, LoopInv(c), VerdictInv(c), Own(c), setup' = setup
  PROVE  VerdictInv(c)'
<1> USE CallTyped DEF LoopInv, VerdictInv, Rejected, At, Return, NextAttempt, Sleep, CallState
<1>1. CASE Prepare(c)
  <2>1. CASE Begin(c) \/ BadEndpoint(c) \/ BuildBearer(c)
    BY <2>1 DEF Begin, BadEndpoint, BuildBearer
  <2>2. CASE BuildSigned(c) \/ Sign(c) \/ NoCredentials(c)
    BY <2>2 DEF BuildSigned, Sign, NoCredentials
  <2> QED
    BY <1>1, <2>1, <2>2 DEF Prepare
<1>2. CASE Exchange(c)
  <2>1. CASE Refused(c) \/ Send(c)
    BY <2>1 DEF Refused, Send
  <2>2. CASE Lost(c) \/ Respond(c)
    BY <2>2 DEF Lost, Respond
  <2> QED
    BY <1>2, <2>1, <2>2 DEF Exchange
<1>3. CASE Retry(c)
  <2>1. CASE RetryError(c)
    BY <2>1 DEF RetryError
  <2>2. CASE RetryResponse(c)
    BY <2>2 DEF RetryResponse, MayRetry, DefaultRetry
  <2>3. CASE Drained(c) \/ Woken(c)
    BY <2>3 DEF Drained, Woken
  <2> QED
    BY <1>3, <2>1, <2>2, <2>3 DEF Retry
<1>4. CASE Accept(c)
  <2>1. call[c].out = "none"
    BY <1>4 DEF Accept
  <2>2. Is2xx(call[c].resp.status) <=> call[c].resp.status \in 200..299
    BY FieldsTyped, StatusClass
  <2>3. AttemptsRemain(c) \/ call[c].attempt = Retries
    BY LastAttempt
  <2>4. setup.custom \/ call[c].resp.status \notin {429} \cup 500..599
          \/ call[c].attempt = Retries
    BY <1>4, <2>1, <2>3 DEF Accept, MayDecline, DefaultRetry
  <2>5. CASE Is2xx(call[c].resp.status)
    BY <1>4, <2>1, <2>2, <2>5 DEF Accept
  <2>6. CASE ~Is2xx(call[c].resp.status)
    BY <1>4, <2>1, <2>2, <2>4, <2>6 DEF Accept
  <2> QED
    BY <2>5, <2>6
<1>5. CASE GiveUp(c) \/ BodyRead(c) \/ Interrupted(c) \/ CloseStream(c)
  <2>1. CASE GiveUp(c) \/ BodyRead(c)
    BY <2>1 DEF GiveUp, BodyRead
  <2>2. CASE Interrupted(c) \/ CloseStream(c)
    BY <2>2 DEF Interrupted, CloseStream
  <2> QED
    BY <1>5, <2>1, <2>2
<1> QED
  BY <1>1, <1>2, <1>3, <1>4, <1>5, Parts DEF Finish

-----------------------------------------------------------------------------
(* Types. *)

\* Backoff and Retry-After are durations, whatever the header holds.
LEMMA DelayTyped ==
  ASSUME NEW h \in RetryAfters \cup {NoResponse.after}, NEW t \in Int
  PROVE  RetryDelay(h, t) \in Int
<1>1. h.n \in Int /\ HalfRange \in Int /\ 2 * HalfRange > 0
  BY ConverseAssumption DEF ConverseAssumption, NoResponse
<1>2. ToDuration(h.n) \in Int
  BY <1>1 DEF ToDuration
<1> QED
  BY <1>1, <1>2 DEF RetryDelay

\* As long as a retry remains, its back-off is a number.
LEMMA BackoffTyped ==
  ASSUME TypeOK, NEW c \in Calls, AttemptsRemain(c)
  PROVE  Backoff[call[c].attempt] \in Int
<1>1. call[c].attempt \in 0..(MaxRetries - 1)
  BY FieldsTyped, ConverseAssumption DEF ConverseAssumption, AttemptsRemain
<1> QED
  BY <1>1, ConverseAssumption DEF ConverseAssumption

\* The clock and the serial of the cached value are natural numbers.
LEMMA ClockTyped == TypeOK => now \in Nat /\ cached.serial \in Nat
BY ChainConstants DEF TypeOK, Chain!TypeOK, Chain!Value

\* The next attempt is within the limit.
LEMMA NextTyped ==
  ASSUME TypeOK, NEW c \in Calls, AttemptsRemain(c), NextAttempt(c)
  PROVE  call' \in [Calls -> CallState] /\ hist' \in [Calls -> History]
<1>1. call[c].attempt + 1 \in Attempts
  BY FieldsTyped, ConverseAssumption
  DEF ConverseAssumption, AttemptsRemain, Retries, Attempts
<1>2. call' \in [Calls -> CallState]
  BY ZenonT(30), <1>1, CallTyped, Names DEF NextAttempt, CallState
<1>3. hist' \in [Calls -> History]
  <2>1. hist[c].late \in Nat /\ hist[c].late + 1 \in Nat
    BY FieldsTyped
  <2>2. PICK n \in Nat : hist' = [hist EXCEPT ![c].woke = now,
                             ![c].floor = cached.serial, ![c].late = n]
    BY <2>1, CallTyped DEF NextAttempt, History
  <2> QED
    BY <2>2, CallTyped, ClockTyped DEF History
<1> QED
  BY <1>2, <1>3

\* sleep, whichever arm of its select runs, leaves the locals of a call typed.
LEMMA SleepTyped ==
  ASSUME TypeOK, NEW c \in Calls, AttemptsRemain(c), NEW d \in Int, Sleep(c, d)
  PROVE  call' \in [Calls -> CallState] /\ hist' \in [Calls -> History]
<1>1. CASE NextAttempt(c)
  BY <1>1, NextTyped
<1>2. CASE /\ call' = [call EXCEPT ![c].st = "sleep", ![c].timer = now + d,
                                   ![c].open = FALSE]
           /\ UNCHANGED hist
  <2>1. now + d \in Int
    BY ClockTyped
  <2> QED
    BY ZenonT(30), <1>2, <2>1, CallTyped, Names DEF CallState
<1> QED
  BY <1>1, <1>2 DEF Sleep

\* Every step of a call's own loop leaves its locals and its history typed.
LEMMA OwnTyped ==
  ASSUME TypeOK, NEW c \in Calls, LoopInv(c), Own(c)
  PROVE  call' \in [Calls -> CallState] /\ hist' \in [Calls -> History]
<1> USE CallTyped, ClockTyped, Names DEF Return
<1>1. CASE Prepare(c)
  <2>1. CASE Begin(c) \/ BadEndpoint(c) \/ BuildBearer(c)
    <3>1. call' \in [Calls -> CallState]
      BY <2>1 DEF Begin, BadEndpoint, BuildBearer, CallState
    <3>2. hist' \in [Calls -> History]
      BY <2>1 DEF Begin, BadEndpoint, BuildBearer, History
    <3> QED
      BY <3>1, <3>2
  <2>2. CASE BuildSigned(c) \/ NoCredentials(c)
    BY <2>2 DEF BuildSigned, NoCredentials, CallState
  <2>3. CASE Sign(c)
    <3>1. val[c].serial \in Nat
      BY DEF TypeOK, Chain!TypeOK, Chain!Value
    <3>2. [serial |-> val[c].serial, at |-> now] \in Signature
      BY <3>1 DEF Signature
    <3> QED
      BY <2>3, <3>2 DEF Sign, CallState
  <2> QED
    BY <1>1, <2>1, <2>2, <2>3 DEF Prepare
<1>2. CASE Respond(c)
  <2>1. PICK r \in Response :
          call' = [call EXCEPT ![c].st = "responded", ![c].reader = "empty",
                     ![c].open = TRUE, ![c].resp = r]
    <3>1. PICK s \in Statuses, h \in RetryAfters :
            call' = [call EXCEPT ![c].st = "responded", ![c].reader = "empty",
                     ![c].open = TRUE, ![c].resp = [status |-> s, after |-> h]]
      BY <1>2 DEF Respond
    <3>2. [status |-> s, after |-> h] \in Response
      BY ConverseAssumption DEF ConverseAssumption, Response
    <3> QED
      BY <3>1, <3>2
  <2> DEFINE f == [call EXCEPT ![c].st = "responded", ![c].reader = "empty",
                               ![c].open = TRUE]
  <2>2. f \in [Calls -> CallState]
    BY ZenonT(30) DEF CallState
  <2>3. call' = [f EXCEPT ![c].resp = r]
    BY <2>1
  <2>4. call' \in [Calls -> CallState]
    <3> HIDE DEF f
    <3> QED
      BY <2>2, <2>3 DEF CallState
  <2> QED
    BY <1>2, <2>4 DEF Respond
<1>3. CASE Refused(c) \/ Send(c) \/ Lost(c)
  <2>1. call' \in [Calls -> CallState]
    BY <1>3 DEF Refused, Send, Lost, CallState
  <2>2. hist' \in [Calls -> History]
    BY <1>3 DEF Refused, Send, Lost, History
  <2> QED
    BY <2>1, <2>2
<1>4. CASE RetryError(c)
  BY <1>4, BackoffTyped, SleepTyped DEF RetryError
<1>5. CASE RetryResponse(c)
  <2> DEFINE h == call[c].resp.after
             asked == RetryDelay(h, now)
             delay == IF asked <= 0 THEN Backoff[call[c].attempt] ELSE asked
  <2>1. h \in RetryAfters \cup {NoResponse.after} /\ h.n \in Int
    BY FieldsTyped, ConverseAssumption DEF ConverseAssumption, NoResponse
  <2>2. asked \in Int
    BY <2>1, DelayTyped
  <2>3. delay \in Int
    BY <2>2, <1>5, BackoffTyped DEF RetryResponse
  <2>4. call' = [call EXCEPT ![c].st = "drain", ![c].timer = delay]
    BY <1>5 DEF RetryResponse
  <2>5. call' \in [Calls -> CallState]
    <3> HIDE DEF delay
    <3> QED
      BY <2>3, <2>4 DEF CallState
  <2>6. PICK n \in Int : hist' = [hist EXCEPT ![c].notBefore = n]
    <3>1. now + h.n \in Int
      BY <2>1
    <3> DEFINE m == CASE h.kind = "secs" -> now + h.n
                      [] h.kind = "date" -> h.n
                      [] OTHER -> 0
    <3>2. m \in Int
      BY <2>1, <3>1
    <3>3. hist' = [hist EXCEPT ![c].notBefore = m]
      BY <1>5 DEF RetryResponse
    <3> HIDE DEF m
    <3> QED
      BY <3>2, <3>3
  <2> QED
    BY <2>5, <2>6 DEF History
<1>6. CASE Drained(c)
  <2>1. AttemptsRemain(c) /\ call[c].timer \in Int
    BY <1>6, FieldsTyped DEF Drained, At, LoopInv
  <2> QED
    BY <1>6, <2>1, SleepTyped DEF Drained
<1>7. CASE Woken(c)
  BY <1>7, NextTyped DEF Woken, At, LoopInv
<1>8. CASE Finish(c)
  BY <1>8 DEF Finish, GiveUp, Accept, BodyRead, Interrupted, CloseStream, CallState
<1> QED
  BY <1>1, <1>2, <1>3, <1>4, <1>5, <1>6, <1>7, <1>8, Parts DEF Exchange, Retry

-----------------------------------------------------------------------------
(* The chain under the loop. *)

\* A step of the chain for one call, or a step that the chain does not see.
LEMMA ChainCases ==
  ASSUME [Next]_vars
  PROVE  \/ UNCHANGED chainVars
         \/ \E c \in Calls : /\ UNCHANGED now
                             /\ Chain!Call(c) \/ Chain!Take(c) \/ Chain!Advance(c)
BY DEF Next, Environment, Step, Joint, BuildSigned, Sign, NoCredentials, vars,
   chainVars, Chain!Tick, Chain!Cancel, Chain!chainVars

\* The clock goes on and the cache goes on to newer credentials.
LEMMA Onwards ==
  ASSUME TypeOK, Chain!ResolveStillDue, CacheInv, [Next]_vars
  PROVE  now <= now' /\ cached.serial <= cached'.serial /\ CacheInv'
<1>1. now <= now'
  BY ClockTyped DEF Next, Environment, Step, vars, Chain!Tick, Chain!Cancel
<1>2. CASE UNCHANGED chainVars
  BY <1>1, <1>2, ClockTyped DEF chainVars, CacheInv
<1>3. ASSUME NEW c \in Calls, Chain!Call(c) \/ Chain!Take(c) \/ Chain!Advance(c)
      PROVE  cached.serial <= cached'.serial /\ CacheInv'
  <2>1. CASE Chain!Store(c)
    <3>1. cached' = val[c] /\ val[c].serial > cached.serial
      BY <2>1 DEF Chain!Store, Chain!Goto, Chain!ResolveStillDue
    <3>2. val[c].serial \in Nat
      BY DEF TypeOK, Chain!TypeOK, Chain!Value
    <3> QED
      BY <3>1, <3>2, ClockTyped DEF CacheInv
  <2>2. CASE UNCHANGED <<have, cached>>
    BY <2>2, ClockTyped DEF CacheInv
  <2> QED
    BY <1>3, <2>1, <2>2 DEF Chain!Call, Chain!Take, Chain!Advance, Chain!Lock,
       Chain!Hit, Chain!Miss, Chain!Issue, Chain!Fail
<1> QED
  BY <1>1, <1>2, <1>3, ChainCases

\* What Retrieve answers is not older than what was cached when the attempt began.
LEMMA FreshAdvance ==
  ASSUME TypeOK, Chain!ResolveStillDue, CacheInv, NEW c \in Calls, FreshInv(c),
         NEW d \in Calls, Chain!Advance(d), UNCHANGED <<now, setup, call, hist>>
  PROVE  FreshInv(c)'
<1>1. /\ cached.serial \in Nat /\ hist[c].floor \in Nat
      /\ val[c].serial \in Nat /\ val[d].serial \in Nat
  BY FieldsTyped, ClockTyped DEF TypeOK, Chain!TypeOK, Chain!Value
<1>2. pc \in [Calls -> {"idle", "blocked", "ok", "failed"} \cup Chain!Holding]
      /\ val \in [Calls -> Chain!Value]
  BY DEF TypeOK, Chain!TypeOK
<1>3. cached'.serial \in Nat /\ cached.serial <= cached'.serial
  <2>1. CASE Chain!Store(d)
    BY <2>1, <1>1 DEF Chain!Store, Chain!Goto, Chain!ResolveStillDue
  <2>2. CASE cached' = cached
    BY <2>2, <1>1
  <2> QED
    BY <2>1, <2>2 DEF Chain!Advance, Chain!Lock, Chain!Hit, Chain!Miss, Chain!Issue,
       Chain!Fail
<1>4. pc[c] = "idle" => pc'[c] = "idle"
  BY <1>2 DEF Chain!Advance, Chain!Lock, Chain!Hit, Chain!Miss, Chain!Issue,
     Chain!Store, Chain!Fail, Chain!Goto
<1>5. pc'[c] = "ok" => val'[c].serial > 0 /\ val'[c].serial >= hist[c].floor
  <2>1. CASE Chain!Hit(d) /\ c = d
    <3>1. val'[c] = cached /\ have
      BY <1>2, <2>1 DEF Chain!Hit, Chain!Unlock
    <3> QED
      BY <3>1, <1>1 DEF CacheInv, FreshInv
  <2>2. CASE Chain!Store(d) /\ c = d
    <3>1. val'[c] = val[c] /\ val[c].serial > cached.serial
      BY <1>2, <2>2 DEF Chain!Store, Chain!Unlock, Chain!Goto, Chain!ResolveStillDue
    <3> QED
      BY <3>1, <1>1 DEF FreshInv
  <2>3. CASE ~(Chain!Hit(d) /\ c = d) /\ ~(Chain!Store(d) /\ c = d)
    <3>1. pc'[c] = "ok" => pc[c] = "ok" /\ val'[c] = val[c]
      BY <1>2, <2>3 DEF Chain!Advance, Chain!Lock, Chain!Hit, Chain!Miss,
         Chain!Issue, Chain!Store, Chain!Fail, Chain!Goto, Chain!Unlock
    <3> QED
      BY <3>1 DEF FreshInv
  <2> QED
    BY <2>1, <2>2, <2>3
<1> QED
  BY <1>1, <1>3, <1>4, <1>5, ClockTyped, FieldsTyped DEF FreshInv, At

\* What the attempt has is kept or made anew by the loop.
LEMMA FreshOwn ==
  ASSUME TypeOK, NEW c \in Calls, LoopInv(c), FreshInv(c), Own(c),
         UNCHANGED <<now, setup>>,
         \/ UNCHANGED chainVars
         \/ BuildSigned(c) \/ Sign(c) \/ NoCredentials(c)
  PROVE  FreshInv(c)'
<1> USE CallTyped, FieldsTyped, ClockTyped DEF LoopInv, FreshInv, At, Return, CallState,
      chainVars
<1>0. /\ pc \in [Calls -> {"idle", "blocked", "ok", "failed"} \cup Chain!Holding]
      /\ val \in [Calls -> Chain!Value] /\ val[c].serial \in Nat
  BY DEF TypeOK, Chain!TypeOK, Chain!Value
<1>1. CASE UNCHANGED chainVars /\ (Begin(c) \/ BadEndpoint(c) \/ BuildBearer(c))
  BY <1>1 DEF Begin, BadEndpoint, BuildBearer, History
<1>2. CASE BuildSigned(c)
  BY <1>0, <1>2 DEF BuildSigned, Chain!Call, Chain!Goto
<1>3. CASE Sign(c)
  BY <1>0, <1>3 DEF Sign, Chain!Take
<1>4. CASE NoCredentials(c)
  BY <1>0, <1>4 DEF NoCredentials, Chain!Take
<1>5. CASE UNCHANGED chainVars /\ Exchange(c)
  <2>1. CASE UNCHANGED chainVars /\ Send(c)
    BY <2>1 DEF Send, History
  <2>2. CASE UNCHANGED chainVars /\ (Refused(c) \/ Lost(c) \/ Respond(c))
    BY <2>2 DEF Refused, Lost, Respond
  <2> QED
    BY <1>5, <2>1, <2>2 DEF Exchange
<1>6. CASE UNCHANGED chainVars /\ Retry(c)
  <2>1. CASE NextAttempt(c) /\ ~At(c, "retrieve")
    BY <1>6, <2>1 DEF NextAttempt, History
  <2>2. CASE call'[c].st \in {"sleep", "drain"} /\ ~At(c, "retrieve")
             /\ hist'[c].woke = hist[c].woke /\ hist'[c].floor = hist[c].floor
    BY <1>6, <2>2
  <2> QED
    BY <1>6, <2>1, <2>2 DEF Retry, RetryError, RetryResponse, Drained, Woken, Sleep, History
<1>7. CASE UNCHANGED chainVars /\ Finish(c)
  BY <1>7 DEF Finish, GiveUp, Accept, BodyRead, Interrupted, CloseStream
<1> QED
  BY <1>1, <1>2, <1>3, <1>4, <1>5, <1>6, <1>7, Parts DEF Prepare

\* No step of anybody spoils what is known of the cache since a call woke up.
LEMMA FreshStep ==
  ASSUME TypeOK, Chain!ResolveStillDue, CacheInv, [Next]_vars,
         \A c \in Calls : LoopInv(c) /\ FreshInv(c)
  PROVE  \A c \in Calls : FreshInv(c)'
<1> SUFFICES ASSUME NEW c \in Calls PROVE FreshInv(c)'
  OBVIOUS
<1>0. /\ pc \in [Calls -> {"idle", "blocked", "ok", "failed"} \cup Chain!Holding]
      /\ val \in [Calls -> Chain!Value]
  BY DEF TypeOK, Chain!TypeOK
<1>1. CASE UNCHANGED <<chainVars, setup, call, hist>>
  <2>1. now <= now'
    BY Onwards
  <2>2. now' \in Nat
    BY ClockTyped, ChainConstants, <2>1
    DEF Next, Environment, Step, vars, Chain!Tick, Chain!Cancel
  <2>3. hist'[c] = hist[c] /\ call'[c] = call[c] /\ setup' = setup
        /\ cached' = cached /\ pc' = pc /\ val' = val
    BY <1>1 DEF chainVars
  <2>4. hist[c].woke <= now'
    BY <2>1, <2>2, ClockTyped, FieldsTyped DEF FreshInv
  <2> QED
    BY <2>3, <2>4 DEF FreshInv, At
<1>2. ASSUME NEW d \in Calls, Chain!Advance(d), UNCHANGED <<now, setup, call, hist>>
      PROVE  FreshInv(c)'
  BY <1>2, FreshAdvance
<1>3. ASSUME NEW d \in Calls, Own(d), UNCHANGED <<now, setup>>,
             \/ UNCHANGED chainVars
             \/ BuildSigned(d) \/ Sign(d) \/ NoCredentials(d)
      PROVE  FreshInv(c)'
  <2>1. CASE c = d
    BY <1>3, <2>1, FreshOwn
  <2>2. CASE c # d
    <3>1. call'[c] = call[c] /\ hist'[c] = hist[c]
      BY <1>3, <2>2, OneCall
    <3>2. pc'[c] = pc[c] /\ val'[c] = val[c] /\ cached' = cached
      BY <1>0, <1>3, <2>2 DEF chainVars, BuildSigned, Sign, NoCredentials, Chain!Call,
         Chain!Take, Chain!Goto
    <3> QED
      BY <1>3, <3>1, <3>2 DEF FreshInv, At
  <2> QED
    BY <2>1, <2>2
<1>4. \/ UNCHANGED <<chainVars, setup, call, hist>>
      \/ \E d \in Calls : Chain!Advance(d) /\ UNCHANGED <<now, setup, call, hist>>
      \/ \E d \in Calls : /\ Own(d) /\ UNCHANGED <<now, setup>>
                          /\ \/ UNCHANGED chainVars
                             \/ BuildSigned(d) \/ Sign(d) \/ NoCredentials(d)
  BY DEF Next, Environment, Step, Joint, Own, vars, chainVars, Chain!Tick,
     Chain!Cancel, Chain!chainVars
<1> QED
  BY <1>1, <1>2, <1>3, <1>4

-----------------------------------------------------------------------------
(* The invariant of the whole. *)

IInv ==
  /\ TypeOK /\ Chain!ResolveStillDue /\ CacheInv /\ LocalInv
  /\ \A c \in Calls : FreshInv(c)

\* Before the first call the invariant holds.
LEMMA InitInv ==
  ASSUME Init, Chain!TypeOK, Chain!ResolveStillDue PROVE IInv
<1>1. MaxRetries \in Int /\ Retries \in Nat
  BY ConverseAssumption DEF ConverseAssumption, Retries
<1>2. Idle \in CallState
  BY <1>1 DEF Idle, CallState, States, Outcomes, Attempts, Readers, Signature, Response,
     NoSignature, NoResponse
<1>3. NoHistory \in History
  BY DEF NoHistory, History
<1>4. TypeOK
  BY <1>2, <1>3 DEF Init, TypeOK, CallState, History, Attempts, Readers, Signature, Response
<1>5. CacheInv
  BY DEF Init, Chain!Init, CacheInv
<1>6. LocalInv
  BY DEF LocalInv, Init, Idle, NoHistory, LoopInv, BodyInv, SendsInv, LateInv,
     VerdictInv, Rejected, At
<1>7. \A c \in Calls : FreshInv(c)
  BY DEF FreshInv, Init, Chain!Init, Chain!NoValue, Idle, NoHistory, At
<1> QED
  BY <1>4, <1>5, <1>6, <1>7 DEF IInv

\* Every step keeps the types.
LEMMA TypeStep ==
  ASSUME TypeOK, LocalInv, [Next]_vars, Chain!TypeOK'
  PROVE  TypeOK'
<1>1. setup' \in Setups
  BY Cases DEF TypeOK
<1>2. call' \in [Calls -> CallState] /\ hist' \in [Calls -> History]
  <2>1. CASE UNCHANGED <<call, hist>>
    BY <2>1, CallTyped
  <2>2. ASSUME NEW c \in Calls, Own(c)
        PROVE  call' \in [Calls -> CallState] /\ hist' \in [Calls -> History]
    BY <2>2, OwnTyped DEF LocalInv
  <2> QED
    BY <2>1, <2>2, Cases
<1> QED
  BY <1>1, <1>2 DEF TypeOK, CallState, History, Attempts, Readers, Signature, Response

\* Every step keeps what each call knows of itself, whichever call it is of.
LEMMA LocalStep ==
  ASSUME TypeOK, LocalInv, [Next]_vars
  PROVE  LocalInv'
<1> SUFFICES ASSUME NEW c \in Calls
             PROVE  (LoopInv(c) /\ BodyInv(c) /\ SendsInv(c) /\ LateInv(c)
                       /\ VerdictInv(c))'
  BY DEF LocalInv
<1>1. LoopInv(c) /\ BodyInv(c) /\ SendsInv(c) /\ LateInv(c) /\ VerdictInv(c)
  BY DEF LocalInv
<1>2. setup' = setup
  BY Cases
<1>3. CASE call'[c] = call[c] /\ hist'[c] = hist[c]
  <2>1. ctxDone[c] => ctxDone'[c]
    BY ContextStays
  <2> QED
    BY <1>1, <1>2, <1>3, <2>1
    DEF LoopInv, BodyInv, SendsInv, LateInv, VerdictInv, Rejected, At, AttemptsRemain
<1>4. CASE Own(c) /\ UNCHANGED ctxDone
  BY <1>1, <1>2, <1>4, LoopStep, BodyStep, SendsStep, LateStep, VerdictStep
<1> QED
  BY <1>3, <1>4, Cases, OneCall

\* Every step keeps the invariant, given what the chain's own proof says of the chain.
LEMMA InvStep ==
  ASSUME IInv, [Next]_vars, (Chain!TypeOK /\ Chain!ResolveStillDue)'
  PROVE  IInv'
BY TypeStep, LocalStep, FreshStep, Onwards DEF IInv, LocalInv

\* The inductive invariant holds of every behaviour of concurrent calls.
THEOREM Invariance == Spec => []IInv
<1>1. Init /\ Chain!TypeOK /\ Chain!ResolveStillDue => IInv
  BY InitInv
<1>2. IInv /\ [Next]_vars /\ (Chain!TypeOK /\ Chain!ResolveStillDue)' => IInv'
  BY InvStep
<1> QED
  BY <1>1, <1>2, ChainInvariants, PTL DEF Spec

-----------------------------------------------------------------------------
(* What follows from it. *)

\* The state of every call is as declared, and its counter of attempts never
\* exceeds the retries allowed, for any retry limit, back-off and header.
THEOREM TypeCorrect == Spec => []TypeOK
<1>1. IInv => TypeOK
  BY DEF IInv
<1> QED
  BY <1>1, Invariance, PTL

\* No way through the retry loop leaks a response body or closes a Stream's.
THEOREM BodiesAccounted == Spec => []BodyAccounted
<1>1. IInv => BodyAccounted
  BY DEF IInv, LocalInv, BodyInv, BodyAccounted
<1> QED
  BY <1>1, Invariance, PTL

\* At most one request more than the retries allowed is sent, whatever the
\* server answers, and one when WithRetries was given nothing positive.
THEOREM RequestsBounded == Spec => []SendsBounded
<1>1. ASSUME IInv, NEW c \in Calls PROVE hist[c].sends <= Retries + 1
  <2>1. TypeOK /\ hist[c].sends <= call[c].attempt + 1
    BY <1>1 DEF IInv, LocalInv, SendsInv
  <2>2. Retries \in Int
    BY ConverseAssumption DEF ConverseAssumption, Retries
  <2> QED
    BY <2>1, <2>2, FieldsTyped
<1>2. IInv => SendsBounded
  BY <1>1 DEF SendsBounded
<1> QED
  BY <1>2, Invariance, PTL

\* A context that has ended lets at most one more attempt begin, although
\* sleep's select may take the timer's arm when both are ready.
THEOREM LateAttempts == Spec => []CancelStopsRetries
<1>1. ASSUME IInv, NEW c \in Calls PROVE hist[c].late <= 1
  <2>1. TypeOK /\ (hist[c].late > 0 => hist[c].late = 1)
    BY <1>1 DEF IInv, LocalInv, LateInv
  <2> QED
    BY <2>1, FieldsTyped
<1>2. IInv => CancelStopsRetries
  BY <1>1 DEF CancelStopsRetries
<1> QED
  BY <1>2, Invariance, PTL

\* The result of a call is the verdict on the last response it got, with any
\* retry limit and with the default classifier or a custom one.
THEOREM VerdictKept == Spec => []VerdictOnLastResponse
<1>1. IInv => VerdictOnLastResponse
  BY DEF IInv, LocalInv, VerdictInv, Rejected, VerdictOnLastResponse
<1> QED
  BY <1>1, Invariance, PTL

\* A request in flight has its whole body and, with SigV4, a signature made in
\* this attempt with credentials that were not stale when the attempt began,
\* however many calls share the cache and refresh it.
THEOREM RequestsFresh == Spec => []FreshAttempt
<1>1. IInv => FreshAttempt
  BY DEF IInv, FreshInv, FreshAttempt, At
<1> QED
  BY <1>1, Invariance, PTL

-----------------------------------------------------------------------------
(* Retry-After. *)

\* Every number of seconds that the server may send fits a time.Duration.
Representable == \A h \in RetryAfters : h.kind = "secs" => h.n < HalfRange

\* The time before which the loop must not send, from the response to the next
\* attempt.
HonorInv(c) ==
  /\ call[c].st \notin {"drain", "sleep", "done"} => hist[c].notBefore <= now
  /\ At(c, "drain") => \/ hist[c].notBefore <= now
                       \/ /\ call[c].timer > 0
                          /\ hist[c].notBefore <= now + call[c].timer
  /\ At(c, "sleep") => hist[c].notBefore <= call[c].timer

\* A number that fits is not made smaller by the conversion; one below the
\* range comes out larger.
LEMMA DurationFits ==
  ASSUME NEW n \in Int, n < HalfRange
  PROVE  ToDuration(n) \in Int /\ n <= ToDuration(n)
<1> DEFINE m == 2 * HalfRange
           x == n + HalfRange
<1>1. m \in Nat /\ m > 0 /\ x \in Int /\ HalfRange \in Nat /\ x < m
  BY ConverseAssumption DEF ConverseAssumption
<1>2. x % m \in 0..(m - 1) /\ ToDuration(n) = (x % m) - HalfRange
  BY <1>1 DEF ToDuration
<1>3. x <= x % m
  <2> HIDE DEF m, x
  <2>1. CASE x < 0
    BY <1>1, <1>2, <2>1
  <2>2. CASE x >= 0
    BY <1>1, <2>2
  <2> QED
    BY <1>1, <2>1, <2>2
<1> QED
  BY <1>1, <1>2, <1>3

\* The delay that is asked for reaches the instant the server named.
LEMMA DelayCovers ==
  ASSUME Representable, NEW h \in RetryAfters \cup {NoResponse.after}, NEW t \in Nat
  PROVE  LET until == CASE h.kind = "secs" -> t + h.n
                        [] h.kind = "date" -> h.n
                        [] OTHER -> 0
         IN  until <= t \/ (RetryDelay(h, t) > 0 /\ until <= t + RetryDelay(h, t))
<1>1. h.n \in Int
  BY ConverseAssumption DEF ConverseAssumption, NoResponse
<1>2. CASE h.kind = "secs"
  <2>1. h.n < HalfRange
    BY <1>2 DEF Representable, NoResponse
  <2>2. ToDuration(h.n) \in Int /\ h.n <= ToDuration(h.n)
    BY <1>1, <2>1, DurationFits
  <2>3. RetryDelay(h, t) = ToDuration(h.n)
    BY <1>2 DEF RetryDelay
  <2> QED
    BY <1>1, <1>2, <2>2, <2>3
<1>3. CASE h.kind = "date"
  <2>1. RetryDelay(h, t) = h.n - t
    BY <1>3 DEF RetryDelay
  <2> QED
    BY <1>1, <1>3, <2>1
<1>4. CASE h.kind \notin {"secs", "date"}
  BY <1>4
<1> QED
  BY <1>2, <1>3, <1>4

\* Sleeping from now on for at least the time that is left.
LEMMA SleepHonors ==
  ASSUME TypeOK, NEW c \in Calls, NEW d \in Int, Sleep(c, d), UNCHANGED now,
         \/ hist[c].notBefore <= now
         \/ d > 0 /\ hist[c].notBefore <= now + d
  PROVE  HonorInv(c)'
<1> USE CallTyped, FieldsTyped, ClockTyped DEF CallState, History, At, HonorInv
<1>1. CASE d <= 0
  <2>1. call'[c].st = "build" /\ hist'[c].notBefore = hist[c].notBefore
    BY <1>1 DEF Sleep, NextAttempt
  <2> QED
    BY <1>1, <2>1
<1>2. CASE d > 0
  <2>1. call'[c].st = "sleep" /\ call'[c].timer = now + d /\ hist' = hist
    BY <1>2 DEF Sleep
  <2> QED
    BY <1>2, <2>1
<1> QED
  BY <1>1, <1>2

\* A call's own step keeps its promise to Retry-After, as long as no wait overflows.
LEMMA HonorOwn ==
  ASSUME Representable, TypeOK, NEW c \in Calls, LoopInv(c), HonorInv(c), Own(c),
         UNCHANGED now
  PROVE  HonorInv(c)'
<1> USE CallTyped, FieldsTyped, ClockTyped DEF CallState, History, At
<1>1. CASE Prepare(c)
  <2>1. CASE Begin(c) \/ BadEndpoint(c) \/ BuildBearer(c)
    BY <2>1 DEF HonorInv, LoopInv, Begin, BadEndpoint, BuildBearer, Return
  <2>2. CASE BuildSigned(c) \/ Sign(c) \/ NoCredentials(c)
    BY <2>2 DEF HonorInv, LoopInv, BuildSigned, Sign, NoCredentials, Return
  <2> QED
    BY <1>1, <2>1, <2>2 DEF Prepare
<1>2. CASE Exchange(c)
  BY <1>2 DEF HonorInv, Exchange, Refused, Send, Lost, Respond
<1>3. CASE RetryError(c)
  <2>1. hist[c].notBefore <= now
    BY <1>3 DEF RetryError, HonorInv
  <2> QED
    BY <1>3, <2>1, BackoffTyped, SleepHonors DEF RetryError
<1>4. CASE RetryResponse(c)
  <2> DEFINE h == call[c].resp.after
             asked == RetryDelay(h, now)
             delay == IF asked <= 0 THEN Backoff[call[c].attempt] ELSE asked
             until == CASE h.kind = "secs" -> now + h.n
                        [] h.kind = "date" -> h.n
                        [] OTHER -> 0
  <2>1. asked \in Int /\ delay \in Int
    <3>1. asked \in Int
      BY DelayTyped
    <3>2. Backoff[call[c].attempt] \in Int
      BY <1>4, BackoffTyped DEF RetryResponse
    <3> QED
      BY <3>1, <3>2
  <2>2. until <= now \/ (asked > 0 /\ until <= now + asked)
    BY DelayCovers
  <2>3. call'[c].st = "drain" /\ call'[c].timer = delay /\ hist'[c].notBefore = until
    BY <1>4 DEF RetryResponse
  <2>4. until <= now \/ (delay > 0 /\ until <= now + delay)
    BY <2>1, <2>2
  <2> HIDE DEF delay, until
  <2> QED
    BY <2>3, <2>4 DEF HonorInv
<1>5. CASE Drained(c)
  <2>1. call[c].timer \in Int /\ Sleep(c, call[c].timer)
    BY <1>5 DEF Drained
  <2>2. \/ hist[c].notBefore <= now
        \/ call[c].timer > 0 /\ hist[c].notBefore <= now + call[c].timer
    BY <1>5 DEF Drained, HonorInv
  <2> QED
    BY <2>1, <2>2, SleepHonors
<1>6. CASE Woken(c)
  <2>1. hist[c].notBefore <= now
    BY <1>6 DEF Woken, HonorInv
  <2>2. call'[c].st = "build" /\ hist'[c].notBefore = hist[c].notBefore
    BY <1>6 DEF Woken, NextAttempt
  <2> QED
    BY <2>1, <2>2 DEF HonorInv
<1>7. CASE Finish(c)
  BY <1>7 DEF HonorInv, LoopInv, Finish, GiveUp, Accept, BodyRead, Interrupted,
     CloseStream, Return
<1> QED
  BY <1>1, <1>2, <1>3, <1>4, <1>5, <1>6, <1>7, Parts DEF Retry

\* Every step keeps the promise to Retry-After, as long as no wait overflows.
LEMMA HonorStep ==
  ASSUME Representable, IInv, [Next]_vars, \A c \in Calls : HonorInv(c)
  PROVE  \A c \in Calls : HonorInv(c)'
<1> SUFFICES ASSUME NEW c \in Calls PROVE HonorInv(c)'
  OBVIOUS
<1>0. TypeOK /\ LoopInv(c)
  BY DEF IInv, LocalInv
<1>1. CASE call'[c] = call[c] /\ hist'[c] = hist[c]
  <2>1. now <= now' /\ now \in Nat /\ now' \in Nat
    BY <1>0, ClockTyped, Onwards, ChainConstants
    DEF IInv, Next, Environment, Step, vars, Chain!Tick, Chain!Cancel
  <2>2. hist[c].notBefore \in Int /\ call[c].timer \in Int
    BY <1>0, FieldsTyped
  <2> QED
    BY <1>1, <2>1, <2>2 DEF HonorInv, At
<1>2. CASE Own(c) /\ UNCHANGED now
  BY <1>0, <1>2, HonorOwn
<1> QED
  BY <1>0, <1>1, <1>2, Cases, OneCall

\* Retry-After is honored: a request is not repeated before the instant that the
\* server named, in seconds or as a date, whatever the back-off and however long
\* draining the body takes, provided that the seconds fit a time.Duration.
THEOREM RetryAfterHonored ==
  ASSUME Representable
  PROVE  Spec => []HonorsRetryAfter
<1>1. Init => \A c \in Calls : HonorInv(c)
  BY DEF Init, Chain!Init, Idle, NoHistory, HonorInv, At
<1>2. IInv /\ (\A c \in Calls : HonorInv(c)) /\ [Next]_vars
        => (\A c \in Calls : HonorInv(c))'
  BY HonorStep
<1>3. (\A c \in Calls : HonorInv(c)) => HonorsRetryAfter
  BY DEF HonorInv, HonorsRetryAfter, At
<1> QED
  BY <1>1, <1>2, <1>3, Invariance, PTL DEF Spec

-----------------------------------------------------------------------------
(* How long a call takes. *)

\* The steps of an attempt that are still to come, those of Retrieve included;
\* a Stream has yet to be closed.
Waiting(c) ==
  CASE pc[c] = "blocked" -> 11
    [] pc[c] = "locked" -> 10
    [] pc[c] = "resolving" -> 9
    [] pc[c] = "answered" -> 8
    [] OTHER -> 7

Place(c) ==
  CASE At(c, "idle") -> 13
    [] At(c, "build") -> 12
    [] At(c, "retrieve") -> Waiting(c)
    [] At(c, "send") -> 6
    [] At(c, "inflight") -> 5
    [] At(c, "responded") -> 4
    [] call[c].st \in {"errored", "drain", "readbody"} -> 3
    [] At(c, "sleep") -> 2
    [] OTHER -> IF call[c].out = "stream" THEN 1 ELSE 0

StepsLeft(c) == 13 * (Retries - call[c].attempt) + Place(c)

\* The place of a call is one of fourteen.
LEMMA PlaceTyped == \A c : Place(c) \in 0..13
BY DEF Place, Waiting

\* No call takes more than thirteen steps for each attempt.
LEMMA StepsBounded ==
  ASSUME TypeOK, NEW c \in Calls
  PROVE  StepsLeft(c) \in 0..(13 * (Retries + 1))
<1> DEFINE a == call[c].attempt
           k == Place(c)
<1>1. Retries \in Nat /\ a \in Nat /\ a <= Retries /\ k \in 0..13
  BY FieldsTyped, PlaceTyped, ConverseAssumption DEF ConverseAssumption, Retries
<1>2. StepsLeft(c) = 13 * (Retries - a) + k
  BY DEF StepsLeft
<1> HIDE DEF a, k
<1> QED
  BY <1>1, <1>2

\* A step of the loop moves forward in its attempt, or begins the next one.
LEMMA Forward ==
  ASSUME TypeOK, NEW c \in Calls, LoopInv(c), Own(c),
         UNCHANGED chainVars \/ BuildSigned(c) \/ Sign(c) \/ NoCredentials(c)
  PROVE  \/ call'[c].attempt = call[c].attempt /\ Place(c)' < Place(c)
         \/ /\ call[c].attempt < Retries /\ call'[c].attempt = call[c].attempt + 1
            /\ Place(c)' = 12 /\ Place(c) >= 0
<1> USE CallTyped DEF LoopInv, CallState, At, Return
<1>0. /\ AttemptsRemain(c) => call[c].attempt < Retries
      /\ NextAttempt(c) => call'[c].attempt = call[c].attempt + 1 /\ Place(c)' = 12
      /\ Place(c) >= 0
  BY PlaceTyped, FieldsTyped, ConverseAssumption
  DEF ConverseAssumption, AttemptsRemain, Retries, NextAttempt, Place
<1>1. CASE Begin(c) \/ BadEndpoint(c) \/ BuildBearer(c)
  BY <1>1 DEF Begin, BadEndpoint, BuildBearer, Place
<1>2. CASE BuildSigned(c)
  <2>1. pc'[c] = "blocked"
    BY <1>2 DEF BuildSigned, Chain!Call, Chain!Goto, TypeOK, Chain!TypeOK
  <2> QED
    BY <1>2, <2>1 DEF BuildSigned, Place, Waiting
<1>3. CASE Sign(c) \/ NoCredentials(c)
  BY <1>3 DEF Sign, NoCredentials, Place, Waiting
<1>4. CASE Exchange(c)
  BY <1>4 DEF Exchange, Refused, Send, Lost, Respond, Place
<1>5. CASE RetryError(c)
  BY <1>0, <1>5 DEF RetryError, Sleep, Place
<1>6. CASE RetryResponse(c)
  BY <1>6 DEF RetryResponse, Place
<1>7. CASE Drained(c)
  BY <1>0, <1>7 DEF Drained, Sleep, Place
<1>8. CASE Woken(c)
  BY <1>0, <1>8 DEF Woken
<1>9. CASE Finish(c)
  BY <1>9 DEF Finish, GiveUp, Accept, BodyRead, Interrupted, CloseStream, Place
<1> QED
  BY <1>1, <1>2, <1>3, <1>4, <1>5, <1>6, <1>7, <1>8, <1>9, Parts DEF Prepare, Retry

\* It leaves fewer steps.
LEMMA ForwardNearer ==
  ASSUME TypeOK, NEW c \in Calls,
         \/ call'[c].attempt = call[c].attempt /\ Place(c)' < Place(c)
         \/ /\ call[c].attempt < Retries /\ call'[c].attempt = call[c].attempt + 1
            /\ Place(c)' = 12 /\ Place(c) >= 0
  PROVE  StepsLeft(c)' < StepsLeft(c)
<1> DEFINE a == call[c].attempt
           k == Place(c)
<1>1. Retries \in Nat /\ a \in Nat /\ k \in 0..13 /\ k' \in 0..13
  BY FieldsTyped, PlaceTyped, ConverseAssumption DEF ConverseAssumption, Retries, Place, Waiting, At
<1>2. StepsLeft(c) = 13 * (Retries - a) + k
  BY DEF StepsLeft
<1>3. StepsLeft(c)' = 13 * (Retries - a') + k'
  BY DEF StepsLeft
<1>4. (a' = a /\ k' < k) \/ (a' = a + 1 /\ k' = 12)
  BY DEF a, k
<1> HIDE DEF a, k
<1> QED
  BY <1>1, <1>2, <1>3, <1>4

\* So does a step of Retrieve, for the call that is in it, and the steps of other
\* calls change nothing.
LEMMA AdvanceNearer ==
  ASSUME IInv, NEW d \in Calls, Chain!Advance(d), UNCHANGED <<call, hist>>, NEW c \in Calls
  PROVE  /\ c = d => StepsLeft(c)' < StepsLeft(c)
         /\ c # d => pc'[c] = pc[c] /\ StepsLeft(c)' = StepsLeft(c)
<1>1. /\ TypeOK /\ call' = call
      /\ pc \in [Calls -> {"idle", "blocked", "ok", "failed"} \cup Chain!Holding]
  BY DEF IInv, TypeOK, Chain!TypeOK
<1>2. \E s : /\ pc' = [pc EXCEPT ![d] = s]
             /\ \/ pc[d] = "blocked" /\ s = "locked"
                \/ pc[d] = "locked" /\ s \in {"ok", "resolving"}
                \/ pc[d] = "resolving" /\ s \in {"answered", "failed"}
                \/ pc[d] = "answered" /\ s \in {"ok", "failed"}
  BY DEF Chain!Advance, Chain!Lock, Chain!Hit, Chain!Miss, Chain!Issue, Chain!Store,
     Chain!Fail, Chain!Goto
<1>3. CASE c # d
  <2>1. pc'[c] = pc[c]
    BY <1>1, <1>2, <1>3
  <2> QED
    BY <1>1, <1>3, <2>1 DEF StepsLeft, Place, Waiting, At
<1>4. CASE c = d
  <2>1. At(d, "retrieve")
    BY <1>2 DEF IInv, FreshInv
  <2>2. Waiting(d)' < Waiting(d) /\ Waiting(d) \in Int /\ Waiting(d)' \in Int
    BY <1>1, <1>2 DEF Waiting
  <2>3. Place(d)' = Waiting(d)' /\ Place(d) = Waiting(d)
    BY <1>1, <2>1 DEF Place, At
  <2>4. StepsLeft(d)' = 13 * (Retries - call[d].attempt) + Waiting(d)'
        /\ StepsLeft(d) = 13 * (Retries - call[d].attempt) + Waiting(d)
    BY <1>1, <2>3 DEF StepsLeft
  <2>5. Retries \in Nat /\ call[d].attempt \in Int
    BY <1>1, FieldsTyped, ConverseAssumption DEF ConverseAssumption, Retries
  <2> QED
    BY <1>4, <2>2, <2>4, <2>5
<1> QED
  BY <1>3, <1>4

\* A call takes at most thirteen steps for each attempt that its retries allow:
\* each step of its loop or of its Retrieve leaves fewer, and nothing that another
\* call, the clock or a context does leaves more.
THEOREM EveryStepNearer ==
  Spec => /\ [](\A c \in Calls : StepsLeft(c) \in 0..(13 * (Retries + 1)))
          /\ [][\A c \in Calls :
                  IF UNCHANGED <<call[c], pc[c]>> THEN StepsLeft(c)' = StepsLeft(c)
                  ELSE StepsLeft(c)' < StepsLeft(c)]_vars
<1>1. IInv => \A c \in Calls : StepsLeft(c) \in 0..(13 * (Retries + 1))
  BY StepsBounded DEF IInv
<1>2. ASSUME IInv, Next, NEW c \in Calls
      PROVE  IF UNCHANGED <<call[c], pc[c]>> THEN StepsLeft(c)' = StepsLeft(c)
             ELSE StepsLeft(c)' < StepsLeft(c)
  <2>1. UNCHANGED <<call[c], pc[c]>> => StepsLeft(c)' = StepsLeft(c)
    BY DEF StepsLeft, Place, Waiting, At
  <2>2. CASE Environment
    BY <2>1, <2>2 DEF Environment, Chain!Tick, Chain!Cancel, Chain!chainVars
  <2>3. ASSUME NEW d \in Calls, Chain!Advance(d), UNCHANGED <<call, hist>>
        PROVE  UNCHANGED <<call[c], pc[c]>> \/ StepsLeft(c)' < StepsLeft(c)
    BY <1>2, <2>3, AdvanceNearer
  <2>4. ASSUME NEW d \in Calls, Own(d),
               UNCHANGED chainVars \/ BuildSigned(d) \/ Sign(d) \/ NoCredentials(d)
        PROVE  UNCHANGED <<call[c], pc[c]>> \/ StepsLeft(c)' < StepsLeft(c)
    <3>0. TypeOK /\ LoopInv(c)
      BY <1>2 DEF IInv, LocalInv
    <3>1. CASE c = d
      BY <1>2, <2>4, <3>0, <3>1, Forward, ForwardNearer
    <3>2. CASE c # d
      <4>1. call'[c] = call[c]
        BY <2>4, <3>0, <3>2, OneCall
      <4>2. pc'[c] = pc[c]
        BY <2>4, <3>0, <3>2 DEF chainVars, BuildSigned, Sign, NoCredentials, Chain!Call,
           Chain!Take, Chain!Goto, TypeOK, Chain!TypeOK
      <4> QED
        BY <4>1, <4>2
    <3> QED
      BY <3>1, <3>2
  <2>5. \/ Environment
        \/ \E d \in Calls : Chain!Advance(d) /\ UNCHANGED <<call, hist>>
        \/ \E d \in Calls :
             Own(d) /\ (UNCHANGED chainVars \/ BuildSigned(d) \/ Sign(d) \/ NoCredentials(d))
    BY <1>2 DEF Next, Step, Joint, Own
  <2> QED
    BY <2>1, <2>2, <2>3, <2>4, <2>5
<1>3. IInv /\ [Next]_vars =>
        [\A c \in Calls :
           IF UNCHANGED <<call[c], pc[c]>> THEN StepsLeft(c)' = StepsLeft(c)
           ELSE StepsLeft(c)' < StepsLeft(c)]_vars
  BY <1>2
<1> QED
  BY Invariance, <1>1, <1>3, PTL DEF Spec
===============================================================================
