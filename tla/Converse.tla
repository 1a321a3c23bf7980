------------------------------- MODULE Converse -------------------------------
(***************************************************************************)
(* Client.ConverseStream: concurrent calls on one Client, each a loop of   *)
(* attempts (build, retrieve credentials, sign, send, judge the response,  *)
(* back off).  The calls share the Client's credential chain, whose steps  *)
(* are those of module CredChain; HTTP and contexts are the environment.   *)
(***************************************************************************)
EXTENDS Credentials, Integers

CONSTANTS
  Calls,            \* concurrent calls of ConverseStream
  Nobody, MaxTime, MaxIssued,      \* as in CredChain
  MaxRetries,       \* Client.maxRetries; WithRetries may make it negative
  Backoff,          \* Client.backoff: duration in ticks, by attempt
  Statuses,         \* HTTP statuses a server may answer
  RetryAfters,      \* Retry-After headers a server may send
  HalfRange,        \* a time.Duration holds -HalfRange .. HalfRange - 1
  Setups            \* Client configurations; custom: WithRetryClassifier given

ASSUME ConverseAssumption ==
  /\ Nobody \notin Calls /\ MaxTime \in Nat /\ MaxIssued \in Nat
  /\ MaxRetries \in Int
  /\ \A a \in 0..(MaxRetries - 1) : Backoff[a] \in Int
  /\ Statuses \subseteq Nat
  /\ RetryAfters \subseteq [kind : {"none", "secs", "date", "junk"}, n : Int]
  /\ HalfRange \in Nat \ {0}
  /\ Setups \subseteq [bearer : BOOLEAN,
                       endpoint : {"good", "hostless", "unparsable"},
                       custom : BOOLEAN]

VARIABLES
  now, mu, have, cached, pc, val, ctxDone, issued, grant,   \* of CredChain
  setup,   \* the Client's authentication, endpoint and retry classifier
  call,    \* call[c]: the local state of call c
  hist     \* history: what the properties remember of call c

Chain == INSTANCE CredChain WITH Callers <- Calls

chainVars == <<mu, have, cached, pc, val, issued, grant>>
vars == <<chainVars, now, ctxDone, setup, call, hist>>

NoResponse == [status |-> 0, after |-> [kind |-> "none", n |-> 0]]
NoSignature == [serial |-> 0, at |-> 0]

Idle == [st |-> "idle", attempt |-> 0, reader |-> "full", sig |-> NoSignature,
         resp |-> NoResponse, open |-> FALSE, timer |-> 0, out |-> "none"]

NoHistory == [sends |-> 0, late |-> 0, notBefore |-> 0, woke |-> 0, floor |-> 0]

Init ==
  /\ Chain!Init
  /\ setup \in Setups
  /\ call = [c \in Calls |-> Idle]
  /\ hist = [c \in Calls |-> NoHistory]

-----------------------------------------------------------------------------
(* Pure parts of the loop. *)

\* time.Duration arithmetic: two's complement.
ToDuration(n) == ((n + HalfRange) % (2 * HalfRange)) - HalfRange

\* A faulty retryAfter that only knows seconds.
RetryDelaySeconds(h, t) == IF h.kind = "secs" THEN ToDuration(h.n) ELSE 0

\* retryAfter: seconds, an HTTP date, or nothing usable.
RetryDelay(h, t) ==
  CASE h.kind = "secs" -> ToDuration(h.n)
    [] h.kind = "date" -> h.n - t
    [] OTHER -> 0

\* shouldRetry's default policy for a response.
DefaultRetry(status) == status = 429 \/ status \in 500..599

Is2xx(status) == status \div 100 = 2

\* What the classifier may answer; a custom one is the user's code.
MayRetry(status) == setup.custom \/ DefaultRetry(status)
MayDecline(status) == setup.custom \/ ~DefaultRetry(status)

\* A faulty test that allows one retry too many.
AttemptsRemainLax(c) == call[c].attempt <= MaxRetries

AttemptsRemain(c) == call[c].attempt < MaxRetries

-----------------------------------------------------------------------------
(* Steps of one call that leave the chain alone. *)

At(c, state) == call[c].st = state

Return(c, how) ==
  call' = [call EXCEPT ![c].st = "done", ![c].out = how]

\* A faulty loop that sends the request it built before.
SameRequest(c) ==
  /\ call' = [call EXCEPT ![c].st = "send", ![c].attempt = @ + 1,
                          ![c].open = FALSE]
  /\ hist' = [hist EXCEPT ![c].woke = now, ![c].floor = cached.serial]

\* The next iteration of the loop begins.
NextAttempt(c) ==
  /\ call' = [call EXCEPT ![c].st = "build", ![c].attempt = @ + 1,
                          ![c].open = FALSE]
  /\ hist' = [hist EXCEPT ![c].woke = now, ![c].floor = cached.serial,
                          ![c].late = IF ctxDone[c] THEN @ + 1 ELSE @]

\* sleep(ctx, d): not at all unless d is positive.
Sleep(c, d) ==
  IF d <= 0
    THEN NextAttempt(c)
    ELSE /\ call' = [call EXCEPT ![c].st = "sleep", ![c].timer = now + d,
                                 ![c].open = FALSE]
         /\ UNCHANGED hist

\* ConverseStream is entered, with a valid input or not.
Begin(c) ==
  /\ At(c, "idle")
  /\ \/ /\ call' = [call EXCEPT ![c].st = "build"]
        /\ hist' = [hist EXCEPT ![c].woke = now, ![c].floor = cached.serial,
                                ![c].late = IF ctxDone[c] THEN 1 ELSE 0]
     \/ Return(c, "invalid") /\ UNCHANGED hist

BadEndpoint(c) ==
  /\ At(c, "build") /\ setup.endpoint = "unparsable"
  /\ Return(c, "request")
  /\ UNCHANGED hist

\* Request with a fresh body; a bearer token replaces SigV4.
BuildBearer(c) ==
  /\ At(c, "build") /\ setup.endpoint # "unparsable" /\ setup.bearer
  /\ call' = [call EXCEPT ![c].st = "send", ![c].reader = "full"]
  /\ UNCHANGED hist

\* httpClient.Do fails before anything is sent.
Refused(c) ==
  /\ At(c, "send") /\ (ctxDone[c] \/ setup.endpoint = "hostless")
  /\ call' = [call EXCEPT ![c].st = "errored", ![c].reader = "empty"]
  /\ UNCHANGED hist

Send(c) ==
  /\ At(c, "send") /\ ~ctxDone[c] /\ setup.endpoint = "good"
  /\ call' = [call EXCEPT ![c].st = "inflight"]
  /\ hist' = [hist EXCEPT ![c].sends = @ + 1]

\* Transport error, or the context ended while the request was in flight.
Lost(c) ==
  /\ At(c, "inflight")
  /\ call' = [call EXCEPT ![c].st = "errored", ![c].reader = "empty"]
  /\ UNCHANGED hist

Respond(c) ==
  /\ At(c, "inflight")
  /\ \E s \in Statuses, h \in RetryAfters :
       call' = [call EXCEPT ![c].st = "responded", ![c].reader = "empty",
                            ![c].open = TRUE,
                            ![c].resp = [status |-> s, after |-> h]]
  /\ UNCHANGED hist

\* A faulty retry that does not look at the context.
RetryRegardless(c) ==
  /\ At(c, "errored") /\ AttemptsRemain(c)
  /\ Sleep(c, Backoff[call[c].attempt])

RetryError(c) ==
  /\ At(c, "errored") /\ AttemptsRemain(c) /\ ~ctxDone[c]
  /\ Sleep(c, Backoff[call[c].attempt])

GiveUp(c) ==
  /\ At(c, "errored")
  /\ ~AttemptsRemain(c) \/ ctxDone[c] \/ setup.custom
  /\ Return(c, "transport")
  /\ UNCHANGED hist

\* The delay is fixed before the body is drained; draining takes time.
RetryResponse(c) ==
  LET asked == RetryDelay(call[c].resp.after, now)
      delay == IF asked <= 0 THEN Backoff[call[c].attempt] ELSE asked
  IN /\ At(c, "responded") /\ AttemptsRemain(c)
     /\ MayRetry(call[c].resp.status)
     /\ call' = [call EXCEPT ![c].st = "drain", ![c].timer = delay]
     /\ hist' = [hist EXCEPT ![c].notBefore =
          CASE call[c].resp.after.kind = "secs" -> now + call[c].resp.after.n
            [] call[c].resp.after.kind = "date" -> call[c].resp.after.n
            [] OTHER -> 0]

Drained(c) ==
  /\ At(c, "drain")
  /\ Sleep(c, call[c].timer)

\* A faulty loop that judges the status before it thinks of a retry.
AcceptEarly(c) ==
  /\ At(c, "responded")
  /\ IF Is2xx(call[c].resp.status)
       THEN Return(c, "stream")
       ELSE call' = [call EXCEPT ![c].st = "readbody"]
  /\ UNCHANGED hist

\* The loop is left with a response: a Stream, or an APIError whose body is
\* read first.
Accept(c) ==
  /\ At(c, "responded")
  /\ ~AttemptsRemain(c) \/ MayDecline(call[c].resp.status)
  /\ IF Is2xx(call[c].resp.status)
       THEN Return(c, "stream")
       ELSE call' = [call EXCEPT ![c].st = "readbody"]
  /\ UNCHANGED hist

\* A faulty error path without the deferred Close.
BodyReadOpen(c) ==
  /\ At(c, "readbody")
  /\ Return(c, "apierror")
  /\ UNCHANGED hist

BodyRead(c) ==
  /\ At(c, "readbody")
  /\ call' = [call EXCEPT ![c].st = "done", ![c].out = "apierror",
                          ![c].open = FALSE]
  /\ UNCHANGED hist

\* The two arms of sleep's select; both may be ready.
Woken(c) ==
  /\ At(c, "sleep") /\ now >= call[c].timer
  /\ NextAttempt(c)

\* A faulty sleep that cannot be interrupted.
InterruptedLate(c) ==
  /\ At(c, "sleep") /\ ctxDone[c] /\ now >= call[c].timer
  /\ Return(c, "cancelled")
  /\ UNCHANGED hist

Interrupted(c) ==
  /\ At(c, "sleep") /\ ctxDone[c]
  /\ Return(c, "cancelled")
  /\ UNCHANGED hist

\* Stream.Close, by the user.
CloseStream(c) ==
  /\ call[c].out = "stream"
  /\ call' = [call EXCEPT ![c].out = "closed", ![c].open = FALSE]
  /\ UNCHANGED hist

Local(c) ==
  \/ Begin(c) \/ BadEndpoint(c) \/ BuildBearer(c) \/ Refused(c) \/ Send(c)
  \/ Lost(c) \/ Respond(c) \/ RetryError(c) \/ GiveUp(c) \/ RetryResponse(c)
  \/ Drained(c) \/ Accept(c) \/ BodyRead(c) \/ Woken(c) \/ Interrupted(c)
  \/ CloseStream(c)

-----------------------------------------------------------------------------
(* Steps taken together with the credential chain. *)

BuildSigned(c) ==
  /\ At(c, "build") /\ setup.endpoint # "unparsable" /\ ~setup.bearer
  /\ call' = [call EXCEPT ![c].st = "retrieve", ![c].reader = "full"]
  /\ UNCHANGED hist
  /\ Chain!Call(c)

\* Sign with the credentials retrieved and the time of signing; hashBody
\* leaves a full copy of the body behind.
Sign(c) ==
  /\ At(c, "retrieve") /\ pc[c] = "ok"
  /\ IF setup.endpoint = "hostless"
       THEN Return(c, "sign")
       ELSE call' = [call EXCEPT ![c].st = "send",
                       ![c].sig = [serial |-> val[c].serial, at |-> now]]
  /\ UNCHANGED hist
  /\ Chain!Take(c)

NoCredentials(c) ==
  /\ At(c, "retrieve") /\ pc[c] = "failed"
  /\ Return(c, "credentials")
  /\ UNCHANGED hist
  /\ Chain!Take(c)

Joint(c) ==
  \/ BuildSigned(c) \/ Sign(c) \/ NoCredentials(c)
  \/ Chain!Advance(c) /\ UNCHANGED <<call, hist>>

Step(c) ==
  /\ \/ Local(c) /\ UNCHANGED chainVars
     \/ Joint(c)
  /\ UNCHANGED <<now, ctxDone, setup>>

Environment ==
  /\ Chain!Tick \/ \E c \in Calls : Chain!Cancel(c)
  /\ UNCHANGED <<setup, call, hist>>

Next == Environment \/ \E c \in Calls : Step(c)

Spec == Init /\ [][Next]_vars

(***************************************************************************)
(* Fairness: the goroutine of a call runs; the mutex is starvation-free;   *)
(* the caller's context ends (it has a deadline), and then everything that *)
(* blocks on the network or a timer returns.  Nothing is assumed of the    *)
(* server, the credential providers or the clock.                          *)
(***************************************************************************)
Frame == UNCHANGED <<now, ctxDone, setup>>
OfCall(A) == A /\ UNCHANGED chainVars /\ Frame

Runs(c) ==
  \/ OfCall(BadEndpoint(c) \/ BuildBearer(c) \/ Refused(c) \/ Send(c))
  \/ OfCall(RetryError(c) \/ GiveUp(c) \/ RetryResponse(c) \/ Accept(c))
  \/ (BuildSigned(c) \/ Sign(c) \/ NoCredentials(c)) /\ Frame
  \/ (Chain!Hit(c) \/ Chain!Miss(c)) /\ UNCHANGED <<call, hist>> /\ Frame

Unblocks(c) ==
  /\ ctxDone[c]
  /\ \/ OfCall(Lost(c) \/ Drained(c) \/ BodyRead(c) \/ Interrupted(c))
     \/ Chain!Fail(c) /\ UNCHANGED <<call, hist>> /\ Frame

Active(c) == ~At(c, "idle") /\ ~At(c, "done")

Fairness == \A c \in Calls :
  /\ WF_vars(Runs(c))
  /\ WF_vars(Unblocks(c))
  /\ WF_vars(Active(c) /\ Chain!Cancel(c) /\ UNCHANGED <<setup, call, hist>>)
  /\ SF_vars(Chain!Lock(c) /\ UNCHANGED <<call, hist>> /\ Frame)

FairSpec == Spec /\ Fairness
-----------------------------------------------------------------------------
States == {"idle", "build", "retrieve", "send", "inflight", "errored",
           "responded", "drain", "sleep", "readbody", "done"}

Outcomes == {"none", "invalid", "request", "credentials", "sign", "transport",
             "cancelled", "apierror", "stream", "closed"}

Retries == IF MaxRetries > 0 THEN MaxRetries ELSE 0

\* Types, and the range of the loop's counter.
TypeOK ==
  /\ Chain!TypeOK
  /\ setup \in Setups
  /\ call \in [Calls ->
       [st : States, attempt : 0..Retries, reader : {"full", "empty"},
        sig : [serial : Nat, at : Nat],
        resp : [status : Nat, after : RetryAfters \cup {NoResponse.after}],
        open : BOOLEAN, timer : Int, out : Outcomes]]
  /\ hist \in [Calls -> [sends : Nat, late : Nat, notBefore : Int,
                         woke : Nat, floor : Nat]]

\* A response body is open while the loop is working on it and, after the
\* return, exactly when the user was given a Stream and has not closed it: no
\* retry, error or cancellation leaks a connection or closes a Stream's.
BodyAccounted ==
  \A c \in Calls :
    call[c].open <=> \/ call[c].st \in {"responded", "drain", "readbody"}
                     \/ call[c].out = "stream"

\* What goes on the wire belongs to this attempt: the whole body, and with
\* SigV4 a signature made after the last back-off ended, with credentials no
\* older than those cached at that moment.
FreshAttempt ==
  \A c \in Calls : At(c, "inflight") =>
    /\ call[c].reader = "full"
    /\ ~setup.bearer => /\ call[c].sig.at >= hist[c].woke
                        /\ call[c].sig.serial > 0
                        /\ call[c].sig.serial >= hist[c].floor

\* A request is not repeated before the instant the server named in
\* Retry-After (README: "honoring Retry-After").
HonorsRetryAfter ==
  \A c \in Calls : At(c, "inflight") => now >= hist[c].notBefore

\* Once the context has ended at most one more attempt is begun, whichever arm
\* sleep's select takes when both are ready.
CancelStopsRetries == \A c \in Calls : hist[c].late <= 1

\* At most one request more than WithRetries allows retries, and only one when
\* that is zero or negative.
SendsBounded == \A c \in Calls : hist[c].sends <= Retries + 1

\* The result is the verdict on the last response: a Stream only of a 2xx; an
\* APIError never of a 2xx, and with the default policy of a 429 or a 5xx only
\* when the retries are used up; no 2xx is thrown away for a retry.
VerdictOnLastResponse ==
  \A c \in Calls :
    LET s == call[c].resp.status
        good == s \in 200..299
    IN /\ call[c].out \in {"stream", "closed"} => good
       /\ call[c].out = "apierror" =>
            /\ ~good
            /\ \/ setup.custom \/ s \notin {429} \cup 500..599
               \/ call[c].attempt = Retries
       /\ At(c, "drain") => setup.custom \/ ~good

\* Every call returns once the contexts in use have ended, although it may be
\* queued behind another call's refresh, whatever the server, the credential
\* providers and the clock do.
EveryCallReturns == \A c \in Calls : At(c, "build") ~> At(c, "done")
=============================================================================
