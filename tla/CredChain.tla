------------------------------ MODULE CredChain ------------------------------
(***************************************************************************)
(* creds.DefaultChain: a mutex-protected cache in front of the providers.  *)
(* Retrieve takes the mutex, looks at the cache, and keeps the mutex for   *)
(* the whole of resolve, which may call STS, ECS, IMDS or a process.       *)
(* resolve is seen from outside here: an answer is issued somewhere, then  *)
(* it arrives or is lost.  Module Resolve says which provider answers.     *)
(***************************************************************************)
EXTENDS Credentials

CONSTANTS
  Callers,    \* goroutines that call Retrieve
  Nobody,     \* the mutex is free
  MaxTime,    \* bound: the clock stops here
  MaxIssued   \* bound: credentials issued in a behaviour

ASSUME ChainAssumption ==
  /\ Nobody \notin Callers
  /\ MaxTime \in Nat
  /\ MaxIssued \in Nat

VARIABLES
  now,        \* cfg.now()
  mu,         \* chain.mu: who holds it
  have,       \* chain.have
  cached,     \* chain.cached
  pc,         \* pc[c]: where the call of c is
  val,        \* val[c]: its local v, then its result
  ctxDone,    \* ctxDone[c]: the context of c is cancelled
  issued,     \* how many values the outside world has issued
  grant       \* history: when c was answered, and whether from the cache

chainVars == <<mu, have, cached, pc, val, issued, grant>>
vars == <<chainVars, now, ctxDone>>

NoGrant == [hit |-> FALSE, at |-> 0]

Init ==
  /\ now = 0
  /\ mu = Nobody
  /\ have = FALSE
  /\ cached = NoValue
  /\ pc = [c \in Callers |-> "idle"]
  /\ val = [c \in Callers |-> NoValue]
  /\ ctxDone = [c \in Callers |-> FALSE]
  /\ issued = 0
  /\ grant = [c \in Callers |-> NoGrant]

Goto(c, from, to) == pc[c] = from /\ pc' = [pc EXCEPT ![c] = to]

\* The deferred Unlock, and the value Retrieve returns.
Unlock(c, v) ==
  /\ mu' = Nobody
  /\ val' = [val EXCEPT ![c] = v]

\* Retrieve is entered; mu.Lock does not look at the context.
Call(c) ==
  /\ Goto(c, "idle", "blocked")
  /\ UNCHANGED <<mu, have, cached, val, issued, grant>>

\* A faulty Lock that several callers may hold.
LockShared(c) ==
  /\ Goto(c, "blocked", "locked")
  /\ mu' = c
  /\ UNCHANGED <<have, cached, val, issued, grant>>

Lock(c) ==
  /\ mu = Nobody
  /\ Goto(c, "blocked", "locked")
  /\ mu' = c
  /\ UNCHANGED <<have, cached, val, issued, grant>>

\* The cached value is good for another minute.
Hit(c) ==
  /\ have /\ ~Due(cached, now)
  /\ Goto(c, "locked", "ok")
  /\ Unlock(c, cached)
  /\ grant' = [grant EXCEPT ![c] = [hit |-> TRUE, at |-> now]]
  /\ UNCHANGED <<have, cached, issued>>

\* A faulty miss that gives the mutex up while it resolves.
MissUnlocked(c) ==
  /\ ~(have /\ ~Due(cached, now))
  /\ Goto(c, "locked", "resolving")
  /\ mu' = Nobody
  /\ UNCHANGED <<have, cached, val, issued, grant>>

\* resolve is called, with the mutex held.
Miss(c) ==
  /\ ~(have /\ ~Due(cached, now))
  /\ Goto(c, "locked", "resolving")
  /\ UNCHANGED <<mu, have, cached, val, issued, grant>>

\* A faulty provider that makes credentials last longer than they do.
IssueExtended(c) ==
  /\ issued < MaxIssued
  /\ Goto(c, "resolving", "answered")
  /\ issued' = issued + 1
  /\ \E e \in Expiries :
       val' = [val EXCEPT ![c] = [serial |-> issued + 1, expires |-> e + Slack]]
  /\ UNCHANGED <<mu, have, cached, grant>>

\* A provider issues credentials; the answer is on its way to resolve.
Issue(c) ==
  /\ issued < MaxIssued
  /\ Goto(c, "resolving", "answered")
  /\ issued' = issued + 1
  /\ \E e \in Expiries \cup {NoExpiry} :
       val' = [val EXCEPT ![c] = [serial |-> issued + 1, expires |-> e]]
  /\ UNCHANGED <<mu, have, cached, grant>>

\* resolve returned a value, however soon it expires: cache and return it.
Store(c) ==
  /\ Goto(c, "answered", "ok")
  /\ cached' = val[c]
  /\ have' = TRUE
  /\ Unlock(c, val[c])
  /\ grant' = [grant EXCEPT ![c] = [hit |-> FALSE, at |-> now]]
  /\ UNCHANGED issued

\* A faulty error path that leaves the mutex locked.
FailLocked(c) ==
  /\ pc[c] \in {"resolving", "answered"}
  /\ pc' = [pc EXCEPT ![c] = "failed"]
  /\ val' = [val EXCEPT ![c] = NoValue]
  /\ UNCHANGED <<mu, have, cached, issued, grant>>

\* A faulty error path that caches the zero Value of the error.
FailCached(c) ==
  /\ pc[c] \in {"resolving", "answered"}
  /\ pc' = [pc EXCEPT ![c] = "failed"]
  /\ Unlock(c, NoValue)
  /\ cached' = NoValue
  /\ have' = TRUE
  /\ UNCHANGED <<issued, grant>>

\* resolve returned an error (no answer, a lost answer, a bad answer): the
\* cache keeps what it has.
Fail(c) ==
  /\ pc[c] \in {"resolving", "answered"}
  /\ pc' = [pc EXCEPT ![c] = "failed"]
  /\ Unlock(c, NoValue)
  /\ UNCHANGED <<have, cached, issued, grant>>

\* The caller has used the result.
Take(c) ==
  /\ pc[c] \in {"ok", "failed"}
  /\ pc' = [pc EXCEPT ![c] = "idle"]
  /\ val' = [val EXCEPT ![c] = NoValue]
  /\ grant' = [grant EXCEPT ![c] = NoGrant]
  /\ UNCHANGED <<mu, have, cached, issued>>

\* One step of Retrieve between its call and its return.
Advance(c) ==
  Lock(c) \/ Hit(c) \/ Miss(c) \/ Issue(c) \/ Store(c) \/ Fail(c)

\* The environment: time passes, a context is cancelled, the next call comes
\* with a fresh context.
Tick ==
  /\ now < MaxTime
  /\ now' = now + 1
  /\ UNCHANGED <<chainVars, ctxDone>>

Cancel(c) ==
  /\ ~ctxDone[c]
  /\ ctxDone' = [ctxDone EXCEPT ![c] = TRUE]
  /\ UNCHANGED <<chainVars, now>>

Renew(c) ==
  /\ pc[c] = "idle" /\ ctxDone[c]
  /\ ctxDone' = [ctxDone EXCEPT ![c] = FALSE]
  /\ UNCHANGED <<chainVars, now>>

Next ==
  \/ Tick
  \/ \E c \in Callers :
       \/ Cancel(c)
       \/ Renew(c)
       \/ (Call(c) \/ Advance(c) \/ Take(c)) /\ UNCHANGED <<now, ctxDone>>

Spec == Init /\ [][Next]_vars

(***************************************************************************)
(* Fairness: code steps are taken; sync.Mutex is starvation-free; every    *)
(* caller brings a context that ends, and a provider call whose context    *)
(* has ended returns an error.                                             *)
(***************************************************************************)
Ends(c) ==
  \/ ctxDone[c] /\ Fail(c) /\ UNCHANGED <<now, ctxDone>>
  \/ pc[c] \in {"blocked", "resolving", "answered"} /\ Cancel(c)

Fairness == \A c \in Callers :
  /\ SF_vars(Lock(c) /\ UNCHANGED <<now, ctxDone>>)
  /\ WF_vars((Hit(c) \/ Miss(c)) /\ UNCHANGED <<now, ctxDone>>)
  /\ WF_vars(Ends(c))

FairSpec == Spec /\ Fairness
-----------------------------------------------------------------------------
Holding == {"locked", "resolving", "answered"}

TypeOK ==
  /\ now \in 0..MaxTime
  /\ mu \in Callers \cup {Nobody}
  /\ have \in BOOLEAN
  /\ cached \in Value
  /\ pc \in [Callers -> {"idle", "blocked", "ok", "failed"} \cup Holding]
  /\ val \in [Callers -> Value]
  /\ ctxDone \in [Callers -> BOOLEAN]
  /\ issued \in 0..MaxIssued
  /\ grant \in [Callers -> [hit : BOOLEAN, at : Nat]]

\* At most one call is inside resolve, so one refresh is in flight however
\* many goroutines find the credentials due (chain.mu).
OneResolver ==
  \A c, d \in Callers :
    pc[c] \in {"resolving", "answered"} /\ pc[d] \in {"resolving", "answered"}
      => c = d

\* The verdict that led into resolve is still right when the answer arrives,
\* however long the provider took: the cache is still due and the answer is
\* newer than what it holds, so Store never replaces good or newer credentials.
ResolveStillDue ==
  \A c \in Callers :
    /\ pc[c] \in {"resolving", "answered"} => ~(have /\ ~Due(cached, now))
    /\ pc[c] = "answered" => val[c].serial > cached.serial

\* Credentials handed out of the cache are unexpired for the next minute,
\* which is what expired's slack is for: a request sent within Slack of
\* Retrieve's answer carries credentials that are still valid.
HitUsableForSlack ==
  \A c \in Callers :
    pc[c] = "ok" /\ grant[c].hit /\ now <= grant[c].at + Slack
      => val[c].expires = NoExpiry \/ now < val[c].expires

\* Retrieve answers every caller, although a caller cannot leave the queue
\* for the mutex: the holder's own context bounds how long the others wait.
EveryRetrieveReturns ==
  \A c \in Callers : pc[c] = "blocked" ~> pc[c] \in {"ok", "failed"}

\* The refinement mapping: where CredProvider sees a call and its value.
callBar ==
  [c \in Callers |-> IF pc[c] \in {"idle", "ok", "failed"} THEN pc[c] ELSE "pending"]
valBar == [c \in Callers |-> IF pc[c] = "answered" THEN NoValue ELSE val[c]]

Promise == INSTANCE CredProvider WITH
  current <- cached, call <- callBar, val <- valBar

\* Retrieve behaves as if a call were answered in one step (CredProvider).
PromiseKept == Promise!Spec
=============================================================================
