---------------------------- MODULE CredProvider ----------------------------
(***************************************************************************)
(* What creds.Provider promises: "returns credentials, refreshing as       *)
(* needed".  A call is answered in one indivisible step, by the current    *)
(* value while it is good for at least another Slack, and otherwise by a   *)
(* newer value, which becomes the current one, or by an error.  CredChain  *)
(* implements this specification with a mutex and a slow resolution.       *)
(***************************************************************************)
EXTENDS Credentials

CONSTANT Callers   \* goroutines that call Retrieve

VARIABLES
  now,       \* the clock
  have,      \* some value has been obtained
  current,   \* the latest value obtained
  call,      \* call[c]: where caller c is
  val        \* val[c]: what the call of c returned

vars == <<now, have, current, call, val>>

Good == have /\ ~Due(current, now)

Init ==
  /\ now \in Nat
  /\ have = FALSE
  /\ current = NoValue
  /\ call = [c \in Callers |-> "idle"]
  /\ val = [c \in Callers |-> NoValue]

Finish(c, how, v) ==
  /\ call[c] = "pending"
  /\ call' = [call EXCEPT ![c] = how]
  /\ val' = [val EXCEPT ![c] = v]
  /\ UNCHANGED now

Call(c) ==
  /\ call[c] = "idle"
  /\ call' = [call EXCEPT ![c] = "pending"]
  /\ UNCHANGED <<now, have, current, val>>

Reuse(c) ==
  /\ Good
  /\ Finish(c, "ok", current)
  /\ UNCHANGED <<have, current>>

Renew(c) ==
  /\ ~Good
  /\ current' \in Value
  /\ current'.serial > current.serial
  /\ have' = TRUE
  /\ Finish(c, "ok", current')

Refuse(c) ==
  /\ ~Good
  /\ Finish(c, "failed", NoValue)
  /\ UNCHANGED <<have, current>>

Take(c) ==
  /\ call[c] \in {"ok", "failed"}
  /\ call' = [call EXCEPT ![c] = "idle"]
  /\ val' = [val EXCEPT ![c] = NoValue]
  /\ UNCHANGED <<now, have, current>>

Tick ==
  /\ now' \in Nat
  /\ now' > now
  /\ UNCHANGED <<have, current, call, val>>

Next ==
  \/ Tick
  \/ \E c \in Callers :
       Call(c) \/ Reuse(c) \/ Renew(c) \/ Refuse(c) \/ Take(c)

Spec == Init /\ [][Next]_vars
=============================================================================
