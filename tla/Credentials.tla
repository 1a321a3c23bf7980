----------------------------- MODULE Credentials -----------------------------
(***************************************************************************)
(* creds.Value and the expiry test, shared by the modules that pass        *)
(* credentials around.  Key material is abstracted to the order in which   *)
(* it was issued.                                                          *)
(***************************************************************************)
EXTENDS Naturals

CONSTANTS
  Slack,     \* time.Minute, in clock ticks
  Expiries   \* instants at which issued credentials may expire

ASSUME CredentialsAssumption ==
  /\ Slack \in Nat
  /\ Expiries \subseteq Nat \ {0}

\* Value.Expires is the zero time: the credentials are not temporary.
NoExpiry == 0

Value == [serial : Nat, expires : Expiries \cup {NoExpiry}]

\* The zero Value{}, returned along with an error.
NoValue == [serial |-> 0, expires |-> NoExpiry]

\* A faulty expired(): After in place of !Before, so the last instant is missed.
DueLate(v, t) == v.expires # NoExpiry /\ t + Slack > v.expires

\* chain.expired at time t: v has expired, or will within Slack.
Due(v, t) == v.expires # NoExpiry /\ ~(t + Slack < v.expires)
=============================================================================
