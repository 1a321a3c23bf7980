------------------------------ MODULE MCConverse ------------------------------
(* Instances of Converse for TLC. *)
EXTENDS Converse

Header(k, v) == [kind |-> k, n |-> v]
NoHeader == Header("none", 0)

\* WithBackoff may give any duration; the first retry need not wait at all.
MCBackoff == [a \in 0..2 |-> a]

Client(b, e) == [bearer |-> b, endpoint |-> e, custom |-> FALSE]
SharedSetup == {Client(FALSE, "good")}
AllSetups ==
  {Client(b, e) : b \in BOOLEAN, e \in {"good", "hostless", "unparsable"}}
    \cup {[Client(TRUE, "good") EXCEPT !.custom = TRUE]}

DefaultHeaders == {NoHeader, Header("secs", 2), Header("date", 3)}
\* The last one is more seconds than a time.Duration holds.
HugeHeaders == {NoHeader, Header("secs", 2), Header("secs", 9)}
SecondHeader == {Header("secs", 1)}
===============================================================================
