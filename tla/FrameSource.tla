---------------------------- MODULE FrameSource ----------------------------
(***************************************************************************)
(* What the reader of a Stream may rely on, whatever the network does: the *)
(* frames the server has sent come in their order; until a call fails none *)
(* is missing; the end is reported, before any failure, only where the     *)
(* body ends between two frames; a server error among the frames is told   *)
(* from an event.  After a failure frames may be missing, but those that   *)
(* come are still whole and in order.                                      *)
(***************************************************************************)
EXTENDS Naturals, Sequences

VARIABLES
  items,    \* the frames sent as a whole: intact or not, and what they carry
  partial,  \* the body stops inside a frame
  clean,    \* no call has failed yet
  last,     \* the last frame given
  got       \* what the calls of Recv returned

vars == <<items, partial, clean, last, got>>

Item == [intact : BOOLEAN, carries : {"event", "apierror"}]

Init ==
  /\ items \in Seq(Item) /\ partial \in BOOLEAN
  /\ clean = TRUE
  /\ last = 0
  /\ got = <<>>

Give ==
  \E i \in 1..Len(items) :
    /\ items[i].intact
    /\ IF clean THEN i = last + 1 ELSE i > last
    /\ last' = i
    /\ got' = Append(got, items[i].carries)
    /\ UNCHANGED <<items, partial, clean>>

Fail ==
  /\ clean' = FALSE
  /\ got' = Append(got, "error")
  /\ UNCHANGED <<items, partial, last>>

\* io.EOF.
End ==
  /\ clean => last = Len(items) /\ ~partial
  /\ clean' = FALSE
  /\ got' = Append(got, "EOF")
  /\ UNCHANGED <<items, partial, last>>

Next == Give \/ Fail \/ End

Spec == Init /\ [][Next]_vars
=============================================================================
