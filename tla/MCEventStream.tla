---------------------------- MODULE MCEventStream ----------------------------
(* Instances of EventStream for TLC: a prelude is 3 and a trailer 1 long. *)
EXTENDS EventStream

Good(n) == [size |-> n, total |-> n, hlen |-> n - 4, prelude |-> "intact",
            body |-> "intact", headers |-> "strings", message |-> "event",
            known |-> TRUE, json |-> TRUE]

\* An event, and an exception whose payload would pass for one.
Small == Good(4)
Large == [Good(6) EXCEPT !.message = "exception"]
Unknown == [Small EXCEPT !.known = FALSE]
BadJson == [Small EXCEPT !.json = FALSE]
OtherError == [Unknown EXCEPT !.message = "error"]
BadPrelude == [Large EXCEPT !.prelude = "damaged"]
BadBody == [Large EXCEPT !.body = "damaged"]
BadHeaders == [Large EXCEPT !.headers = "malformed"]
OtherHeaders == [Large EXCEPT !.headers = "othertype"]
\* A sender that miscounts: too short for a frame, headers too long, and a
\* damaged message that claims a byte of the next frame.
TooShort == [Small EXCEPT !.total = 3]
LongHeaders == [Small EXCEPT !.hlen = 1]
Greedy == [BadBody EXCEPT !.total = 7]

AllFrames == {Small, Large, BadPrelude, BadBody, BadHeaders, OtherHeaders,
              TooShort, LongHeaders, Greedy, Unknown, BadJson, OtherError}

\* Any two frames, and any frame between two that are good or spill over.
Outer == {Small, Large, BadBody, Greedy}
MixedWires == UNION {[1..n -> AllFrames] : n \in 0..2}
                \cup {<<a, b, c>> : a \in Outer, b \in AllFrames, c \in Outer}
==============================================================================
