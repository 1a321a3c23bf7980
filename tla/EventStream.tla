----------------------------- MODULE EventStream -----------------------------
(***************************************************************************)
(* eventstream.Decoder on a response body, and Stream.Recv, which calls it *)
(* and turns frames into events.  The wire is a sequence of frames laid    *)
(* end to end; positions are byte offsets, contents are what the decoder   *)
(* finds in them.  The server or the network may cut the body anywhere,    *)
(* and the reader may call again after an error: a Decoder remembers       *)
(* nothing but how far its reader has been read.                           *)
(* A CRC-32 is taken to reject every damaged or misaligned prelude.        *)
(***************************************************************************)
EXTENDS Integers, Sequences, FiniteSets

CONSTANTS
  Wires,       \* what a server may send
  PreludeLen,  \* 12 bytes
  TrailerLen,  \* 4 bytes
  W,           \* lengths are integers modulo W = 2^32
  MaxNexts     \* bound: calls of Next

\* size: bytes on the wire; total, hlen: the lengths the prelude claims;
\* message: the header :message-type; known: :event-type is one of the six kinds
\* of event; json: the payload unmarshals into it.
Frame == [size : Nat, total : Nat, hlen : Nat, prelude : {"intact", "damaged"},
          body : {"intact", "damaged"},
          headers : {"strings", "othertype", "malformed"},
          message : {"event", "exception", "error"}, known : BOOLEAN,
          json : BOOLEAN]

MinLen == PreludeLen + TrailerLen

ASSUME EventStreamAssumption ==
  /\ PreludeLen \in Nat \ {0} /\ TrailerLen \in Nat \ {0}
  /\ W \in Nat /\ W > MinLen
  /\ MaxNexts \in Nat
  /\ Wires \subseteq Seq(Frame)
  /\ \A w \in Wires : \A i \in 1..Len(w) :
       /\ w[i].size >= MinLen /\ w[i].total < W /\ w[i].hlen < W
       /\ w[i].prelude = "intact" /\ w[i].body = "intact" /\ w[i].total >= MinLen
            => w[i].total = w[i].size

VARIABLES
  wire,     \* the frames the server means to send
  cut,      \* the body is sent up to this offset
  arrived,  \* bytes that have reached the client
  ending,   \* how reads end: "" while open, then "EOF", "UnexpectedEOF", "reset"
  pos,      \* bytes read by the Decoder
  st,       \* where Next is
  cur,      \* the frame whose prelude Next has accepted
  results   \* what the calls of Recv returned, in order

transport == <<wire, cut, arrived, ending>>
vars == <<transport, pos, st, cur, results>>

\* Offset at which frame i begins; frame Len(w)+1 is the end of the body.
Start(w, i) ==
  LET end[k \in 0..Len(w)] == IF k = 0 THEN 0 ELSE end[k - 1] + w[k].size
  IN end[i - 1]

\* The frames that start at offset p: one, or none if p is inside a frame.
FrameAt(p) == {i \in 1..Len(wire) : Start(wire, i) = p}

Init ==
  /\ wire \in Wires
  /\ cut \in 0..Start(wire, Len(wire) + 1)
  /\ arrived = 0
  /\ ending = ""
  /\ pos = 0
  /\ st = "idle"
  /\ cur = 0
  /\ results = <<>>

-----------------------------------------------------------------------------
(* The transport. *)

Arrive ==
  /\ ending = ""
  /\ arrived' \in (arrived + 1)..cut
  /\ UNCHANGED <<wire, cut, ending, pos, st, cur, results>>

\* The body ends: its proper end, a connection closed early (net/http reports
\* UnexpectedEOF if the framing of HTTP shows it), or a reset.
BodyEnds ==
  /\ ending = "" /\ arrived = cut
  /\ ending' \in {"EOF", "UnexpectedEOF"}
  /\ UNCHANGED <<wire, cut, arrived, pos, st, cur, results>>

\* A connection reset, the end of the context, or Stream.Close by another
\* goroutine: what arrived and was not read may be lost.
Abort ==
  /\ ending # "reset"
  /\ ending' = "reset"
  /\ arrived' \in pos..arrived
  /\ UNCHANGED <<wire, cut, pos, st, cur, results>>

-----------------------------------------------------------------------------
(* Next: two calls of io.ReadFull, each of which waits for n bytes. *)

\* A faulty read that is content with one Read.
CanReadSome(n) == arrived > pos

CanRead(n) == arrived - pos >= n

\* ReadFull took what there was, less than n bytes.
FallsShort(n) == ending # "" /\ ~CanRead(n)

ReadFullError ==
  IF ending = "EOF" /\ arrived > pos THEN "UnexpectedEOF" ELSE ending

Return(kind, i) ==
  /\ st' = "idle"
  /\ cur' = 0
  /\ results' = Append(results, [kind |-> kind, frame |-> i])

Call ==
  /\ st = "idle" /\ Len(results) < MaxNexts
  /\ st' = "prelude"
  /\ UNCHANGED <<transport, pos, cur, results>>

PreludeShort ==
  /\ st = "prelude" /\ FallsShort(PreludeLen)
  /\ pos' = arrived
  /\ Return(IF ReadFullError = "UnexpectedEOF" THEN "truncated" ELSE ReadFullError, 0)
  /\ UNCHANGED transport

\* A faulty test that relies on headersLen alone.
LengthsInvalidLax(f) == f.hlen > (f.total - MinLen) % W

\* totalLen < 16 || headersLen > totalLen-16, in uint32.
LengthsInvalid(f) == f.total < MinLen \/ f.hlen > (f.total - MinLen) % W

\* The 12 bytes read are not a prelude of a valid frame.
PreludeRejected ==
  /\ st = "prelude" /\ CanRead(PreludeLen)
  /\ \A i \in FrameAt(pos) :
       wire[i].prelude = "damaged" \/ LengthsInvalid(wire[i])
  /\ pos' = pos + PreludeLen
  /\ Return("prelude", 0)
  /\ UNCHANGED transport

PreludeAccepted ==
  /\ st = "prelude" /\ CanRead(PreludeLen)
  /\ \E i \in FrameAt(pos) :
       /\ wire[i].prelude = "intact" /\ ~LengthsInvalid(wire[i])
       /\ cur' = i
  /\ pos' = pos + PreludeLen
  /\ st' = "rest"
  /\ UNCHANGED <<transport, results>>

RestLen == wire[cur].total - PreludeLen

\* A faulty error path that lets the EOF of ReadFull through.
RestShortEOF ==
  /\ st = "rest" /\ FallsShort(RestLen)
  /\ pos' = arrived
  /\ Return(IF ReadFullError = "UnexpectedEOF" THEN "truncated" ELSE ReadFullError, 0)
  /\ UNCHANGED transport

\* A faulty read that tries again after a reset.
RestShortEOFOnly ==
  /\ st = "rest" /\ FallsShort(RestLen) /\ ending # "reset"
  /\ pos' = arrived
  /\ Return("truncated", 0)
  /\ UNCHANGED transport

RestShort ==
  /\ st = "rest" /\ FallsShort(RestLen)
  /\ pos' = arrived
  /\ Return(IF ending = "reset" THEN "reset" ELSE "truncated", 0)
  /\ UNCHANGED transport

\* A faulty check of the message that is made before the body is consumed.
BodyRejectedEarly ==
  /\ st = "rest" /\ CanRead(RestLen)
  /\ wire[cur].body = "damaged" \/ wire[cur].headers # "strings"
  /\ pos' = pos + wire[cur].hlen
  /\ Return("body", 0)
  /\ UNCHANGED transport

\* The message CRC is wrong, or decodeHeaders fails, after all bytes are read.
BodyRejected ==
  /\ st = "rest" /\ CanRead(RestLen)
  /\ wire[cur].body = "damaged" \/ wire[cur].headers # "strings"
  /\ pos' = pos + RestLen
  /\ Return("body", 0)
  /\ UNCHANGED transport

\* decodeEvent: the typed payload, or nil.
Decoded(f) == IF f.known /\ f.json THEN "decoded" ELSE "raw"

\* A faulty Recv that looks at the message type only of what it cannot decode.
EventDecodedFirst(f) ==
  IF Decoded(f) = "raw" /\ f.message \in {"exception", "error"} THEN "apierror" ELSE Decoded(f)

\* The Event of a frame: a server error is not decoded, whatever its type.
Event(f) ==
  IF f.message \in {"exception", "error"} THEN "apierror" ELSE Decoded(f)

\* A faulty Next without the message CRC.
DeliverUnchecked ==
  /\ st = "rest" /\ CanRead(RestLen)
  /\ wire[cur].headers = "strings"
  /\ pos' = pos + RestLen
  /\ Return(Event(wire[cur]), cur)
  /\ UNCHANGED transport

Deliver ==
  /\ st = "rest" /\ CanRead(RestLen)
  /\ wire[cur].body = "intact" /\ wire[cur].headers = "strings"
  /\ pos' = pos + RestLen
  /\ Return(Event(wire[cur]), cur)
  /\ UNCHANGED transport

ReadRest == RestShort \/ BodyRejected \/ Deliver

ReadPrelude == PreludeShort \/ PreludeRejected \/ PreludeAccepted

Next == Arrive \/ BodyEnds \/ Abort \/ Call \/ ReadPrelude \/ ReadRest

Spec == Init /\ [][Next]_vars

(***************************************************************************)
(* Fairness: the reading goroutine runs, and the request's context ends if *)
(* nothing else ends the body.  The server owes nothing.                   *)
(***************************************************************************)
FairSpec ==
  /\ Spec
  /\ WF_vars(ReadPrelude \/ ReadRest)
  /\ WF_vars(st # "idle" /\ Abort)
-----------------------------------------------------------------------------
Events == {"decoded", "raw", "apierror"}
Kinds == Events \cup {"EOF", "truncated", "prelude", "body", "reset"}

TypeOK ==
  /\ wire \in Wires
  /\ cut \in 0..Start(wire, Len(wire) + 1)
  /\ pos \in 0..arrived /\ arrived \in 0..cut
  /\ ending \in {"", "EOF", "UnexpectedEOF", "reset"}
  /\ st \in {"idle", "prelude", "rest"}
  /\ cur \in 0..Len(wire) /\ (cur = 0 <=> st # "rest")
  /\ Len(results) <= MaxNexts
  /\ results \in Seq([kind : Kinds, frame : 0..Len(wire)])

Frames(w) == {i \in 1..Len(w) : /\ w[i].prelude = "intact" /\ ~LengthsInvalid(w[i])
                                /\ w[i].body = "intact" /\ w[i].headers = "strings"}

\* The slices Next takes are in range: the trailer, body[:headersLen] and
\* body[headersLen:] of a frame whose lengths it has accepted.
SlicesInRange ==
  st = "rest" => RestLen >= TrailerLen /\ wire[cur].hlen <= RestLen - TrailerLen

\* Frames come out whole, undamaged, in order and once, whatever errors the
\* reader ignored on the way.
DeliveredInOrder ==
  \A k \in 1..Len(results) : results[k].kind \in Events =>
    /\ results[k].frame \in Frames(wire)
    /\ \A j \in 1..(k - 1) : results[j].frame < results[k].frame

Errors == {k \in 1..Len(results) : results[k].kind \notin Events}

\* No frame is passed over in silence: up to the first error the results are
\* the frames of the wire from the first on, and if that error is io.EOF the
\* body ended properly, between two frames, and everything it held came out.
NothingLostInSilence ==
  \A k \in 1..Len(results) : (\A j \in 1..(k - 1) : j \notin Errors) =>
    /\ results[k].kind \in Events => results[k].frame = k
    /\ results[k].kind = "EOF" => cut = Start(wire, k) /\ ending # "UnexpectedEOF"

\* Damage that the message CRC or the header decoder finds costs one frame: if
\* all preludes are right, a reader that carries on has got every good frame
\* when it sees the proper end.
OneBadFrameCostsOne ==
  /\ \A i \in 1..Len(wire) : /\ wire[i].prelude = "intact"
                             /\ wire[i].total = wire[i].size
                             /\ ~LengthsInvalid(wire[i])
  /\ cut = Start(wire, Len(wire) + 1)
  /\ ending = "EOF"
  /\ \E k \in 1..Len(results) : results[k].kind = "EOF"
  => \A i \in Frames(wire) : \E k \in 1..Len(results) : results[k].frame = i

\* The mapping to FrameSource.  The frames that were sent are those the body
\* holds as a whole.
Sent == {k \in 1..Len(wire) : Start(wire, k + 1) <= cut}

Source == INSTANCE FrameSource WITH
  items <- [k \in Sent |->
              [intact |-> k \in Frames(wire),
               carries |-> IF wire[k].message = "event" THEN "event" ELSE "apierror"]],
  partial <- \A k \in 1..(Len(wire) + 1) : Start(wire, k) # cut,
  clean <- Errors = {},
  last <- Cardinality({i \in 1..Len(wire) : \E k \in 1..Len(results) : results[k].frame >= i}),
  got <- [k \in 1..Len(results) |->
            CASE results[k].kind \in {"decoded", "raw"} -> "event"
              [] results[k].kind \in {"apierror", "EOF"} -> results[k].kind
              [] OTHER -> "error"]

\* Recv on a body that may be cut, damaged or reset keeps the promise of
\* FrameSource: in particular a server error inside the stream reaches the
\* reader as an error, in its place, and never as an event.
SourceKept == Source!Spec

\* Next returns, however slow the server, because the context ends.
NextReturns == st # "idle" ~> st = "idle"
=============================================================================
