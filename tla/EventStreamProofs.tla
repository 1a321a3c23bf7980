-------------------------- MODULE EventStreamProofs --------------------------
(***************************************************************************)
(* Proofs about EventStream, for every wire, every size of prelude and     *)
(* trailer and every width of the length fields: the decoder slices within *)
(* the bytes it has read, delivers frames whole and in order and skips     *)
(* none in silence, and so implements FrameSource.                         *)
(***************************************************************************)
EXTENDS EventStream, SetInduction, FiniteSetTheorems, TLAPS

\* A frame whose rest is being read has passed the test of its lengths.
Accepted == st = "rest" => ~LengthsInvalid(wire[cur])

\* A call under way has room for its result.
RoomLeft == st # "idle" => Len(results) < MaxNexts

IInv == TypeOK /\ Accepted /\ RoomLeft

\* The sizes of the parts of a frame are natural numbers.
LEMMA Sizes == PreludeLen \in Nat /\ TrailerLen \in Nat /\ W \in Nat /\ MinLen \in Nat
  BY EventStreamAssumption DEF MinLen

\* What TypeOK gives arithmetic to work with.
Bounds ==
  /\ wire \in Seq(Frame) /\ Len(wire) \in Nat
  /\ cut \in Nat /\ arrived \in Nat /\ pos \in Nat /\ MaxNexts \in Nat
  /\ pos <= arrived /\ arrived <= cut

\* Positions are numbers, and the wire is a sequence of frames.
LEMMA Positions ==
  ASSUME TypeOK
  PROVE  Bounds
<1>1. wire \in Wires /\ cut \in 0..Start(wire, Len(wire) + 1)
      /\ pos \in 0..arrived /\ arrived \in 0..cut
  BY DEF TypeOK
<1>2. wire \in Seq(Frame) /\ MaxNexts \in Nat
  BY <1>1, EventStreamAssumption
<1>3. cut \in Nat
  BY <1>1
<1>4. arrived \in Nat /\ arrived <= cut
  BY <1>1, <1>3
<1>5. pos \in Nat /\ pos <= arrived
  BY <1>1, <1>4
<1> QED BY <1>2, <1>3, <1>4, <1>5 DEF Bounds

\* What TypeOK says of the frame that is being read.
LEMMA CurrentFrame ==
  ASSUME TypeOK, st = "rest"
  PROVE  /\ cur \in 1..Len(wire) /\ wire[cur] \in Frame
         /\ wire[cur].total \in Nat /\ wire[cur].total < W /\ wire[cur].hlen \in Nat
<1>1. wire \in Wires /\ cur \in 0..Len(wire) /\ cur # 0
  BY DEF TypeOK
<1>2. wire \in Seq(Frame) /\ Len(wire) \in Nat
  BY <1>1, EventStreamAssumption
<1>3. cur \in 1..Len(wire)
  BY <1>1, <1>2
<1>4. wire[cur] \in Frame
  BY <1>2, <1>3
<1>5. wire[cur].total < W
  BY <1>1, <1>3, EventStreamAssumption
<1> QED BY <1>3, <1>4, <1>5 DEF Frame

\* totalLen-16 does not wrap where the test is passed: what is left of the frame
\* holds the trailer and, in front of it, the headers.
LEMMA NoWrap ==
  ASSUME NEW f \in Frame, f.total < W, ~LengthsInvalid(f)
  PROVE  f.total - PreludeLen >= TrailerLen /\ f.hlen <= f.total - PreludeLen - TrailerLen
<1>1. f.total \in Nat /\ f.hlen \in Nat
  BY DEF Frame
<1>2. f.total >= MinLen /\ f.hlen <= (f.total - MinLen) % W
  BY <1>1, Sizes DEF LengthsInvalid
<1>3. f.total - MinLen \in 0..(W - 1)
  BY <1>1, <1>2, Sizes
<1>4. (f.total - MinLen) % W = f.total - MinLen
  BY <1>3, Sizes
<1> QED BY <1>1, <1>2, <1>4, Sizes DEF MinLen

\* Lengths that passed the test of the prelude leave room for headers and trailer.
LEMMA InvariantImplies == IInv => SlicesInRange
<1> SUFFICES ASSUME IInv, st = "rest"
             PROVE  RestLen >= TrailerLen /\ wire[cur].hlen <= RestLen - TrailerLen
  BY DEF SlicesInRange
<1> QED BY CurrentFrame, NoWrap DEF IInv, Accepted, RestLen

\* A decoder that has read nothing satisfies the invariant.
LEMMA InitInvariant == Init => IInv
<1> SUFFICES ASSUME Init PROVE IInv
  OBVIOUS
<1> DEFINE R == [kind : Kinds, frame : 0..Len(wire)]
<1>1. /\ wire \in Wires /\ cut \in 0..Start(wire, Len(wire) + 1) /\ arrived = 0 /\ pos = 0
      /\ cur = 0 /\ results = <<>>
  BY DEF Init
<1>2. wire \in Seq(Frame) /\ Len(wire) \in Nat /\ MaxNexts \in Nat
  BY <1>1, EventStreamAssumption
<1>3. pos \in 0..arrived /\ arrived \in 0..cut
  <2>1. cut \in Nat
    BY <1>1
  <2> QED BY <1>1, <2>1
<1>4. cur \in 0..Len(wire) /\ (cur = 0 <=> st # "rest")
  <2>1. st = "idle"
    BY DEF Init
  <2> QED BY <1>1, <1>2, <2>1
<1>5. Len(results) <= MaxNexts /\ results \in Seq(R)
  <2> HIDE DEF R
  <2> QED BY <1>1, <1>2
<1>6. TypeOK
  BY <1>1, <1>3, <1>4, <1>5 DEF Init, TypeOK
<1>7. Accepted /\ RoomLeft
  BY DEF Init, Accepted, RoomLeft
<1> QED BY <1>6, <1>7 DEF IInv

\* A call that returns leaves a result of the right type, and the decoder idle.
LEMMA ReturnKeeps ==
  ASSUME IInv, st # "idle", wire' = wire, cut' = cut, arrived' = arrived,
         ending' = ending, pos' \in 0..arrived,
         NEW kind \in Kinds, NEW i \in 0..Len(wire), Return(kind, i)
  PROVE  IInv'
<1>0. Bounds
  BY Positions DEF IInv
<1> DEFINE R == [kind : Kinds, frame : 0..Len(wire)]
           r == [kind |-> kind, frame |-> i]
<1>1. r \in R /\ results \in Seq(R) /\ Len(results) < MaxNexts /\ results' = Append(results, r)
  BY DEF Return, IInv, TypeOK, RoomLeft
<1>2. results' \in Seq(R) /\ Len(results') <= MaxNexts
  <2> HIDE DEF R, r
  <2> QED BY <1>0, <1>1 DEF Bounds
<1>3. st' = "idle" /\ cur' = 0
  BY DEF Return
<1>4. 0 \in 0..Len(wire)
  BY <1>0 DEF Bounds
<1>5. TypeOK'
  BY <1>2, <1>3, <1>4 DEF IInv, TypeOK
<1> QED BY <1>3, <1>5 DEF IInv, Accepted, RoomLeft

\* What the transport does leaves the decoder as it was.
LEMMA TransportStep == IInv /\ (Arrive \/ BodyEnds \/ Abort) => IInv'
<1> SUFFICES ASSUME IInv, Arrive \/ BodyEnds \/ Abort PROVE IInv'
  OBVIOUS
<1>0. Bounds
  BY Positions DEF IInv
<1>1. /\ wire' = wire /\ cut' = cut /\ pos' = pos /\ st' = st /\ cur' = cur
      /\ results' = results
  BY DEF Arrive, BodyEnds, Abort
<1>2. pos \in 0..arrived' /\ arrived' \in 0..cut
  <2>1. CASE Arrive
    <3>1. arrived' \in (arrived + 1)..cut
      BY <2>1 DEF Arrive
    <3> QED BY <1>0, <3>1 DEF Bounds
  <2>2. CASE BodyEnds
    <3>1. arrived' = arrived
      BY <2>2 DEF BodyEnds
    <3> QED BY <1>0, <3>1 DEF Bounds
  <2>3. CASE Abort
    <3>1. arrived' \in pos..arrived
      BY <2>3 DEF Abort
    <3> QED BY <1>0, <3>1 DEF Bounds
  <2> QED BY <2>1, <2>2, <2>3
<1>3. ending' \in {"", "EOF", "UnexpectedEOF", "reset"}
  BY DEF IInv, TypeOK, Arrive, BodyEnds, Abort
<1>4. TypeOK'
  BY <1>1, <1>2, <1>3 DEF IInv, TypeOK
<1> QED BY <1>1, <1>4 DEF IInv, Accepted, RoomLeft

\* Calling Next keeps the invariant.
LEMMA CallStep == IInv /\ Call => IInv'
  BY DEF IInv, TypeOK, Accepted, RoomLeft, Call, transport

\* Reading a prelude, or failing to, keeps the invariant.
LEMMA PreludeStep == IInv /\ ReadPrelude => IInv'
<1> SUFFICES ASSUME IInv, ReadPrelude PROVE IInv'
  OBVIOUS
<1>0. Bounds
  BY Positions DEF IInv
<1>1. 0 \in 0..Len(wire) /\ arrived \in Nat /\ pos \in 0..arrived /\ PreludeLen \in Nat
  BY <1>0, Sizes DEF Bounds
<1>2. CASE PreludeShort
  <2>1. (IF ReadFullError = "UnexpectedEOF" THEN "truncated" ELSE ReadFullError) \in Kinds
    BY <1>2 DEF PreludeShort, FallsShort, ReadFullError, Kinds, IInv, TypeOK
  <2> QED BY <1>1, <1>2, <2>1, ReturnKeeps DEF PreludeShort, transport
<1>3. CASE PreludeRejected
  <2>1. pos + PreludeLen \in 0..arrived
    BY <1>1, <1>3 DEF PreludeRejected, CanRead
  <2>2. "prelude" \in Kinds
    BY DEF Kinds
  <2> QED BY <1>1, <1>3, <2>1, <2>2, ReturnKeeps DEF PreludeRejected, transport
<1>4. CASE PreludeAccepted
  <2>1. PICK k \in FrameAt(pos) : ~LengthsInvalid(wire[k]) /\ cur' = k
    BY <1>4 DEF PreludeAccepted
  <2>2. k \in 1..Len(wire)
    BY <2>1 DEF FrameAt
  <2>3. pos' \in 0..arrived
    BY <1>1, <1>4 DEF PreludeAccepted, CanRead
  <2>4. /\ wire' = wire /\ cut' = cut /\ arrived' = arrived /\ ending' = ending
        /\ st = "prelude" /\ st' = "rest" /\ results' = results
    BY <1>4 DEF PreludeAccepted, transport
  <2>5. cur' \in 0..Len(wire') /\ (cur' = 0 <=> st' # "rest")
    BY <1>0, <2>1, <2>2, <2>4 DEF Bounds
  <2>6. TypeOK'
    BY <2>3, <2>4, <2>5 DEF IInv, TypeOK
  <2>7. ~LengthsInvalid(wire[k])'
    BY <2>1, <2>4 DEF LengthsInvalid
  <2> QED BY <2>1, <2>4, <2>6, <2>7 DEF IInv, Accepted, RoomLeft
<1> QED BY <1>2, <1>3, <1>4 DEF ReadPrelude

\* Reading the rest of a frame, or failing to, keeps the invariant.
LEMMA RestStep == IInv /\ ReadRest => IInv'
<1> SUFFICES ASSUME IInv, ReadRest PROVE IInv'
  OBVIOUS
<1>0. Bounds
  BY Positions DEF IInv
<1>1. st = "rest" /\ st # "idle"
  BY DEF ReadRest, RestShort, BodyRejected, Deliver
<1>2. cur \in 1..Len(wire) /\ 0 \in 0..Len(wire) /\ cur \in 0..Len(wire)
  BY <1>0, <1>1, CurrentFrame DEF Bounds, IInv
<1>3. RestLen \in Nat /\ RestLen >= TrailerLen
  BY <1>1, CurrentFrame, NoWrap, Sizes DEF IInv, Accepted, RestLen
<1>4. CanRead(RestLen) => pos + RestLen \in 0..arrived
  BY <1>0, <1>3 DEF Bounds, CanRead
<1>5. arrived \in 0..arrived
  BY <1>0 DEF Bounds
<1>6. CASE RestShort
  <2>1. (IF ending = "reset" THEN "reset" ELSE "truncated") \in Kinds
    BY DEF Kinds
  <2> QED BY <1>1, <1>2, <1>5, <1>6, <2>1, ReturnKeeps DEF RestShort, transport
<1>7. CASE BodyRejected
  <2>1. "body" \in Kinds
    BY DEF Kinds
  <2> QED BY <1>1, <1>2, <1>4, <1>7, <2>1, ReturnKeeps DEF BodyRejected, transport
<1>8. CASE Deliver
  <2>1. Event(wire[cur]) \in Kinds
    BY DEF Kinds, Events, Event, Decoded
  <2> QED BY <1>1, <1>2, <1>4, <1>8, <2>1, ReturnKeeps DEF Deliver, transport
<1> QED BY <1>6, <1>7, <1>8 DEF ReadRest

\* Every step keeps the invariant.
LEMMA StepInvariant == IInv /\ [Next]_vars => IInv'
<1> SUFFICES ASSUME IInv, [Next]_vars PROVE IInv'
  OBVIOUS
<1>1. CASE UNCHANGED vars
  <2>1. /\ wire' = wire /\ cut' = cut /\ arrived' = arrived /\ ending' = ending
        /\ pos' = pos /\ st' = st /\ cur' = cur /\ results' = results
    BY <1>1 DEF vars, transport
  <2>2. TypeOK'
    BY <2>1 DEF IInv, TypeOK
  <2> QED BY <2>1, <2>2 DEF IInv, Accepted, RoomLeft
<1> QED BY <1>1, TransportStep, CallStep, PreludeStep, RestStep DEF Next

\* The variables of the decoder and its results have their types.
THEOREM DecoderTyped == Spec => []TypeOK
<1>1. IInv => TypeOK
  BY DEF IInv
<1> QED BY InitInvariant, StepInvariant, <1>1, PTL DEF Spec

\* No slice that Next takes is out of range, although the lengths are computed
\* modulo the width of an unsigned integer: a frame cannot make it panic.
THEOREM SlicesSafe == Spec => []SlicesInRange
<1> QED BY InitInvariant, StepInvariant, InvariantImplies, PTL DEF Spec

-----------------------------------------------------------------------------
(* A reader that carries on gets somewhere. *)

\* A result of Recv that says how the body ended.
Endings == {"EOF", "truncated", "reset"}

\* What a step may do to the results.
OneResult ==
  \E k \in Kinds, f \in 0..Len(wire) :
    /\ results' = Append(results, [kind |-> k, frame |-> f])
    /\ IF k \in Endings THEN ending # "" /\ pos' = arrived ELSE pos' > pos

\* What Return does to them.
LEMMA ReturnsOne ==
  ASSUME NEW k \in Kinds, NEW f \in 0..Len(wire), Return(k, f),
         IF k \in Endings THEN ending # "" /\ pos' = arrived ELSE pos' > pos
  PROVE  OneResult
<1>1. results' = Append(results, [kind |-> k, frame |-> f])
  BY DEF Return
<1> QED BY <1>1 DEF OneResult

\* Each result of Recv is one more and stays.  One that is an event or tells of
\* damage has taken bytes from the body, and the others are returned only when the
\* body has ended and all of it that arrived has been read: a reader that ignores
\* errors is never kept busy by a body that is still open.
THEOREM ReadsProgress ==
  Spec => [][pos' >= pos /\ (results' # results => OneResult)]_vars
<1>1. ASSUME IInv, Next PROVE pos' >= pos /\ (results' # results => OneResult)
  <2>0. /\ Bounds /\ TypeOK /\ Accepted
        /\ PreludeLen \in Nat /\ PreludeLen > 0 /\ TrailerLen \in Nat /\ TrailerLen > 0
    BY <1>1, Positions, EventStreamAssumption DEF IInv
  <2>1. CASE Arrive \/ BodyEnds \/ Abort \/ Call
    <3>1. UNCHANGED <<pos, results>>
      BY <2>1 DEF Arrive, BodyEnds, Abort, Call
    <3> QED BY <2>0, <3>1 DEF Bounds
  <2>2. 0 \in 0..Len(wire) /\ {"truncated", "EOF", "reset", "prelude", "body"} \subseteq Kinds
    BY <2>0 DEF Bounds, Kinds
  <2>3. CASE PreludeShort
    <3>1. ending \in {"EOF", "UnexpectedEOF", "reset"} /\ pos' = arrived
      BY <2>0, <2>3 DEF PreludeShort, FallsShort, TypeOK
    <3>2. PICK k \in Endings : Return(k, 0)
      BY <2>3, <3>1 DEF PreludeShort, ReadFullError, Endings
    <3>3. k \in Kinds /\ pos' >= pos
      BY <2>0, <2>2, <3>1 DEF Bounds, Endings
    <3> QED BY <2>2, <3>1, <3>2, <3>3, ReturnsOne
  <2>4. CASE PreludeRejected
    <3>1. pos' > pos /\ Return("prelude", 0)
      BY <2>0, <2>4 DEF PreludeRejected, Bounds
    <3>2. "prelude" \in Kinds /\ "prelude" \notin Endings
      BY DEF Kinds, Endings
    <3>3. pos' >= pos
      BY <2>0, <2>4 DEF PreludeRejected, Bounds
    <3> QED BY <2>2, <3>1, <3>2, <3>3, ReturnsOne
  <2>5. CASE PreludeAccepted
    BY <2>0, <2>5 DEF PreludeAccepted, Bounds
  <2>6. CASE RestShort
    <3>1. ending # "" /\ pos' = arrived
      BY <2>6 DEF RestShort, FallsShort
    <3>2. PICK k \in Endings : Return(k, 0)
      BY <2>6 DEF RestShort, Endings
    <3>3. k \in Kinds /\ pos' >= pos
      BY <2>0, <2>2, <3>1 DEF Bounds, Endings
    <3> QED BY <2>2, <3>1, <3>2, <3>3, ReturnsOne
  <2>7. CASE BodyRejected \/ Deliver
    <3>1. st = "rest" /\ pos' = pos + RestLen
      BY <2>7 DEF BodyRejected, Deliver
    <3>2. RestLen >= TrailerLen /\ RestLen \in Int /\ cur \in 0..Len(wire)
      BY <2>0, <3>1, CurrentFrame, NoWrap DEF Accepted, RestLen
    <3>3. pos' > pos
      BY <2>0, <3>1, <3>2 DEF Bounds
    <3>4. PICK k \in Events \cup {"body"}, f \in {0, cur} : Return(k, f)
      BY <2>7 DEF BodyRejected, Deliver, Event, Decoded, Events
    <3>5. k \in Kinds /\ k \notin Endings /\ f \in 0..Len(wire)
      BY <2>0, <2>2, <3>2, <3>4 DEF Kinds, Events, Endings, Bounds
    <3>6. pos' >= pos
      BY <2>0, <3>1, <3>2 DEF Bounds
    <3> QED BY <3>3, <3>4, <3>5, <3>6, ReturnsOne
  <2> QED BY <1>1, <2>1, <2>3, <2>4, <2>5, <2>6, <2>7 DEF Next, ReadPrelude, ReadRest
<1>2. IInv /\ [Next]_vars => [pos' >= pos /\ (results' # results => OneResult)]_vars
  BY <1>1
<1> QED BY InitInvariant, StepInvariant, <1>2, PTL DEF Spec

-----------------------------------------------------------------------------
(* The offsets of the frames. *)

\* f gives the ends of the first n frames.
Ends(w, n, f) == f = [k \in 0..n |-> IF k = 0 THEN 0 ELSE f[k - 1] + w[k].size]

\* The recursion of Start defines a function.
LEMMA EndsExist ==
  ASSUME NEW w
  PROVE  \A n \in Nat : \E f : Ends(w, n, f)
<1> DEFINE S == {n \in Nat : \E f : Ends(w, n, f)}
<1>1. 0 \in S
  <2>1. Ends(w, 0, [k \in 0..0 |-> 0])
    BY DEF Ends
  <2> QED BY <2>1
<1>2. ASSUME NEW n \in Nat, n \in S PROVE n + 1 \in S
  <2>1. PICK f : Ends(w, n, f)
    BY <1>2
  <2> DEFINE g == [k \in 0..(n + 1) |-> IF k = n + 1 THEN f[n] + w[n + 1].size ELSE f[k]]
  <2>2. \A k \in 0..n : f[k] = IF k = 0 THEN 0 ELSE f[k - 1] + w[k].size
    BY <2>1 DEF Ends
  <2>3. (\A k \in 0..n : g[k] = f[k]) /\ g[n + 1] = g[n] + w[n + 1].size
    OBVIOUS
  <2>4. g = [k \in 0..(n + 1) |-> g[k]]
    OBVIOUS
  <2> HIDE DEF g
  <2>5. ASSUME NEW k \in 0..(n + 1)
        PROVE  g[k] = IF k = 0 THEN 0 ELSE g[k - 1] + w[k].size
    <3>1. CASE k = n + 1
      BY <2>3, <3>1
    <3>2. CASE k # n + 1
      <4>1. k \in 0..n /\ (k # 0 => k - 1 \in 0..n)
        BY <3>2
      <4> QED BY <2>2, <2>3, <4>1
    <3> QED BY <3>1, <3>2
  <2>6. Ends(w, n + 1, g)
    BY <2>4, <2>5 DEF Ends
  <2> QED BY <2>6
<1> HIDE DEF S
<1>3. Nat \subseteq S
  BY <1>1, <1>2, Induction
<1> QED BY <1>3 DEF S

\* The frames are laid end to end.
LEMMA EndToEnd ==
  ASSUME NEW w, Len(w) \in Nat
  PROVE  /\ Start(w, 1) = 0
         /\ \A i \in 1..Len(w) : Start(w, i + 1) = Start(w, i) + w[i].size
<1> DEFINE f == CHOOSE f : Ends(w, Len(w), f)
<1>1. Ends(w, Len(w), f)
  BY EndsExist
<1>2. \A i : Start(w, i) = f[i - 1]
  BY DEF Start, Ends
<1> HIDE DEF f
<1>3. \A k \in 0..Len(w) : f[k] = IF k = 0 THEN 0 ELSE f[k - 1] + w[k].size
  BY <1>1 DEF Ends
<1>4. f[0] = 0
  BY <1>3
<1>5. \A i \in 1..Len(w) : f[i] = f[i - 1] + w[i].size
  BY <1>3
<1>6. \A i \in 1..Len(w) : (i + 1) - 1 = i
  OBVIOUS
<1> QED BY <1>2, <1>4, <1>5, <1>6

\* What a wire is made of.
LEMMA WireTyped ==
  ASSUME NEW w \in Wires
  PROVE  /\ Len(w) \in Nat /\ w \in Seq(Frame)
         /\ \A i \in 1..Len(w) : w[i] \in Frame /\ w[i].size \in Nat /\ w[i].size >= MinLen
<1>1. w \in Seq(Frame) /\ \A i \in 1..Len(w) : w[i].size >= MinLen
  BY EventStreamAssumption
<1>2. Len(w) \in Nat /\ \A i \in 1..Len(w) : w[i] \in Frame
  BY <1>1
<1> QED BY <1>1, <1>2 DEF Frame

\* No frame starts before the ones in front of it have ended.
LEMMA Offsets ==
  ASSUME NEW w \in Wires
  PROVE  /\ \A i \in 1..(Len(w) + 1) : Start(w, i) \in Nat
         /\ \A i \in 1..Len(w) : /\ Start(w, i + 1) = Start(w, i) + w[i].size
                                 /\ Start(w, i) < Start(w, i + 1)
         /\ \A i, j \in 1..(Len(w) + 1) : i < j => Start(w, i + 1) <= Start(w, j)
<1>1. /\ Len(w) \in Nat /\ MinLen \in Nat \ {0}
      /\ \A i \in 1..Len(w) : w[i].size \in Nat /\ w[i].size >= MinLen
  <2>1. MinLen \in Nat \ {0}
    BY EventStreamAssumption DEF MinLen
  <2> QED BY <2>1, WireTyped
<1>2. /\ Start(w, 1) = 0
      /\ \A i \in 1..Len(w) : Start(w, i + 1) = Start(w, i) + w[i].size
  BY <1>1, EndToEnd
<1>3. \A i \in 1..(Len(w) + 1) : Start(w, i) \in Nat
  <2> DEFINE S == {n \in Nat : n <= Len(w) => Start(w, n + 1) \in Nat}
  <2>1. 0 \in S
    BY <1>2
  <2>2. ASSUME NEW n \in Nat, n \in S PROVE n + 1 \in S
    <3>1. ASSUME n + 1 <= Len(w) PROVE Start(w, (n + 1) + 1) \in Nat
      <4>1. n + 1 \in 1..Len(w) /\ Start(w, n + 1) \in Nat
        BY <1>1, <2>2, <3>1
      <4> QED BY <1>1, <1>2, <4>1
    <3> QED BY <3>1
  <2> HIDE DEF S
  <2>3. Nat \subseteq S
    BY <2>1, <2>2, Induction
  <2>4. ASSUME NEW i \in 1..(Len(w) + 1) PROVE Start(w, i) \in Nat
    <3>1. i - 1 \in Nat /\ i - 1 <= Len(w) /\ (i - 1) + 1 = i
      BY <1>1
    <3>2. i - 1 \in S
      BY <2>3, <3>1
    <3> QED BY <3>1, <3>2 DEF S
  <2> QED BY <2>4
<1>4. \A i \in 1..Len(w) : Start(w, i) \in Nat /\ Start(w, i + 1) \in Nat
                           /\ Start(w, i) < Start(w, i + 1)
  <2> SUFFICES ASSUME NEW i \in 1..Len(w)
               PROVE  Start(w, i) \in Nat /\ Start(w, i + 1) \in Nat
                      /\ Start(w, i) < Start(w, i + 1)
    OBVIOUS
  <2>1. i \in 1..(Len(w) + 1) /\ i + 1 \in 1..(Len(w) + 1)
    BY <1>1
  <2>2. Start(w, i) \in Nat /\ Start(w, i + 1) \in Nat
    BY <1>3, <2>1
  <2> QED BY <1>1, <1>2, <2>2
<1>5. ASSUME NEW i \in 1..(Len(w) + 1), NEW j \in 1..(Len(w) + 1), i < j
      PROVE  Start(w, i + 1) <= Start(w, j)
  <2> DEFINE S == {n \in Nat : (i + 1) + n <= Len(w) + 1 =>
                                 Start(w, i + 1) <= Start(w, (i + 1) + n)}
  <2>0. i \in 1..Len(w) /\ Start(w, i + 1) \in Nat
    BY <1>1, <1>4, <1>5
  <2>1. 0 \in S
    <3>1. (i + 1) + 0 = i + 1
      BY <2>0
    <3> QED BY <2>0, <3>1
  <2>2. ASSUME NEW n \in Nat, n \in S PROVE n + 1 \in S
    <3>1. ASSUME (i + 1) + (n + 1) <= Len(w) + 1
          PROVE  Start(w, i + 1) <= Start(w, (i + 1) + (n + 1))
      <4> DEFINE m == (i + 1) + n
      <4>1. m \in 1..Len(w) /\ m <= Len(w) + 1 /\ (i + 1) + (n + 1) = m + 1
        BY <1>1, <2>0, <3>1
      <4>2. Start(w, i + 1) <= Start(w, m)
        BY <2>2, <4>1
      <4> HIDE DEF m
      <4>3. Start(w, m) \in Nat /\ Start(w, m + 1) \in Nat /\ Start(w, m) < Start(w, m + 1)
        BY <1>4, <4>1
      <4>4. Start(w, i + 1) <= Start(w, m + 1)
        BY <2>0, <4>2, <4>3
      <4> QED BY <4>1, <4>4
    <3> QED BY <3>1
  <2> HIDE DEF S
  <2>3. Nat \subseteq S
    BY <2>1, <2>2, Induction
  <2>4. j - (i + 1) \in Nat /\ (i + 1) + (j - (i + 1)) = j /\ j <= Len(w) + 1
    BY <1>1, <1>5, <2>0
  <2>5. j - (i + 1) \in S
    BY <2>3, <2>4
  <2> QED BY <2>4, <2>5 DEF S
<1> QED BY <1>2, <1>3, <1>4, <1>5

\* So offsets order the frames.
LEMMA OffsetsOrder ==
  ASSUME NEW w \in Wires, NEW i \in 1..(Len(w) + 1), NEW j \in 1..(Len(w) + 1)
  PROVE  /\ Start(w, i) = Start(w, j) => i = j
         /\ i <= j => Start(w, i) <= Start(w, j)
         /\ i \in 1..Len(w) /\ Start(w, i + 1) <= Start(w, j) => i < j
<1>0. Len(w) \in Nat /\ Start(w, i) \in Nat /\ Start(w, j) \in Nat
  BY WireTyped, Offsets
<1>1. ASSUME NEW a \in 1..(Len(w) + 1), NEW c \in 1..(Len(w) + 1), a < c
      PROVE  Start(w, a) < Start(w, c)
  <2>1. a \in 1..Len(w) /\ a + 1 \in 1..(Len(w) + 1)
    BY <1>0, <1>1
  <2>2. /\ Start(w, a) < Start(w, a + 1) /\ Start(w, a + 1) <= Start(w, c)
        /\ Start(w, a) \in Nat /\ Start(w, a + 1) \in Nat /\ Start(w, c) \in Nat
    BY <1>1, <2>1, Offsets
  <2> QED BY <2>2
<1>2. i < j \/ i = j \/ j < i
  BY <1>0
<1>3. i < j => Start(w, i) < Start(w, j)
  BY <1>1
<1>4. j < i => Start(w, j) < Start(w, i)
  BY <1>1
<1>5. ASSUME i \in 1..Len(w), Start(w, i + 1) <= Start(w, j)
      PROVE  i < j
  <2>1. Start(w, i) < Start(w, i + 1) /\ Start(w, i + 1) \in Nat
    <3>1. i + 1 \in 1..(Len(w) + 1)
      BY <1>0, <1>5
    <3> QED BY <1>5, <3>1, Offsets
  <2>2. Start(w, i) < Start(w, j)
    BY <1>0, <1>5, <2>1
  <2> QED BY <1>0, <1>2, <1>4, <2>2
<1> QED BY <1>0, <1>2, <1>3, <1>4, <1>5

-----------------------------------------------------------------------------
(* The invariant of the delivered frames, inductive together with IInv. *)

\* The offset up to which the frames have been dealt with.
Limit == IF st = "rest" THEN Start(wire, cur) ELSE pos

ReadInv == st = "rest" => pos = Limit + PreludeLen /\ wire[cur].prelude = "intact"

\* What was delivered is a good frame that ends where reading goes on, or before.
PlacedInv ==
  \A k \in 1..Len(results) :
    /\ results[k].kind \in Events <=> results[k].frame # 0
    /\ results[k].frame # 0 => /\ results[k].frame \in Frames(wire)
                               /\ Start(wire, results[k].frame + 1) <= Limit

EndInv ==
  /\ ending \in {"EOF", "UnexpectedEOF"} => arrived = cut
  /\ \A k \in 1..Len(results) : results[k].kind = "EOF" => ending \in {"EOF", "reset"}

\* Until the first error, every frame in front of Limit was delivered.
CleanInv ==
  Errors = {} => Len(results) <= Len(wire) /\ Limit = Start(wire, Len(results) + 1)

\* The hypothesis of OneBadFrameCostsOne about what was sent.
Whole ==
  /\ \A i \in 1..Len(wire) : /\ wire[i].prelude = "intact"
                             /\ wire[i].total = wire[i].size
                             /\ ~LengthsInvalid(wire[i])
  /\ cut = Start(wire, Len(wire) + 1)

\* Where all preludes are right, reading goes on at the start of a frame m and
\* every good frame in front of it was delivered.
Reached(m) ==
  /\ m \in 1..(Len(wire) + 1) /\ Limit = Start(wire, m)
  /\ \A i \in Frames(wire) : i < m => \E k \in 1..Len(results) : results[k].frame = i
  /\ (\E k \in 1..Len(results) : results[k].kind = "EOF") => m = Len(wire) + 1

CostInv == Whole /\ ending \in {"", "EOF"} => \E m \in 1..(Len(wire) + 1) : Reached(m)

FrameInv ==
  /\ ReadInv /\ PlacedInv /\ DeliveredInOrder /\ EndInv
  /\ CleanInv /\ NothingLostInSilence /\ CostInv

-----------------------------------------------------------------------------
(* What every step does to the frames that were delivered. *)

\* The positions of a sequence that has become longer by one.
LEMMA OneMore ==
  ASSUME NEW n \in Nat
  PROVE  /\ n + 1 \in 1..(n + 1) /\ (n + 1) - 1 = n
         /\ \A k \in 1..n : k \in 1..(n + 1)
         /\ \A k \in 1..(n + 1) : /\ k = n + 1 \/ k \in 1..n
                                  /\ \A j \in 1..(k - 1) : j \in 1..n
         /\ \A k \in 0..n : k + 1 \in 1..(n + 1)
         /\ \A k, j \in Nat : n <= k /\ k <= j => n <= j
         /\ \A k, j \in 1..n : k < j + 1 => k < j \/ k = j
  OBVIOUS

\* Where things are.
LEMMA Situation ==
  ASSUME IInv
  PROVE  /\ wire \in Wires /\ Len(wire) \in Nat /\ Len(results) \in Nat
         /\ pos \in Nat /\ arrived \in Nat /\ cut \in Nat /\ pos <= arrived /\ arrived <= cut
         /\ st = "rest" => cur \in 1..Len(wire) /\ cur \in 1..(Len(wire) + 1)
         /\ Limit \in Nat
         /\ \A k \in 1..Len(results) : /\ results[k].kind \in Kinds
                                       /\ results[k].frame \in 0..Len(wire)
<1>1. /\ wire \in Wires /\ Len(wire) \in Nat
      /\ pos \in Nat /\ arrived \in Nat /\ cut \in Nat /\ pos <= arrived /\ arrived <= cut
  <2>1. TypeOK
    BY DEF IInv
  <2>2. wire \in Wires
    BY <2>1 DEF TypeOK
  <2> QED BY <2>1, <2>2, Positions DEF Bounds
<1>2. Len(results) \in Nat
      /\ \A k \in 1..Len(results) : /\ results[k].kind \in Kinds
                                    /\ results[k].frame \in 0..Len(wire)
  <2> DEFINE R == [kind : Kinds, frame : 0..Len(wire)]
  <2>1. results \in Seq(R)
    BY DEF IInv, TypeOK
  <2>2. \A r \in R : r.kind \in Kinds /\ r.frame \in 0..Len(wire)
    OBVIOUS
  <2> HIDE DEF R
  <2>3. Len(results) \in Nat /\ \A k \in 1..Len(results) : results[k] \in R
    BY <2>1
  <2> QED BY <2>2, <2>3
<1>3. st = "rest" => cur \in 1..Len(wire) /\ cur \in 1..(Len(wire) + 1)
  <2>1. st = "rest" => cur \in 1..Len(wire)
    BY CurrentFrame DEF IInv
  <2> QED BY <1>1, <2>1
<1>4. Limit \in Nat
  BY <1>1, <1>3, Offsets DEF Limit
<1> QED BY <1>1, <1>2, <1>3, <1>4

\* A result comes behind those that were there.
LEMMA Appended ==
  ASSUME IInv, NEW kind, NEW i, Return(kind, i)
  PROVE  /\ Len(results') = Len(results) + 1
         /\ results'[Len(results) + 1].kind = kind
         /\ results'[Len(results) + 1].frame = i
         /\ \A k \in 1..Len(results) : results'[k] = results[k]
<1> DEFINE r == [kind |-> kind, frame |-> i]
<1>1. results' = Append(results, r)
  BY DEF Return
<1>2. results \in Seq([kind : Kinds, frame : 0..Len(wire)])
  BY DEF IInv, TypeOK
<1>3. r.kind = kind /\ r.frame = i
  OBVIOUS
<1> HIDE DEF r
<1>4. /\ Len(results') = Len(results) + 1
      /\ results'[Len(results) + 1] = r
      /\ \A k \in 1..Len(results) : results'[k] = results[k]
  BY <1>1, <1>2
<1> QED BY <1>3, <1>4

\* A decoder that has read nothing has delivered nothing out of order.
LEMMA InitFrames == Init => FrameInv
<1> SUFFICES ASSUME Init PROVE FrameInv
  OBVIOUS
<1>1. wire \in Wires /\ pos = 0 /\ st = "idle" /\ results = <<>> /\ ending = ""
  BY DEF Init
<1>2. Len(wire) \in Nat /\ Start(wire, 1) = 0 /\ 1 \in 1..(Len(wire) + 1)
  <2>1. Len(wire) \in Nat
    BY <1>1, WireTyped
  <2>2. Start(wire, 1) = 0
    BY <2>1, EndToEnd
  <2> QED BY <2>1, <2>2
<1>3. Limit = Start(wire, 1)
  BY <1>1, <1>2 DEF Limit
<1>4. Len(results) = 0
  BY <1>1
<1>5. \A k \in 1..Len(results) : FALSE
  BY <1>4
<1>6. ReadInv /\ PlacedInv /\ DeliveredInOrder /\ EndInv /\ NothingLostInSilence
  BY <1>1, <1>5 DEF ReadInv, PlacedInv, DeliveredInOrder, EndInv, NothingLostInSilence
<1>7. CleanInv
  BY <1>2, <1>3, <1>4 DEF CleanInv
<1>8. Reached(1)
  <2>1. \A i \in Frames(wire) : ~(i < 1)
    BY <1>2 DEF Frames
  <2> QED BY <1>2, <1>3, <1>5, <2>1 DEF Reached
<1> QED BY <1>2, <1>6, <1>7, <1>8 DEF FrameInv, CostInv

\* A step that returns nothing and leaves Limit where it was.
LEMMA SilentStep ==
  ASSUME IInv, FrameInv, UNCHANGED <<wire, cut, results>>, Limit' = Limit, ReadInv',
         ending' \in {"EOF", "UnexpectedEOF"} => arrived' = cut,
         (\E k \in 1..Len(results) : results[k].kind = "EOF") => ending' \in {"EOF", "reset"},
         ending' \in {"", "EOF"} => ending \in {"", "EOF"}
  PROVE  FrameInv'
<1>1. wire' = wire /\ cut' = cut /\ results' = results /\ Limit' = Limit
  OBVIOUS
<1>2. PlacedInv' /\ DeliveredInOrder'
  BY <1>1 DEF FrameInv, PlacedInv, DeliveredInOrder
<1>3. EndInv'
  BY <1>1 DEF EndInv
<1>4. CleanInv'
  BY <1>1 DEF FrameInv, CleanInv, Errors
<1>5. NothingLostInSilence'
  BY <1>1 DEF FrameInv, NothingLostInSilence, Errors
<1>6. CostInv'
  BY ZenonT(30), <1>1 DEF FrameInv, CostInv, Whole, Reached
<1> QED BY <1>2, <1>3, <1>4, <1>5, <1>6 DEF FrameInv

\* A call fails, or tells the end.
LEMMA ErrorStep ==
  ASSUME IInv, FrameInv, st # "idle", UNCHANGED transport,
         NEW kind \in Kinds \ Events, Return(kind, 0),
         pos' \in Nat, Limit <= pos',
         kind = "EOF" => ending = "EOF" /\ Limit = cut,
         Whole /\ ending \in {"", "EOF"} =>
           \E m \in 1..(Len(wire) + 1) :
             /\ pos' = Start(wire, m)
             /\ \A i \in Frames(wire) :
                  i < m => \E k \in 1..Len(results) : results[k].frame = i
             /\ kind = "EOF" \/ (\E k \in 1..Len(results) : results[k].kind = "EOF")
                  => m = Len(wire) + 1
  PROVE  FrameInv'
<1> DEFINE n == Len(results)
<1>0. /\ wire' = wire /\ cut' = cut /\ arrived' = arrived /\ ending' = ending
      /\ st' = "idle" /\ Limit' = pos'
  BY DEF transport, Return, Limit
<1>1. /\ Len(results') = n + 1 /\ results'[n + 1].kind = kind /\ results'[n + 1].frame = 0
      /\ \A k \in 1..n : results'[k] = results[k]
  BY Appended
<1>2. /\ Limit \in Nat /\ wire \in Wires /\ Len(wire) \in Nat
      /\ \A k \in 1..n : results[k].frame \in 0..Len(wire)
  BY Situation
<1>n. n \in Nat
  BY Situation
<1> HIDE DEF n
<1>k. /\ n + 1 \in 1..(n + 1)
      /\ \A k \in 1..n : k \in 1..(n + 1)
      /\ \A k \in 1..(n + 1) : /\ k = n + 1 \/ k \in 1..n
                               /\ \A j \in 1..(k - 1) : j \in 1..n
  BY <1>n, OneMore
<1>l. Limit \in Nat /\ pos' \in Nat /\ Limit <= pos'
  BY <1>2
<1>3. ReadInv'
  BY <1>0 DEF ReadInv
<1>4. PlacedInv'
  <2> SUFFICES ASSUME NEW k \in 1..(n + 1)
               PROVE  /\ results'[k].kind \in Events <=> results'[k].frame # 0
                      /\ results'[k].frame # 0 =>
                           /\ results'[k].frame \in Frames(wire)
                           /\ Start(wire, results'[k].frame + 1) <= pos'
    BY <1>0, <1>1 DEF PlacedInv
  <2>1. CASE k = n + 1
    BY <1>1, <2>1
  <2>2. CASE k # n + 1
    <3>1. k \in 1..n /\ results'[k] = results[k]
      BY <1>1, <1>k, <2>2
    <3>2. /\ results[k].kind \in Events <=> results[k].frame # 0
          /\ results[k].frame # 0 => /\ results[k].frame \in Frames(wire)
                                     /\ Start(wire, results[k].frame + 1) <= Limit
      BY <3>1 DEF FrameInv, PlacedInv, n
    <3>3. results[k].frame # 0 => Start(wire, results[k].frame + 1) \in Nat
      <4>1. PICK f \in 0..Len(wire) : f = results[k].frame
        BY <1>2, <3>1
      <4>2. f + 1 \in 1..(Len(wire) + 1)
        <5>1. Len(wire) \in Nat
          BY <1>2
        <5> QED BY <5>1, <4>1, OneMore
      <4>3. Start(wire, f + 1) \in Nat
        BY <1>2, <4>2, Offsets
      <4> QED BY <4>1, <4>3
    <3> DEFINE s == Start(wire, results[k].frame + 1)
    <3>4. results[k].frame # 0 => s <= Limit /\ s \in Nat
      BY <3>2, <3>3
    <3> HIDE DEF s
    <3>5. results[k].frame # 0 => s <= pos'
      BY <1>l, <3>4, OneMore
    <3> QED BY <3>1, <3>2, <3>5 DEF s
  <2> QED BY <2>1, <2>2
<1>5. DeliveredInOrder'
  <2> SUFFICES ASSUME NEW k \in 1..(n + 1), results'[k].kind \in Events
               PROVE  /\ results'[k].frame \in Frames(wire)
                      /\ \A j \in 1..(k - 1) : results'[j].frame < results'[k].frame
    BY <1>0, <1>1 DEF DeliveredInOrder
  <2>1. k \in 1..n /\ \A j \in 1..(k - 1) : j \in 1..n
    BY <1>1, <1>k
  <2> QED BY <1>1, <2>1 DEF FrameInv, DeliveredInOrder, n
<1>6. EndInv'
  <2>1. ASSUME NEW k \in 1..(n + 1), results'[k].kind = "EOF"
        PROVE  ending \in {"EOF", "reset"}
    <3>1. CASE k = n + 1
      BY <1>1, <2>1, <3>1
    <3>2. CASE k # n + 1
      <4>1. k \in 1..n
        BY <1>k, <3>2
      <4> QED BY <1>1, <2>1, <4>1 DEF FrameInv, EndInv, n
    <3> QED BY <3>1, <3>2
  <2> QED BY <1>0, <1>1, <2>1 DEF FrameInv, EndInv
<1>7. CleanInv'
  <2>1. n + 1 \in Errors'
    BY <1>1, <1>k DEF Errors
  <2> QED BY <2>1 DEF CleanInv
<1>8. NothingLostInSilence'
  <2>0. \A j \in 1..n : j \in Errors' <=> j \in Errors
    BY <1>1, <1>k DEF Errors, n
  <2> SUFFICES ASSUME NEW k \in 1..(n + 1), \A j \in 1..(k - 1) : j \notin Errors'
               PROVE  /\ results'[k].kind \in Events => results'[k].frame = k
                      /\ results'[k].kind = "EOF" => /\ cut = Start(wire, k)
                                                     /\ ending # "UnexpectedEOF"
    BY <1>0, <1>1 DEF NothingLostInSilence
  <2>1. CASE k = n + 1
    <3>1. \A j \in 1..n : j \notin Errors
      <4>1. k - 1 = n
        BY <1>n, <2>1, OneMore
      <4> QED BY <2>0, <4>1
    <3>2. Errors = {}
      BY <3>1 DEF Errors, n
    <3>3. Limit = Start(wire, k)
      BY <2>1, <3>2 DEF FrameInv, CleanInv, n
    <3> QED BY <1>1, <2>1, <3>3
  <2>2. CASE k # n + 1
    <3>1. k \in 1..n /\ \A j \in 1..(k - 1) : j \in 1..n
      BY <1>k, <2>2
    <3>2. \A j \in 1..(k - 1) : j \notin Errors
      BY <2>0, <3>1
    <3> QED BY <1>1, <3>1, <3>2 DEF FrameInv, NothingLostInSilence, n
  <2> QED BY <2>1, <2>2
<1>9. CostInv'
  <2> SUFFICES ASSUME Whole, ending \in {"", "EOF"}
               PROVE  \E m \in 1..(Len(wire) + 1) : Reached(m)'
    BY <1>0 DEF CostInv, Whole
  <2>1. PICK m \in 1..(Len(wire) + 1) :
          /\ pos' = Start(wire, m)
          /\ \A i \in Frames(wire) : i < m => \E k \in 1..n : results[k].frame = i
          /\ kind = "EOF" \/ (\E k \in 1..n : results[k].kind = "EOF") => m = Len(wire) + 1
    BY DEF n
  <2>2. \A i \in Frames(wire) : i < m => \E k \in 1..(n + 1) : results'[k].frame = i
    BY <1>1, <1>k, <2>1
  <2>3. (\E k \in 1..(n + 1) : results'[k].kind = "EOF") => m = Len(wire) + 1
    BY <1>1, <1>k, <2>1
  <2> QED BY <1>0, <1>1, <2>1, <2>2, <2>3 DEF Reached
<1> QED BY <1>3, <1>4, <1>5, <1>6, <1>7, <1>8, <1>9 DEF FrameInv

\* The frame that is being read, and where it ends.
LEMMA ReadingFrame ==
  ASSUME IInv, FrameInv, st = "rest"
  PROVE  /\ cur \in 1..Len(wire) /\ cur \in 1..(Len(wire) + 1)
         /\ cur + 1 \in 1..(Len(wire) + 1)
         /\ Limit = Start(wire, cur) /\ pos = Limit + PreludeLen
         /\ Start(wire, cur + 1) \in Nat /\ Limit < Start(wire, cur + 1)
         /\ RestLen \in Nat /\ pos + RestLen \in Nat /\ Limit <= pos + RestLen
         /\ wire[cur].total = wire[cur].size => pos + RestLen = Start(wire, cur + 1)
         /\ wire[cur].prelude = "intact" /\ ~LengthsInvalid(wire[cur])
         /\ wire[cur].body = "intact" => wire[cur].total = wire[cur].size
<1>1. /\ wire \in Wires /\ Len(wire) \in Nat /\ pos \in Nat /\ Limit \in Nat
      /\ cur \in 1..Len(wire) /\ cur \in 1..(Len(wire) + 1)
  BY Situation
<1>2. cur + 1 \in 1..(Len(wire) + 1)
  BY <1>1
<1>3. /\ Start(wire, cur) \in Nat /\ Start(wire, cur + 1) \in Nat
      /\ Start(wire, cur + 1) = Start(wire, cur) + wire[cur].size
      /\ Start(wire, cur) < Start(wire, cur + 1)
  BY <1>1, <1>2, Offsets
<1>4. Limit = Start(wire, cur)
  BY DEF Limit
<1>5. pos = Limit + PreludeLen /\ wire[cur].prelude = "intact"
  BY DEF FrameInv, ReadInv
<1>6. /\ ~LengthsInvalid(wire[cur]) /\ wire[cur].total \in Nat /\ wire[cur].size \in Nat
      /\ wire[cur] \in Frame /\ wire[cur].total < W
  BY <1>1, CurrentFrame, WireTyped DEF IInv, Accepted
<1>7. RestLen \in Nat /\ RestLen = wire[cur].total - PreludeLen
  <2>1. wire[cur].total - PreludeLen >= TrailerLen
    BY <1>6, NoWrap
  <2> QED BY <1>6, <2>1, Sizes DEF RestLen
<1>8. pos + RestLen \in Nat /\ Limit <= pos + RestLen
  BY <1>1, <1>5, <1>7, Sizes
<1>9. wire[cur].total = wire[cur].size => pos + RestLen = Start(wire, cur + 1)
  <2>1. \A a, p, s \in Nat : (a + p) + (s - p) = a + s
    OBVIOUS
  <2> QED BY <1>3, <1>4, <1>5, <1>6, <1>7, <2>1, Sizes
<1>10. wire[cur].body = "intact" => wire[cur].total = wire[cur].size
  <2>1. wire[cur].total >= MinLen
    BY <1>6, Sizes DEF LengthsInvalid
  <2> QED BY <1>1, <1>5, <2>1, EventStreamAssumption
<1> QED BY <1>1, <1>2, <1>3, <1>4, <1>5, <1>6, <1>7, <1>8, <1>9, <1>10

\* Where reading goes on at the start of a frame, that frame is the one.
LEMMA ReachedCurrent ==
  ASSUME IInv, FrameInv, st = "rest", NEW m \in 1..(Len(wire) + 1), Reached(m)
  PROVE  m = cur /\ ~\E k \in 1..Len(results) : results[k].kind = "EOF"
<1>1. wire \in Wires /\ Len(wire) \in Nat
  BY Situation
<1>2. cur \in 1..Len(wire) /\ cur \in 1..(Len(wire) + 1) /\ Limit = Start(wire, cur)
  BY ReadingFrame
<1>3. Limit = Start(wire, m)
  BY DEF Reached
<1>4. m = cur
  BY <1>1, <1>2, <1>3, OffsetsOrder
<1>5. m # Len(wire) + 1
  BY <1>1, <1>2, <1>4
<1> QED BY <1>4, <1>5 DEF Reached

\* A good frame is delivered.
LEMMA DeliverFrames == IInv /\ FrameInv /\ Deliver => FrameInv'
<1> SUFFICES ASSUME IInv, FrameInv, Deliver PROVE FrameInv'
  OBVIOUS
<1> DEFINE n == Len(results)
           kind == Event(wire[cur])
<1>0. /\ wire' = wire /\ cut' = cut /\ arrived' = arrived /\ ending' = ending
      /\ st = "rest" /\ st' = "idle" /\ Limit' = pos' /\ pos' = pos + RestLen
      /\ Return(kind, cur) /\ wire[cur].body = "intact" /\ wire[cur].headers = "strings"
  BY DEF Deliver, transport, Return, Limit
<1>k. kind \in Events /\ kind # "EOF"
  BY DEF Event, Decoded, Events
<1> HIDE DEF kind
<1>1. /\ Len(results') = n + 1 /\ results'[n + 1].kind = kind /\ results'[n + 1].frame = cur
      /\ \A k \in 1..n : results'[k] = results[k]
  BY <1>0, Appended
<1>2. /\ wire \in Wires /\ Len(wire) \in Nat /\ Limit \in Nat
      /\ \A k \in 1..n : results[k].frame \in 0..Len(wire)
  BY Situation
<1>3. /\ cur \in 1..Len(wire) /\ cur \in 1..(Len(wire) + 1) /\ cur + 1 \in 1..(Len(wire) + 1)
      /\ Limit = Start(wire, cur) /\ Start(wire, cur + 1) \in Nat
      /\ Limit < Start(wire, cur + 1) /\ pos' = Start(wire, cur + 1)
      /\ wire[cur].prelude = "intact" /\ ~LengthsInvalid(wire[cur])
  BY <1>0, ReadingFrame
<1>4. cur \in Frames(wire) /\ cur # 0
  <2>1. cur # 0
    BY <1>2, <1>3
  <2> QED BY <1>0, <1>3, <2>1 DEF Frames
<1>n. n \in Nat
  BY Situation
<1> HIDE DEF n
<1>i. /\ n + 1 \in 1..(n + 1) /\ (n + 1) - 1 = n
      /\ \A k \in 1..n : k \in 1..(n + 1)
      /\ \A k \in 1..(n + 1) : /\ k = n + 1 \/ k \in 1..n
                               /\ \A j \in 1..(k - 1) : j \in 1..n
  BY <1>n, OneMore
<1>5. ASSUME NEW k \in 1..n, results[k].frame # 0
      PROVE  /\ results[k].frame \in Frames(wire)
             /\ Start(wire, results[k].frame + 1) <= pos'
             /\ results[k].frame < cur
  <2>1. results[k].frame \in Frames(wire) /\ Start(wire, results[k].frame + 1) <= Limit
    BY <1>5 DEF FrameInv, PlacedInv, n
  <2>2. PICK f \in 1..Len(wire) : f = results[k].frame
    BY <2>1 DEF Frames
  <2>3. f \in 1..(Len(wire) + 1) /\ f + 1 \in 1..(Len(wire) + 1)
    <3>1. Len(wire) \in Nat
      BY <1>2
    <3> QED BY <2>2, <3>1
  <2>4. f < cur
    BY <1>2, <1>3, <2>1, <2>2, <2>3, OffsetsOrder
  <2>5. Start(wire, f + 1) \in Nat
    BY <1>2, <2>3, Offsets
  <2>6. Start(wire, f + 1) <= pos'
    BY <1>2, <1>3, <2>1, <2>2, <2>5
  <2> QED BY <2>1, <2>2, <2>4, <2>6
<1>6. ReadInv'
  BY <1>0 DEF ReadInv
<1>7. PlacedInv'
  <2> SUFFICES ASSUME NEW k \in 1..(n + 1)
               PROVE  /\ results'[k].kind \in Events <=> results'[k].frame # 0
                      /\ results'[k].frame # 0 =>
                           /\ results'[k].frame \in Frames(wire)
                           /\ Start(wire, results'[k].frame + 1) <= pos'
    BY <1>0, <1>1 DEF PlacedInv
  <2>1. CASE k = n + 1
    <3>1. Start(wire, cur + 1) <= pos'
      BY <1>3
    <3> QED BY <1>1, <1>k, <1>4, <2>1, <3>1
  <2>2. CASE k # n + 1
    <3>1. k \in 1..n /\ results'[k] = results[k]
      BY <1>1, <1>i, <2>2
    <3>2. results[k].kind \in Events <=> results[k].frame # 0
      BY <3>1 DEF FrameInv, PlacedInv, n
    <3> QED BY <1>5, <3>1, <3>2
  <2> QED BY <2>1, <2>2
<1>8. DeliveredInOrder'
  <2> SUFFICES ASSUME NEW k \in 1..(n + 1), results'[k].kind \in Events
               PROVE  /\ results'[k].frame \in Frames(wire)
                      /\ \A j \in 1..(k - 1) : results'[j].frame < results'[k].frame
    BY <1>0, <1>1 DEF DeliveredInOrder
  <2>1. CASE k = n + 1
    <3>1. ASSUME NEW j \in 1..n PROVE results'[j].frame < cur
      <4>1. results'[j] = results[j]
        BY <1>1
      <4>2. CASE results[j].frame = 0
        <5>1. 0 < cur
          BY <1>3
        <5> QED BY <4>1, <4>2, <5>1
      <4>3. CASE results[j].frame # 0
        BY <1>5, <4>1, <4>3
      <4> QED BY <4>2, <4>3
    <3> QED BY <1>1, <1>4, <1>i, <2>1, <3>1
  <2>2. CASE k # n + 1
    <3>1. k \in 1..n /\ \A j \in 1..(k - 1) : j \in 1..n
      BY <1>i, <2>2
    <3> QED BY <1>1, <3>1 DEF FrameInv, DeliveredInOrder, n
  <2> QED BY <2>1, <2>2
<1>9. EndInv'
  <2>1. ASSUME NEW k \in 1..(n + 1), results'[k].kind = "EOF"
        PROVE  ending \in {"EOF", "reset"}
    <3>1. k \in 1..n
      BY <1>1, <1>i, <1>k, <2>1
    <3> QED BY <1>1, <2>1, <3>1 DEF FrameInv, EndInv, n
  <2> QED BY <1>0, <1>1, <2>1 DEF FrameInv, EndInv
<1>10. \A j \in 1..n : j \in Errors' <=> j \in Errors
  BY <1>1, <1>i DEF Errors, n
<1>11. Errors = {} => cur = n + 1
  <2>1. ASSUME Errors = {} PROVE cur = n + 1
    <3>1. n <= Len(wire) /\ Limit = Start(wire, n + 1)
      BY <2>1 DEF FrameInv, CleanInv, n
    <3>2. n + 1 \in 1..(Len(wire) + 1)
      <4>1. Len(wire) \in Nat
        BY <1>2
      <4> QED BY <1>n, <3>1, <4>1
    <3> QED BY <1>2, <1>3, <3>1, <3>2, OffsetsOrder
  <2> QED BY <2>1
<1>12. CleanInv'
  <2>1. ASSUME Errors' = {} PROVE n + 1 <= Len(wire) /\ pos' = Start(wire, (n + 1) + 1)
    <3>1. Errors = {}
      <4>1. \A j \in 1..n : j \notin Errors
        BY <1>10, <2>1
      <4> QED BY <4>1 DEF Errors, n
    <3>2. cur = n + 1
      BY <1>11, <3>1
    <3> QED BY <1>3, <3>2
  <2> QED BY <1>0, <1>1, <2>1 DEF CleanInv
<1>13. NothingLostInSilence'
  <2> SUFFICES ASSUME NEW k \in 1..(n + 1), \A j \in 1..(k - 1) : j \notin Errors'
               PROVE  /\ results'[k].kind \in Events => results'[k].frame = k
                      /\ results'[k].kind = "EOF" => /\ cut = Start(wire, k)
                                                     /\ ending # "UnexpectedEOF"
    BY <1>0, <1>1 DEF NothingLostInSilence
  <2>1. CASE k = n + 1
    <3>1. \A j \in 1..n : j \notin Errors
      BY <1>10, <1>i, <2>1
    <3>2. Errors = {}
      BY <3>1 DEF Errors, n
    <3> QED BY <1>1, <1>11, <1>k, <2>1, <3>2
  <2>2. CASE k # n + 1
    <3>1. k \in 1..n /\ \A j \in 1..(k - 1) : j \in 1..n
      BY <1>i, <2>2
    <3>2. \A j \in 1..(k - 1) : j \notin Errors
      BY <1>10, <3>1
    <3> QED BY <1>1, <3>1, <3>2 DEF FrameInv, NothingLostInSilence, n
  <2> QED BY <2>1, <2>2
<1>14. CostInv'
  <2> SUFFICES ASSUME Whole, ending \in {"", "EOF"}
               PROVE  \E m \in 1..(Len(wire) + 1) : Reached(m)'
    BY <1>0 DEF CostInv, Whole
  <2>1. PICK m \in 1..(Len(wire) + 1) : Reached(m)
    BY DEF FrameInv, CostInv
  <2>2. m = cur /\ ~\E k \in 1..n : results[k].kind = "EOF"
    BY <1>0, <2>1, ReachedCurrent DEF n
  <2>3. ASSUME NEW i \in Frames(wire), i < cur + 1
        PROVE  \E k \in 1..(n + 1) : results'[k].frame = i
    <3>1. i < cur \/ i = cur
      <4>1. i \in 1..Len(wire)
        BY DEF Frames
      <4> QED BY <1>2, <1>3, <2>3, <4>1, OneMore
    <3>2. CASE i = cur
      BY <1>1, <1>i, <3>2
    <3>3. CASE i < cur
      <4>1. \E k \in 1..n : results[k].frame = i
        BY <2>1, <2>2, <3>3 DEF Reached, n
      <4> QED BY <1>1, <1>i, <4>1
    <3> QED BY <3>1, <3>2, <3>3
  <2>4. ~\E k \in 1..(n + 1) : results'[k].kind = "EOF"
    BY <1>1, <1>i, <1>k, <2>2
  <2> QED BY <1>0, <1>1, <1>3, <2>3, <2>4 DEF Reached
<1> QED BY <1>6, <1>7, <1>8, <1>9, <1>12, <1>13, <1>14 DEF FrameInv

\* The rest of a frame does not come, or is not worth delivering.
LEMMA RestErrorFrames == IInv /\ FrameInv /\ (RestShort \/ BodyRejected) => FrameInv'
<1> SUFFICES ASSUME IInv, FrameInv, RestShort \/ BodyRejected PROVE FrameInv'
  OBVIOUS
<1>0. st = "rest" /\ st # "idle" /\ UNCHANGED transport
  BY DEF RestShort, BodyRejected
<1>1. /\ wire \in Wires /\ Len(wire) \in Nat /\ pos \in Nat /\ arrived \in Nat /\ cut \in Nat
      /\ pos <= arrived /\ arrived <= cut /\ Limit \in Nat
  BY Situation
<1>2. /\ cur \in 1..Len(wire) /\ cur + 1 \in 1..(Len(wire) + 1)
      /\ Limit = Start(wire, cur) /\ pos = Limit + PreludeLen
      /\ RestLen \in Nat /\ pos + RestLen \in Nat /\ Limit <= pos + RestLen
      /\ wire[cur].total = wire[cur].size => pos + RestLen = Start(wire, cur + 1)
      /\ Start(wire, cur + 1) \in Nat
  BY <1>0, ReadingFrame
<1>3. CASE RestShort
  <2> DEFINE kind == IF ending = "reset" THEN "reset" ELSE "truncated"
  <2>1. /\ Return(kind, 0) /\ pos' = arrived /\ ending # "" /\ ~(arrived - pos >= RestLen)
    BY <1>3 DEF RestShort, FallsShort, CanRead
  <2>2. kind \in Kinds \ Events /\ kind # "EOF"
    BY DEF Kinds, Events
  <2> HIDE DEF kind
  <2>3. Limit <= arrived
    BY <1>1, <1>2, Sizes
  <2>4. ASSUME Whole, ending \in {"", "EOF"} PROVE FALSE
    <3>1. arrived = cut /\ cut = Start(wire, Len(wire) + 1)
      BY <2>1, <2>4 DEF FrameInv, EndInv, Whole
    <3>2. pos + RestLen = Start(wire, cur + 1)
      BY <1>2, <2>4 DEF Whole
    <3>3. Start(wire, cur + 1) <= Start(wire, Len(wire) + 1)
      <4>1. Len(wire) + 1 \in 1..(Len(wire) + 1) /\ cur + 1 <= Len(wire) + 1
        BY <1>1, <1>2
      <4> QED BY <1>1, <1>2, <4>1, OffsetsOrder
    <3>4. pos + RestLen <= arrived
      BY <3>1, <3>2, <3>3
    <3>5. \A a, p, r \in Nat : p + r <= a => a - p >= r
      OBVIOUS
    <3> QED BY <1>1, <1>2, <2>1, <3>4, <3>5
  <2> QED BY <1>0, <1>1, <2>1, <2>2, <2>3, <2>4, ErrorStep
<1>4. CASE BodyRejected
  <2>1. /\ Return("body", 0) /\ pos' = pos + RestLen
        /\ wire[cur].body = "damaged" \/ wire[cur].headers # "strings"
    BY <1>4 DEF BodyRejected
  <2>2. "body" \in Kinds \ Events /\ "body" # "EOF"
    BY DEF Kinds, Events
  <2>3. cur \notin Frames(wire)
    BY <2>1 DEF Frames
  <2>4. ASSUME Whole, ending \in {"", "EOF"}
        PROVE  /\ pos' = Start(wire, cur + 1)
               /\ \A i \in Frames(wire) :
                    i < cur + 1 => \E k \in 1..Len(results) : results[k].frame = i
               /\ ~\E k \in 1..Len(results) : results[k].kind = "EOF"
    <3>1. PICK m \in 1..(Len(wire) + 1) : Reached(m)
      BY <2>4 DEF FrameInv, CostInv
    <3>2. m = cur /\ ~\E k \in 1..Len(results) : results[k].kind = "EOF"
      BY <1>0, <3>1, ReachedCurrent
    <3>3. pos' = Start(wire, cur + 1)
      BY <1>2, <2>1, <2>4 DEF Whole
    <3>4. ASSUME NEW i \in Frames(wire), i < cur + 1
          PROVE  \E k \in 1..Len(results) : results[k].frame = i
      <4>1. i \in 1..Len(wire) /\ i # cur
        BY <2>3 DEF Frames
      <4>2. \A a, c \in Nat : a < c + 1 => a < c \/ a = c
        OBVIOUS
      <4>3. i \in Nat /\ cur \in Nat
        BY <1>2, <4>1
      <4>4. i < cur
        BY <3>4, <4>1, <4>2, <4>3
      <4> QED BY <3>1, <3>2, <4>4 DEF Reached
    <3> QED BY <3>2, <3>3, <3>4
  <2>5. pos' \in Nat /\ Limit <= pos'
    BY <1>2, <2>1
  <2>6. Whole /\ ending \in {"", "EOF"} =>
          \E m \in 1..(Len(wire) + 1) :
             /\ pos' = Start(wire, m)
             /\ \A i \in Frames(wire) :
                  i < m => \E k \in 1..Len(results) : results[k].frame = i
             /\ "body" = "EOF" \/ (\E k \in 1..Len(results) : results[k].kind = "EOF")
                  => m = Len(wire) + 1
    BY <1>2, <2>2, <2>4
  <2> QED BY <1>0, <2>1, <2>2, <2>5, <2>6, ErrorStep
<1> QED BY <1>3, <1>4

\* The prelude does not come, or is none.
LEMMA PreludeErrorFrames == IInv /\ FrameInv /\ (PreludeShort \/ PreludeRejected) => FrameInv'
<1> SUFFICES ASSUME IInv, FrameInv, PreludeShort \/ PreludeRejected PROVE FrameInv'
  OBVIOUS
<1>0. st = "prelude" /\ st # "idle" /\ UNCHANGED transport /\ Limit = pos
  BY DEF PreludeShort, PreludeRejected, Limit
<1>1. /\ wire \in Wires /\ Len(wire) \in Nat /\ pos \in Nat /\ arrived \in Nat /\ cut \in Nat
      /\ pos <= arrived /\ arrived <= cut /\ Limit \in Nat
  BY Situation
<1>2. PreludeLen \in Nat /\ PreludeLen > 0 /\ PreludeLen <= MinLen /\ MinLen \in Nat
  BY EventStreamAssumption DEF MinLen
<1>3. Len(wire) + 1 \in 1..(Len(wire) + 1)
  BY <1>1
<1>4. ASSUME NEW m \in 1..(Len(wire) + 1), m # Len(wire) + 1, pos = Start(wire, m)
      PROVE  /\ m \in 1..Len(wire)
             /\ pos + PreludeLen <= Start(wire, Len(wire) + 1)
  <2>1. m \in 1..Len(wire) /\ m + 1 \in 1..(Len(wire) + 1) /\ m + 1 <= Len(wire) + 1
    BY <1>1, <1>4
  <2>2. /\ Start(wire, m + 1) = pos + wire[m].size
        /\ Start(wire, m + 1) <= Start(wire, Len(wire) + 1)
    BY <1>1, <1>3, <1>4, <2>1, Offsets, OffsetsOrder
  <2>3. wire[m].size \in Nat /\ wire[m].size >= MinLen
    BY <1>1, <2>1, WireTyped
  <2>4. Start(wire, Len(wire) + 1) \in Nat
    BY <1>1, <1>3, Offsets
  <2>5. \A p, c, s, x, e \in Nat : c <= x /\ s >= x /\ p + s <= e => p + c <= e
    OBVIOUS
  <2> QED BY <1>1, <1>2, <2>1, <2>2, <2>3, <2>4, <2>5
<1>5. \A a, p, r \in Nat : p + r <= a => a - p >= r
  OBVIOUS
<1>6. CASE PreludeShort
  <2> DEFINE kind == IF ReadFullError = "UnexpectedEOF" THEN "truncated" ELSE ReadFullError
  <2>1. Return(kind, 0) /\ pos' = arrived /\ ending # "" /\ ~(arrived - pos >= PreludeLen)
    BY <1>6 DEF PreludeShort, FallsShort, CanRead
  <2>2. ending \in {"EOF", "UnexpectedEOF", "reset"}
    BY <2>1 DEF IInv, TypeOK
  <2>3. kind \in Kinds \ Events
    BY <2>2 DEF Kinds, Events, ReadFullError
  <2>4. kind = "EOF" => ending = "EOF" /\ ~(arrived > pos)
    BY <2>2 DEF ReadFullError
  <2> HIDE DEF kind
  <2>5. kind = "EOF" => ending = "EOF" /\ Limit = cut
    <3>1. ending = "EOF" => arrived = cut
      BY DEF FrameInv, EndInv
    <3>2. ~(arrived > pos) => arrived = pos
      BY <1>1
    <3> QED BY <1>0, <2>4, <3>1, <3>2
  <2>6. ASSUME Whole, ending \in {"", "EOF"}
        PROVE  /\ Reached(Len(wire) + 1) /\ pos' = Start(wire, Len(wire) + 1)
    <3>1. PICK m \in 1..(Len(wire) + 1) : Reached(m)
      BY <2>6 DEF FrameInv, CostInv
    <3>2. arrived = Start(wire, Len(wire) + 1)
      BY <2>1, <2>6 DEF FrameInv, EndInv, Whole
    <3>3. pos = Start(wire, m)
      BY <1>0, <3>1 DEF Reached
    <3>4. m = Len(wire) + 1
      <4>1. ASSUME m # Len(wire) + 1 PROVE FALSE
        <5>1. pos + PreludeLen <= arrived
          BY <1>4, <3>2, <3>3, <4>1
        <5> QED BY <1>1, <1>2, <1>5, <2>1, <5>1
      <4> QED BY <4>1
    <3> QED BY <2>1, <3>1, <3>2, <3>4
  <2>7. Whole /\ ending \in {"", "EOF"} =>
          \E m \in 1..(Len(wire) + 1) :
             /\ pos' = Start(wire, m)
             /\ \A i \in Frames(wire) :
                  i < m => \E k \in 1..Len(results) : results[k].frame = i
             /\ kind = "EOF" \/ (\E k \in 1..Len(results) : results[k].kind = "EOF")
                  => m = Len(wire) + 1
    BY <1>3, <2>6 DEF Reached
  <2> QED BY <1>0, <1>1, <2>1, <2>3, <2>5, <2>7, ErrorStep
<1>7. CASE PreludeRejected
  <2>1. /\ Return("prelude", 0) /\ pos' = pos + PreludeLen /\ arrived - pos >= PreludeLen
        /\ \A i \in FrameAt(pos) : wire[i].prelude = "damaged" \/ LengthsInvalid(wire[i])
    BY <1>7 DEF PreludeRejected, CanRead
  <2>2. "prelude" \in Kinds \ Events /\ "prelude" # "EOF"
    BY DEF Kinds, Events
  <2>3. pos' \in Nat /\ Limit <= pos'
    BY <1>0, <1>1, <1>2, <2>1
  <2>4. ASSUME Whole, ending \in {"", "EOF"} PROVE FALSE
    <3>1. PICK m \in 1..(Len(wire) + 1) : Reached(m)
      BY <2>4 DEF FrameInv, CostInv
    <3>2. pos = Start(wire, m)
      BY <1>0, <3>1 DEF Reached
    <3>3. CASE m = Len(wire) + 1
      <4>1. pos = cut
        BY <2>4, <3>2, <3>3 DEF Whole
      <4> QED BY <1>1, <1>2, <2>1, <4>1
    <3>4. CASE m # Len(wire) + 1
      <4>1. m \in FrameAt(pos)
        BY <1>4, <3>2, <3>4 DEF FrameAt
      <4>2. m \in 1..Len(wire)
        BY <4>1 DEF FrameAt
      <4> QED BY <2>1, <2>4, <4>1, <4>2 DEF Whole
    <3> QED BY <3>3, <3>4
  <2> QED BY <1>0, <2>1, <2>2, <2>3, <2>4, ErrorStep
<1> QED BY <1>6, <1>7

\* The steps that return nothing.
LEMMA SilentFrames ==
  IInv /\ FrameInv /\ (Arrive \/ BodyEnds \/ Abort \/ Call \/ PreludeAccepted \/ UNCHANGED vars)
    => FrameInv'
<1> SUFFICES ASSUME IInv, FrameInv,
                    Arrive \/ BodyEnds \/ Abort \/ Call \/ PreludeAccepted \/ UNCHANGED vars
             PROVE  FrameInv'
  OBVIOUS
<1>0. EndInv /\ ReadInv
  BY DEF FrameInv
<1>1. CASE Arrive \/ BodyEnds \/ Abort
  <2>1. /\ UNCHANGED <<wire, cut, results>> /\ pos' = pos /\ st' = st /\ cur' = cur
    BY <1>1 DEF Arrive, BodyEnds, Abort
  <2>2. Limit' = Limit /\ ReadInv'
    BY <1>0, <2>1 DEF Limit, ReadInv
  <2>3. /\ ending' \in {"EOF", "UnexpectedEOF"} => arrived' = cut
        /\ (\E k \in 1..Len(results) : results[k].kind = "EOF") => ending' \in {"EOF", "reset"}
        /\ ending' \in {"", "EOF"} => ending \in {"", "EOF"}
    <3>1. CASE Arrive
      BY <1>0, <3>1 DEF Arrive, EndInv
    <3>2. CASE BodyEnds
      BY <1>0, <3>2 DEF BodyEnds, EndInv
    <3>3. CASE Abort
      BY <1>0, <3>3 DEF Abort, EndInv
    <3> QED BY <1>1, <3>1, <3>2, <3>3
  <2> QED BY <2>1, <2>2, <2>3, SilentStep
<1>2. CASE Call \/ UNCHANGED vars
  <2>1. /\ UNCHANGED <<wire, cut, results>> /\ arrived' = arrived /\ ending' = ending
        /\ pos' = pos /\ cur' = cur /\ (st' = "rest" <=> st = "rest")
    BY <1>2 DEF Call, vars, transport
  <2>2. Limit' = Limit /\ ReadInv'
    BY <1>0, <2>1 DEF Limit, ReadInv
  <2> QED BY <1>0, <2>1, <2>2, SilentStep DEF EndInv
<1>3. CASE PreludeAccepted
  <2>1. /\ UNCHANGED <<wire, cut, results>> /\ arrived' = arrived /\ ending' = ending
        /\ pos' = pos + PreludeLen /\ st = "prelude" /\ st' = "rest"
        /\ Start(wire, cur') = pos /\ wire[cur'].prelude = "intact"
    BY <1>3 DEF PreludeAccepted, FrameAt, transport
  <2>2. Limit' = Limit /\ Limit = pos
    BY <2>1 DEF Limit
  <2>3. ReadInv'
    BY <2>1, <2>2 DEF ReadInv
  <2> QED BY <1>0, <2>1, <2>2, <2>3, SilentStep DEF EndInv
<1> QED BY <1>1, <1>2, <1>3

\* The invariant of the delivered frames.
THEOREM FrameInvariance == Spec => [](IInv /\ FrameInv)
<1>1. Init => IInv /\ FrameInv
  BY InitInvariant, InitFrames
<1>2. IInv /\ FrameInv /\ [Next]_vars => IInv' /\ FrameInv'
  <2> SUFFICES ASSUME IInv, FrameInv, [Next]_vars PROVE IInv' /\ FrameInv'
    OBVIOUS
  <2>1. IInv'
    BY StepInvariant
  <2>2. FrameInv'
    BY SilentFrames, PreludeErrorFrames, RestErrorFrames, DeliverFrames
    DEF Next, ReadPrelude, ReadRest
  <2> QED BY <2>1, <2>2
<1> QED BY <1>1, <1>2, PTL DEF Spec

\* Frames come out whole, undamaged, in their order and once, whatever errors
\* the reader of the stream ignored on the way.
THEOREM WholeAndInOrder == Spec => []DeliveredInOrder
<1>1. IInv /\ FrameInv => DeliveredInOrder
  BY DEF FrameInv
<1> QED BY FrameInvariance, <1>1, PTL

\* Up to the first error no frame is missing, and io.EOF is only the first if the
\* body ended between two frames.
THEOREM NothingSkipped == Spec => []NothingLostInSilence
<1>1. IInv /\ FrameInv => NothingLostInSilence
  BY DEF FrameInv
<1> QED BY FrameInvariance, <1>1, PTL

\* A frame whose body is damaged costs a reader that carries on that frame alone.
THEOREM OneForOne == Spec => []OneBadFrameCostsOne
<1>1. IInv /\ FrameInv => OneBadFrameCostsOne
  <2> SUFFICES ASSUME IInv, FrameInv, Whole, ending = "EOF",
                      \E k \in 1..Len(results) : results[k].kind = "EOF",
                      NEW i \in Frames(wire)
               PROVE  \E k \in 1..Len(results) : results[k].frame = i
    BY DEF OneBadFrameCostsOne, Whole
  <2>1. PICK m \in 1..(Len(wire) + 1) : Reached(m)
    BY DEF FrameInv, CostInv
  <2>2. m = Len(wire) + 1
    BY <2>1 DEF Reached
  <2>3. i < Len(wire) + 1
    <3>1. Len(wire) \in Nat
      BY Situation
    <3>2. i \in 1..Len(wire)
      BY DEF Frames
    <3> QED BY <3>1, <3>2
  <2> QED BY <2>1, <2>2, <2>3 DEF Reached
<1> QED BY FrameInvariance, <1>1, PTL

-----------------------------------------------------------------------------
(* The decoder on a body keeps the promise of FrameSource. *)

\* The values of the variables of FrameSource.
Items == [k \in Sent |-> [intact |-> k \in Frames(wire),
                          carries |-> IF wire[k].message = "event" THEN "event" ELSE "apierror"]]
Partial == \A k \in 1..(Len(wire) + 1) : Start(wire, k) # cut
Clean == Errors = {}
Passed == {i \in 1..Len(wire) : \E k \in 1..Len(results) : results[k].frame >= i}
Shown(kind) == CASE kind \in {"decoded", "raw"} -> "event"
                 [] kind \in {"apierror", "EOF"} -> kind
                 [] OTHER -> "error"
Got == [k \in 1..Len(results) |-> Shown(results[k].kind)]

\* What was sent as a whole is the first frames.
LEMMA SentIsPrefix ==
  ASSUME IInv
  PROVE  \E s \in Nat : Sent = 1..s
<1>1. wire \in Wires /\ Len(wire) \in Nat /\ cut \in Nat
  BY Situation
<1> DEFINE l == Len(wire)
           T == {n \in Nat : \A k \in Sent : k <= n}
<1>2. Sent \subseteq 1..l
  BY DEF Sent
<1>3. l \in T
  BY <1>1, <1>2
<1>4. PICK s \in T : \A n \in T : s <= n
  BY <1>3, Smallest
<1>5. s \in Nat /\ \A k \in Sent : k <= s
  BY <1>4
<1>6. s # 0 => s \in Sent
  <2>1. ASSUME s # 0, s \notin Sent PROVE FALSE
    <3>1. s - 1 \in Nat /\ ~(s <= s - 1)
      BY <1>5, <2>1
    <3>2. \A k \in Sent : k \in Nat /\ k <= s /\ k # s
      BY <1>2, <1>5, <2>1
    <3>3. \A k \in Sent : k <= s - 1
      BY <1>5, <3>2
    <3> QED BY <1>4, <3>1, <3>3
  <2> QED BY <2>1
<1>7. ASSUME NEW k \in 1..s PROVE k \in Sent
  <2>1. s \in Sent /\ s \in 1..l /\ Start(wire, s + 1) <= cut
    BY <1>2, <1>5, <1>6 DEF Sent
  <2>2. k \in 1..l /\ k + 1 \in 1..(l + 1) /\ s + 1 \in 1..(l + 1) /\ k + 1 <= s + 1
    BY <1>1, <1>5, <2>1
  <2>3. Start(wire, k + 1) <= Start(wire, s + 1)
    BY <1>1, <2>2, OffsetsOrder
  <2>4. Start(wire, k + 1) \in Nat /\ Start(wire, s + 1) \in Nat
    BY <1>1, <2>2, Offsets
  <2>5. Start(wire, k + 1) <= cut
    BY <1>1, <2>1, <2>3, <2>4
  <2> QED BY <2>2, <2>5 DEF Sent
<1>8. \A k \in Sent : k \in 1..s
  BY <1>2, <1>5
<1> QED BY <1>5, <1>7, <1>8

\* The promise speaks of the frames the body holds whole, in their order.
LEMMA ItemsTyped ==
  ASSUME IInv
  PROVE  /\ Items \in Seq([intact : BOOLEAN, carries : {"event", "apierror"}])
         /\ \A k : k \in Sent <=> k \in 1..Len(Items)
         /\ \A k \in Sent : /\ Items[k].intact <=> k \in Frames(wire)
                            /\ Items[k].carries =
                                 IF wire[k].message = "event" THEN "event" ELSE "apierror"
<1>1. PICK s \in Nat : Sent = 1..s
  BY SentIsPrefix
<1> DEFINE Item == [intact : BOOLEAN, carries : {"event", "apierror"}]
<1>2. \A k \in 1..s : Items[k] \in Item
  BY <1>1 DEF Items
<1>3. Items = [k \in 1..s |-> Items[k]]
  BY <1>1 DEF Items
<1> HIDE DEF Item
<1>4. Items \in Seq(Item) /\ Len(Items) = s
  BY <1>2, <1>3
<1> QED BY <1>1, <1>4 DEF Item, Items

\* Who has passed all frames up to m, and no other, has passed m frames.
LEMMA PassedCount ==
  ASSUME NEW m \in Nat
  PROVE  Cardinality(1..m) = m
<1>1. 1 \in Int /\ m \in Int
  OBVIOUS
<1>2. Cardinality(1..m) = IF 1 > m THEN 0 ELSE m - 1 + 1
  BY <1>1, FS_Interval
<1> QED BY <1>2

\* Before the first error, the frames given are the first ones.
LEMMA CleanPassed ==
  ASSUME IInv, FrameInv, Clean
  PROVE  /\ Passed = 1..Len(results) /\ Cardinality(Passed) = Len(results)
         /\ Len(results) <= Len(wire) /\ Limit = Start(wire, Len(results) + 1)
<1> DEFINE n == Len(results)
<1>1. n \in Nat /\ Len(wire) \in Nat
  BY Situation
<1>2. n <= Len(wire) /\ Limit = Start(wire, n + 1)
  BY DEF FrameInv, CleanInv, Clean
<1>3. \A k \in 1..n : results[k].kind \in Events
  BY DEF Clean, Errors
<1>4. \A k \in 1..n : results[k].frame = k
  BY <1>3 DEF FrameInv, NothingLostInSilence, Clean
<1>5. Passed = {i \in 1..Len(wire) : \E k \in 1..n : k >= i}
  BY <1>4 DEF Passed
<1> HIDE DEF n
<1>6. Passed = 1..n
  BY <1>1, <1>2, <1>5
<1>7. Cardinality(Passed) = n
  BY <1>1, <1>6, PassedCount
<1> QED BY <1>2, <1>6, <1>7 DEF n

\* At first the source has given nothing.
LEMMA SourceInit == Init => Source!Init
<1> SUFFICES ASSUME Init PROVE Source!Init
  OBVIOUS
<1>1. IInv /\ results = <<>>
  BY InitInvariant DEF Init
<1>2. Len(results) = 0 /\ 1..0 = {}
  BY <1>1
<1>3. Clean
  BY <1>2 DEF Clean, Errors
<1>4. Cardinality(Passed) = 0
  <2>1. Passed = {}
    BY <1>2 DEF Passed
  <2> QED BY <2>1, FS_EmptySet
<1>5. Got = <<>>
  BY <1>2 DEF Got
<1>6. Items \in Seq([intact : BOOLEAN, carries : {"event", "apierror"}])
  BY <1>1, ItemsTyped
<1> QED BY <1>3, <1>4, <1>5, <1>6
        DEF Source!Init, Source!Item, Items, Clean, Passed, Got, Shown

\* A result that is no frame changes nothing but clean and got.
LEMMA ErrorShown ==
  ASSUME IInv, FrameInv, wire' = wire, cut' = cut, NEW kind \in Kinds \ Events, Return(kind, 0)
  PROVE  /\ ~Clean' /\ Got' = Append(Got, Shown(kind))
         /\ Passed' = Passed /\ Items' = Items /\ (Partial' <=> Partial)
<1> DEFINE n == Len(results)
<1>1. /\ Len(results') = n + 1 /\ results'[n + 1].kind = kind /\ results'[n + 1].frame = 0
      /\ \A k \in 1..n : results'[k] = results[k]
  BY Appended
<1>2. n \in Nat
  BY Situation
<1>3. /\ n + 1 \in 1..(n + 1) /\ \A k \in 1..n : k \in 1..(n + 1)
      /\ \A k \in 1..(n + 1) : k = n + 1 \/ k \in 1..n
  BY <1>2, OneMore
<1>4. Got = [k \in 1..n |-> Shown(results[k].kind)]
  BY DEF Got
<1> HIDE DEF n
<1>5. ~Clean'
  <2>1. n + 1 \in Errors'
    BY <1>1, <1>3 DEF Errors
  <2> QED BY <2>1 DEF Clean
<1>6. Got' = Append(Got, Shown(kind))
  <2>1. Got' = [k \in 1..(n + 1) |-> Shown(results'[k].kind)]
    BY <1>1 DEF Got
  <2> QED BY <1>1, <1>2, <1>3, <1>4, <2>1
<1>7. Passed' = Passed
  <2>1. ASSUME NEW i \in 1..Len(wire)
        PROVE  (\E k \in 1..(n + 1) : results'[k].frame >= i)
                 <=> (\E k \in 1..n : results[k].frame >= i)
    <3>1. ~(0 >= i)
      OBVIOUS
    <3> QED BY <1>1, <1>3, <3>1
  <2> QED BY <1>1, <2>1 DEF Passed, n
<1>8. Items' = Items /\ (Partial' <=> Partial)
  BY DEF Items, Sent, Partial
<1> QED BY <1>5, <1>6, <1>7, <1>8

\* An error of Next that is not io.EOF is a failure of the source.
LEMMA SourceFails ==
  ASSUME IInv, FrameInv, UNCHANGED transport, NEW kind \in Kinds \ (Events \cup {"EOF"}),
         Return(kind, 0)
  PROVE  Source!Fail
<1>1. wire' = wire /\ cut' = cut /\ kind \in Kinds \ Events
  BY DEF transport
<1>2. Shown(kind) = "error"
  BY DEF Shown, Events
<1>3. /\ Clean' = FALSE /\ Got' = Append(Got, "error")
      /\ Cardinality(Passed)' = Cardinality(Passed)
      /\ Items' = Items /\ Partial' = Partial
  BY <1>1, <1>2, ErrorShown DEF Clean, Partial
<1> QED BY <1>3, Zenon DEF Source!Fail, Items, Partial, Clean, Passed, Got, Shown

\* io.EOF of a body that was clean so far is the end of the source.
LEMMA SourceEnds ==
  ASSUME IInv, FrameInv, UNCHANGED transport, Return("EOF", 0),
         Clean => Limit = cut
  PROVE  Source!End
<1>1. wire' = wire /\ cut' = cut /\ "EOF" \in Kinds \ Events
  BY DEF transport, Kinds, Events
<1>2. Shown("EOF") = "EOF"
  BY DEF Shown
<1>3. /\ Clean' = FALSE /\ Got' = Append(Got, "EOF")
      /\ Cardinality(Passed)' = Cardinality(Passed)
      /\ Items' = Items /\ Partial' = Partial
  BY <1>1, <1>2, ErrorShown DEF Clean, Partial
<1>4. ASSUME Clean PROVE Cardinality(Passed) = Len(Items) /\ ~Partial
  <2> DEFINE n == Len(results)
  <2>1. /\ wire \in Wires /\ Len(wire) \in Nat /\ n \in Nat
        /\ Cardinality(Passed) = n /\ n <= Len(wire) /\ cut = Start(wire, n + 1)
    BY <1>4, CleanPassed, Situation
  <2> HIDE DEF n
  <2>2. n + 1 \in 1..(Len(wire) + 1)
    BY <2>1
  <2>3. ~Partial
    BY <2>1, <2>2 DEF Partial
  <2>4. ASSUME NEW k \in 1..Len(wire)
        PROVE  Start(wire, k + 1) <= cut <=> k <= n
    <3>1. k + 1 \in 1..(Len(wire) + 1)
      BY <2>1
    <3>2. k + 1 <= n + 1 => Start(wire, k + 1) <= Start(wire, n + 1)
      BY <2>1, <2>2, <3>1, OffsetsOrder
    <3>3. Start(wire, k + 1) <= Start(wire, n + 1) => k < n + 1
      <4>1. k \in 1..(Len(wire) + 1)
        BY <2>1
      <4> QED BY <2>1, <2>2, <4>1, OffsetsOrder
    <3> QED BY <2>1, <3>2, <3>3
  <2>5. Sent = 1..n
    BY <2>1, <2>4 DEF Sent
  <2>6. Len(Items) = n
    <3>1. \A k : k \in 1..n <=> k \in 1..Len(Items)
      BY <2>5, ItemsTyped
    <3>2. Len(Items) \in Nat
      BY ItemsTyped
    <3>3. \A a, c \in Nat : (\A k : k \in 1..a <=> k \in 1..c) => a = c
      <4> SUFFICES ASSUME NEW a \in Nat, NEW c \in Nat, \A k : k \in 1..a <=> k \in 1..c
                   PROVE  a = c
        OBVIOUS
      <4>1. a \in 1..a <=> a \in 1..c
        OBVIOUS
      <4>2. c \in 1..a <=> c \in 1..c
        OBVIOUS
      <4> QED BY <4>1, <4>2
    <3> QED BY <2>1, <3>1, <3>2, <3>3
  <2> QED BY <2>1, <2>3, <2>6
<1> QED BY <1>3, <1>4, Zenon DEF Source!End, Items, Partial, Clean, Passed, Got, Shown

\* A frame that comes out of Recv is the next one the source gives.
LEMMA SourceGives == IInv /\ FrameInv /\ Deliver => Source!Give
<1> SUFFICES ASSUME IInv, FrameInv, Deliver PROVE Source!Give
  OBVIOUS
<1> DEFINE n == Len(results)
           kind == Event(wire[cur])
<1>0. /\ wire' = wire /\ cut' = cut /\ st = "rest" /\ pos' = pos + RestLen
      /\ Return(kind, cur) /\ wire[cur].body = "intact" /\ wire[cur].headers = "strings"
      /\ arrived - pos >= RestLen
  BY DEF Deliver, transport, CanRead
<1>1. /\ wire \in Wires /\ Len(wire) \in Nat /\ Limit \in Nat /\ arrived \in Nat /\ cut \in Nat
      /\ pos \in Nat /\ pos <= arrived /\ arrived <= cut
      /\ \A k \in 1..n : results[k].frame \in 0..Len(wire)
  BY Situation
<1>2. /\ cur \in 1..Len(wire) /\ cur \in 1..(Len(wire) + 1) /\ cur + 1 \in 1..(Len(wire) + 1)
      /\ Limit = Start(wire, cur) /\ RestLen \in Nat
      /\ pos + RestLen = Start(wire, cur + 1)
      /\ wire[cur].prelude = "intact" /\ ~LengthsInvalid(wire[cur])
  BY <1>0, ReadingFrame
<1>3. cur \in Frames(wire)
  BY <1>0, <1>2 DEF Frames
<1>4. cur \in Sent
  <2>1. \A a, p, r, c \in Nat : a - p >= r /\ a <= c => p + r <= c
    OBVIOUS
  <2>2. Start(wire, cur + 1) <= cut
    BY <1>0, <1>1, <1>2, <2>1
  <2> QED BY <1>2, <2>2 DEF Sent
<1>5. /\ cur \in 1..Len(Items) /\ Items[cur].intact
      /\ Items[cur].carries = IF wire[cur].message = "event" THEN "event" ELSE "apierror"
  BY <1>3, <1>4, ItemsTyped
<1>6. kind \in Events /\ Shown(kind) = Items[cur].carries
  <2>1. wire[cur].message \in {"event", "exception", "error"}
    BY <1>1, <1>2, WireTyped DEF Frame
  <2> QED BY <1>5, <2>1 DEF Event, Decoded, Events, Shown
<1> HIDE DEF kind
<1>7. /\ Len(results') = n + 1 /\ results'[n + 1].kind = kind /\ results'[n + 1].frame = cur
      /\ \A k \in 1..n : results'[k] = results[k]
  BY <1>0, Appended
<1>n. n \in Nat
  BY Situation
<1>8. /\ n + 1 \in 1..(n + 1) /\ \A k \in 1..n : k \in 1..(n + 1)
      /\ \A k \in 1..(n + 1) : k = n + 1 \/ k \in 1..n
  BY <1>n, OneMore
<1>9. Got = [k \in 1..n |-> Shown(results[k].kind)]
  BY DEF Got
<1>10. \A k \in 1..n : results[k].frame < cur
  <2> SUFFICES ASSUME NEW k \in 1..n PROVE results[k].frame < cur
    OBVIOUS
  <2>1. CASE results[k].frame = 0
    BY <1>2, <2>1
  <2>2. CASE results[k].frame # 0
    <3>1. results[k].frame \in Frames(wire) /\ Start(wire, results[k].frame + 1) <= Limit
      BY <2>2 DEF FrameInv, PlacedInv
    <3>2. PICK f \in 1..Len(wire) : f = results[k].frame
      BY <3>1 DEF Frames
    <3>3. f \in 1..(Len(wire) + 1)
      <4>1. Len(wire) \in Nat
        BY <1>1
      <4> QED BY <3>2, <4>1
    <3> QED BY <1>1, <1>2, <3>1, <3>2, <3>3, OffsetsOrder
  <2> QED BY <2>1, <2>2
<1>11. Clean => cur = Cardinality(Passed) + 1
  <2> SUFFICES ASSUME Clean PROVE cur = n + 1
    BY CleanPassed
  <2>1. Limit = Start(wire, n + 1) /\ n <= Len(wire)
    BY CleanPassed
  <2>2. n + 1 \in 1..(Len(wire) + 1)
    <3>1. Len(wire) \in Nat /\ n \in Nat
      BY <1>1, <1>n
    <3>2. \A a, c \in Nat : a <= c => a + 1 \in 1..(c + 1)
      OBVIOUS
    <3> QED BY <2>1, <3>1, <3>2
  <2>3. PICK m \in 1..(Len(wire) + 1) : m = n + 1
    BY <2>2
  <2>4. Start(wire, cur) = Start(wire, m)
    BY <1>2, <2>1, <2>3
  <2> QED BY <1>1, <1>2, <2>3, <2>4, OffsetsOrder
<1>12. cur > Cardinality(Passed)
  <2>1. cur - 1 \in Nat /\ cur - 1 < cur /\ cur \in Nat
    BY <1>2
  <2>2. Passed \in SUBSET (1..(cur - 1))
    <3> SUFFICES ASSUME NEW i \in 1..Len(wire), NEW k \in 1..n, results[k].frame >= i
                 PROVE  i \in 1..(cur - 1)
      BY DEF Passed
    <3>1. PICK f \in 0..Len(wire) : f = results[k].frame
      BY <1>1
    <3>2. f < cur
      BY <1>10, <3>1
    <3> QED BY <2>1, <3>1, <3>2
  <2>3. IsFiniteSet(1..(cur - 1)) /\ Cardinality(1..(cur - 1)) = cur - 1
    <3>1. IsFiniteSet(1..(cur - 1))
      BY <2>1, FS_Interval
    <3> QED BY <2>1, <3>1, PassedCount
  <2>4. Cardinality(Passed) <= cur - 1 /\ Cardinality(Passed) \in Nat
    BY <2>2, <2>3, FS_Subset, FS_CardinalityType
  <2> QED BY <2>1, <2>4
<1> HIDE DEF n
<1>13. Cardinality(Passed)' = cur
  <2>1. Passed' = {i \in 1..Len(wire) : \E k \in 1..(n + 1) : results'[k].frame >= i}
    BY <1>0, <1>7 DEF Passed
  <2>2. ASSUME NEW i \in 1..Len(wire)
        PROVE  (\E k \in 1..(n + 1) : results'[k].frame >= i) <=> i \in 1..cur
    <3>0. i \in Nat /\ i >= 1 /\ cur \in Nat
      BY <1>2
    <3>1. i \in 1..cur => results'[n + 1].frame >= i
      BY <1>7, <3>0
    <3>2. ASSUME NEW k \in 1..(n + 1), results'[k].frame >= i PROVE i \in 1..cur
      <4>1. CASE k = n + 1
        BY <1>7, <3>0, <3>2, <4>1
      <4>2. CASE k \in 1..n
        <5>1. PICK f \in 0..Len(wire) : f = results[k].frame
          BY <1>1, <4>2 DEF n
        <5>2. f < cur /\ f >= i
          BY <1>7, <1>10, <3>2, <4>2, <5>1 DEF n
        <5> QED BY <3>0, <5>1, <5>2
      <4> QED BY <1>8, <4>1, <4>2
    <3> QED BY <1>8, <3>1, <3>2
  <2>3. 1..cur \subseteq 1..Len(wire)
    BY <1>1, <1>2
  <2>4. Passed' = 1..cur
    BY <2>1, <2>2, <2>3
  <2>5. cur \in Nat
    BY <1>2
  <2> QED BY <2>4, <2>5, PassedCount
<1>14. Clean' = Clean
  <2>1. \A k \in 1..(n + 1) : k \in Errors' <=> k \in Errors
    BY <1>6, <1>7, <1>8 DEF Errors, n
  <2>2. Errors \subseteq 1..n /\ Errors' \subseteq 1..(n + 1)
    BY <1>7 DEF Errors, n
  <2>3. Clean' <=> Clean
    BY <1>8, <2>1, <2>2 DEF Clean
  <2> QED BY <2>3 DEF Clean
<1>15. Got' = Append(Got, Items[cur].carries)
  <2>1. Got' = [k \in 1..(n + 1) |-> Shown(results'[k].kind)]
    BY <1>7 DEF Got
  <2>2. Got' = Append(Got, Shown(kind))
    BY <1>7, <1>n, <1>8, <1>9, <2>1
  <2> QED BY <1>6, <2>2
<1>16. Items' = Items /\ Partial' = Partial
  BY <1>0 DEF Items, Sent, Partial
<1>17. IF Clean THEN cur = Cardinality(Passed) + 1 ELSE cur > Cardinality(Passed)
  BY <1>11, <1>12
<1> QED BY <1>5, <1>13, <1>14, <1>15, <1>16, <1>17, Zenon
        DEF Source!Give, Items, Partial, Clean, Passed, Got, Shown

\* Every step of the decoder is one of FrameSource, or none.
LEMMA SourceStep == IInv /\ FrameInv /\ [Next]_vars => [Source!Next]_Source!vars
<1> SUFFICES ASSUME IInv, FrameInv, [Next]_vars PROVE [Source!Next]_Source!vars
  OBVIOUS
<1>1. ASSUME UNCHANGED <<wire, cut, results>> PROVE UNCHANGED Source!vars
  BY <1>1 DEF Source!vars, Sent, Errors
<1>2. CASE Arrive \/ BodyEnds \/ Abort \/ Call \/ PreludeAccepted \/ UNCHANGED vars
  BY <1>1, <1>2 DEF Arrive, BodyEnds, Abort, Call, PreludeAccepted, vars, transport
<1>3. CASE PreludeShort
  <2> DEFINE kind == IF ReadFullError = "UnexpectedEOF" THEN "truncated" ELSE ReadFullError
  <2>1. /\ Return(kind, 0) /\ UNCHANGED transport /\ ending # "" /\ Limit = pos
        /\ ending \in {"EOF", "UnexpectedEOF", "reset"}
    BY <1>3 DEF PreludeShort, FallsShort, Limit, IInv, TypeOK
  <2>2. kind \in {"EOF", "truncated", "reset"}
    BY <2>1 DEF ReadFullError
  <2>3. kind = "EOF" => ending = "EOF" /\ ~(arrived > pos)
    BY <2>1 DEF ReadFullError
  <2> HIDE DEF kind
  <2>4. CASE kind = "EOF"
    <3>1. pos \in Nat /\ arrived \in Nat /\ pos <= arrived
      BY Situation
    <3>2. arrived = cut
      BY <2>3, <2>4 DEF FrameInv, EndInv
    <3>3. Limit = cut
      BY <2>1, <2>3, <2>4, <3>1, <3>2
    <3> QED BY <2>1, <2>4, <3>3, SourceEnds DEF Source!Next
  <2>5. CASE kind # "EOF"
    <3>1. kind \in Kinds \ (Events \cup {"EOF"})
      BY <2>2, <2>5 DEF Kinds, Events
    <3> QED BY <2>1, <3>1, SourceFails DEF Source!Next
  <2> QED BY <2>4, <2>5
<1>4. CASE PreludeRejected
  <2>1. "prelude" \in Kinds \ (Events \cup {"EOF"})
    BY DEF Kinds, Events
  <2> QED BY <1>4, <2>1, SourceFails DEF PreludeRejected, Source!Next
<1>5. CASE RestShort
  <2> DEFINE kind == IF ending = "reset" THEN "reset" ELSE "truncated"
  <2>1. kind \in Kinds \ (Events \cup {"EOF"})
    BY DEF Kinds, Events
  <2> QED BY <1>5, <2>1, SourceFails DEF RestShort, Source!Next
<1>6. CASE BodyRejected
  <2>1. "body" \in Kinds \ (Events \cup {"EOF"})
    BY DEF Kinds, Events
  <2> QED BY <1>6, <2>1, SourceFails DEF BodyRejected, Source!Next
<1>7. CASE Deliver
  BY <1>7, SourceGives DEF Source!Next
<1> QED BY <1>2, <1>3, <1>4, <1>5, <1>6, <1>7 DEF Next, ReadPrelude, ReadRest

\* Recv on a body that may be cut, damaged or reset at any byte keeps the promise
\* of FrameSource; a server error in the stream is told from an event.
THEOREM ImplementsSource == Spec => SourceKept
<1>1. IInv /\ FrameInv /\ [Next]_vars => [Source!Next]_Source!vars
  BY SourceStep
<1> QED BY SourceInit, FrameInvariance, <1>1, PTL DEF Spec, SourceKept, Source!Spec
==============================================================================
