----------------------------- MODULE HeaderCodec -----------------------------
(***************************************************************************)
(* The headers of a frame as bytes: Encode writes them, decodeHeaders      *)
(* reads them one field after the other.  A header is the length of its    *)
(* name in one byte, the name, a type, and for a string the length of the  *)
(* value in two bytes and the value.  Offset i counts from 0, as in the    *)
(* code.  Whoever builds a frame may put any bytes there, and the bytes    *)
(* need not be those Encode writes: an index out of range would panic.     *)
(***************************************************************************)
EXTENDS Integers, Sequences, SequencesExt

CONSTANTS
  Base,        \* values of a byte, 256 in the code
  StringType,  \* 7
  HeaderMaps,  \* maps that are given to Encode
  Buffers      \* header blocks of frames that Encode did not write

Byte == 0..(Base - 1)

VARIABLES
  b,        \* the header block of the frame
  written,  \* history: the map b was encoded from, empty if it was not
  i,        \* bytes consumed
  field,    \* what decodeHeaders reads next
  name,     \* the name of the header being read
  need,     \* the length that was read for the next name or value
  out,      \* the map it builds
  read      \* history: the headers read, with their names, in order

block == <<b, written>>
decodeVars == <<block, i, field, name, need, out, read>>

NoHeaders == <<>>

-----------------------------------------------------------------------------
(* Encode. *)

\* The order of slices.Sort on strings.
Before(s, t) ==
  \/ IsStrictPrefix(s, t)
  \/ \E k \in 1..Len(s) :
       /\ k <= Len(t) /\ s[k] < t[k]
       /\ \A j \in 1..(k - 1) : s[j] = t[j]

\* A faulty writer that puts the low byte of a length first.
EncodeHeaderSwapped(n, v) ==
  <<Len(n) % Base>> \o n \o <<StringType>>
    \o <<Len(v) % Base, (Len(v) \div Base) % Base>> \o v

\* Lengths are cut to the width of their fields.
EncodeHeader(n, v) ==
  <<Len(n) % Base>> \o n \o <<StringType>>
    \o <<(Len(v) \div Base) % Base, Len(v) % Base>> \o v

\* The keys of a map in ascending order.
SortedKeys(D) ==
  CHOOSE keys \in [1..Cardinality(D) -> D] :
    \A j, k \in 1..Cardinality(D) : j < k => Before(keys[j], keys[k])

\* The headers of a map, as pairs of key and value.
HeadersOf(h) ==
  [k \in 1..Cardinality(DOMAIN h) |->
     <<SortedKeys(DOMAIN h)[k], h[SortedKeys(DOMAIN h)[k]]>>]

\* Headers one behind the other.
Written(hs) == FlattenSeq([k \in 1..Len(hs) |-> EncodeHeader(hs[k][1], hs[k][2])])

\* hdrBuf.
Encode(h) == Written(HeadersOf(h))

ASSUME CodecAssumption ==
  /\ Base \in Nat \ {0} /\ StringType \in Byte
  /\ Buffers \subseteq Seq(Byte)
  /\ \A h \in HeaderMaps : /\ IsFiniteSet(DOMAIN h) /\ DOMAIN h \subseteq Seq(Byte)
                           /\ h = [n \in DOMAIN h |-> h[n]]
                           /\ \A n \in DOMAIN h : h[n] \in Seq(Byte)

-----------------------------------------------------------------------------
(* decodeHeaders. *)

DecodeInit ==
  /\ \/ /\ b \in Buffers
        /\ written = NoHeaders
     \/ \E h \in HeaderMaps : b = Encode(h) /\ written = h
  /\ i = 0
  /\ field = "length"
  /\ name = <<>>
  /\ need = 0
  /\ out = NoHeaders
  /\ read = <<>>

Refuse ==
  /\ field' = "refused"
  /\ UNCHANGED <<block, i, name, need, out, read>>

\* Faulty tests: a field may reach one byte past the block, or not its end.
RoomLax(n) == i + n <= Len(b) + 1
RoomStrict(n) == i + n < Len(b)

\* i+n > len(b) is an error.
Room(n) == i + n <= Len(b)

\* b[k] and b[i:i+n].  Past the end of b the code panics; here it reads zeros,
\* and IndexInRange says that it never gets there.
At(k) == IF k < Len(b) THEN b[k + 1] ELSE 0
Slice(n) == [k \in 1..n |-> At(i + k - 1)]

\* A faulty reader that shifts the high byte too far.
LengthAtShifted(k) == At(k) * Base * Base + At(k + 1)

\* binary.BigEndian.Uint16.
LengthAt(k) == At(k) * Base + At(k + 1)

\* A faulty loop that ends when what is left cannot hold a header.
MoreToReadLax == i + 4 <= Len(b)

\* The condition of the loop.
MoreToRead == i < Len(b)

Finish ==
  /\ field = "length" /\ ~MoreToRead
  /\ field' = "done"
  /\ UNCHANGED <<block, i, name, need, out, read>>

NameLength ==
  /\ field = "length" /\ MoreToRead
  /\ need' = At(i)
  /\ i' = i + 1
  /\ field' = "name"
  /\ UNCHANGED <<block, name, out, read>>

Name ==
  /\ field = "name"
  /\ \/ /\ Room(need)
        /\ name' = Slice(need)
        /\ i' = i + need
        /\ field' = "type"
        /\ UNCHANGED <<block, need, out, read>>
     \/ ~Room(need) /\ Refuse

\* A type other than string ends it: "unsupported header type".
HeaderType ==
  /\ field = "type"
  /\ \/ /\ Room(1) /\ At(i) = StringType
        /\ i' = i + 1
        /\ field' = "valueLength"
        /\ UNCHANGED <<block, name, need, out, read>>
     \/ ~(Room(1) /\ At(i) = StringType) /\ Refuse

ValueLength ==
  /\ field = "valueLength"
  /\ \/ /\ Room(2)
        /\ need' = LengthAt(i)
        /\ i' = i + 2
        /\ field' = "value"
        /\ UNCHANGED <<block, name, out, read>>
     \/ ~Room(2) /\ Refuse

\* A name that comes twice keeps its last value.
Value ==
  /\ field = "value"
  /\ \/ /\ Room(need)
        /\ out' = [n \in DOMAIN out \cup {name} |-> IF n = name THEN Slice(need) ELSE out[n]]
        /\ read' = Append(read, <<name, Slice(need)>>)
        /\ i' = i + need
        /\ field' = "length"
        /\ UNCHANGED <<block, name, need>>
     \/ ~Room(need) /\ Refuse

DecodeNext ==
  Finish \/ NameLength \/ Name \/ HeaderType \/ ValueLength \/ Value

DecodeSpec == DecodeInit /\ [][DecodeNext]_decodeVars
-----------------------------------------------------------------------------
Fields == {"length", "name", "type", "valueLength", "value", "done", "refused"}

DecodeTypeOK ==
  /\ b \in Seq(Byte) /\ field \in Fields
  /\ i \in Nat /\ need \in 0..(Base * Base - 1)
  /\ name \in Seq(Byte)
  /\ DOMAIN out \subseteq Seq(Byte) /\ \A n \in DOMAIN out : out[n] \in Seq(Byte)

\* The block is never indexed or sliced past its end, whatever bytes a frame
\* brings: decodeHeaders does not panic.
IndexInRange == i <= Len(b)

\* What a list of headers stands for: a name that comes again takes its last
\* value.
Meaning(hs) ==
  [n \in {hs[k][1] : k \in 1..Len(hs)} |->
     hs[SelectLastInSeq(hs, LAMBDA h : h[1] = n)][2]]

\* The map stands for the very bytes of the block: what has been read, written
\* again header by header, is the block up to i, and all of it at the end.
ReadExactly ==
  field \in {"length", "done"} =>
    /\ SubSeq(b, 1, i) = Written(read) /\ out = Meaning(read)
    /\ field = "done" => i = Len(b)

\* The headers whose encoding has at most n bytes.
HeadersUpTo(n) ==
  {h \in BoundedSeq(Byte, Base - 1) \X BoundedSeq(Byte, Base * Base - 1) :
     Len(h[1]) + Len(h[2]) + 4 <= n}

\* A block is refused only if its bytes are no string header where the decoder
\* gave up.
NoHeaderRefused ==
  field = "refused" =>
    LET rest == SubSeq(b, Len(Written(read)) + 1, Len(b))
    IN \A h \in HeadersUpTo(Len(rest)) : ~IsPrefix(EncodeHeader(h[1], h[2]), rest)

\* What Encode writes comes back, as long as names and values are no longer than
\* the fields for their lengths can say.
RoundTrip ==
  /\ field \in {"done", "refused"} /\ written # NoHeaders
  /\ \A n \in DOMAIN written : Len(n) < Base /\ Len(written[n]) < Base * Base
  => field = "done" /\ out = written
==============================================================================
