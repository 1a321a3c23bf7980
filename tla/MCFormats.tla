------------------------------ MODULE MCFormats ------------------------------
(* Instances of Formats for TLC. *)
EXTENDS Formats

\* Bytes are bits: a name has at most 1 and a value at most 3 of them that its
\* length can tell.  Blocks of 9 bytes have room for two headers.
MCHeaderMaps ==
  LET names == {<<>>, <<0>>, <<1>>, <<1, 0>>}
      values == {<<>>, <<0>>, <<1, 0, 1>>, <<1, 1, 1, 0>>}
  IN UNION {[d -> values] : d \in SUBSET names}
MCBuffers == BoundedSeq({0, 1}, 9) \cup {Encode(h) : h \in MCHeaderMaps}

CONSTANTS prof, x, sso, key, v, w   \* words, keys and values

HeaderLine(words) == [kind |-> "header", name |-> words, closed |-> TRUE]
PairLine(k, val) == [kind |-> "pair", key |-> k, val |-> val]

MCLines ==
  {HeaderLine(n) : n \in {<<>>, <<x>>, <<prof>>, <<prof, x>>, <<sso, x>>}}
    \cup {PairLine(key, v), PairLine(key, w), PairLine(NoKey, v)}
    \cup {[HeaderLine(<<x>>) EXCEPT !.closed = FALSE]}
    \cup {[kind |-> k] : k \in {"blank", "bare", "toolong"}}

\* Five lines: a section, another one, and the first again with another value.
GoodLines == {HeaderLine(<<x>>), HeaderLine(<<prof, x>>), PairLine(key, v), PairLine(key, w)}
MCFiles == BoundedSeq(MCLines, 3) \cup BoundedSeq(GoodLines, 5)
==============================================================================
