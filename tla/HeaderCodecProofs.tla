-------------------------- MODULE HeaderCodecProofs --------------------------
(***************************************************************************)
(* decodeHeaders stays inside the header block, makes of it exactly what   *)
(* its bytes say, refuses only what is no header, and gives back what      *)
(* Encode wrote: for every number of values of a byte, every type of       *)
(* string, every block and every map.                                      *)
(***************************************************************************)
EXTENDS HeaderCodec, SetInduction, SequenceTheorems, TLAPS

-----------------------------------------------------------------------------
(* Encode. *)

\* A header: a key and a value.
HeaderPair == Seq(Byte) \X Seq(Byte)

\* Its lengths fit their fields.
Fits(h) == Len(h[1]) < Base /\ Len(h[2]) < Base * Base

\* A number is its high part and its low part.
LEMMA HighAndLow ==
  ASSUME NEW n \in Nat
  PROVE  /\ n % Base \in Byte /\ (n \div Base) % Base \in Byte
         /\ n < Base => n % Base = n
         /\ n < Base * Base => ((n \div Base) % Base) * Base + (n % Base) = n
<1>0. Base \in Nat /\ Base > 0
  BY CodecAssumption
<1> DEFINE q == n \div Base
           r == n % Base
<1>1. q \in Int /\ r \in 0..(Base - 1) /\ n = Base * q + r
  BY <1>0
<1> HIDE DEF q, r
<1>2. q >= 0
  <2>1. SUFFICES ASSUME q <= -1 PROVE FALSE
    BY <1>1
  <2>2. Base * q <= Base * (-1)
    BY <1>0, <1>1, <2>1
  <2> QED BY <1>0, <1>1, <2>2
<1>3. q % Base \in 0..(Base - 1)
  BY <1>0, <1>1
<1>4. ASSUME n < Base PROVE r = n
  <2>1. SUFFICES ASSUME q >= 1 PROVE FALSE
    BY <1>0, <1>1, <1>2
  <2>2. Base * q >= Base * 1
    BY <1>0, <1>1, <2>1
  <2> QED BY <1>0, <1>1, <1>4, <2>2
<1>5. ASSUME n < Base * Base PROVE (q % Base) * Base + r = n
  <2>1. q < Base
    <3>1. SUFFICES ASSUME q >= Base PROVE FALSE
      BY <1>0, <1>1
    <3>2. Base * q >= Base * Base
      BY <1>0, <1>1, <3>1
    <3> QED BY <1>0, <1>1, <1>5, <3>2
  <2>2. q % Base = q
    BY <1>0, <1>1, <1>2, <2>1
  <2> QED BY <1>0, <1>1, <2>2
<1>6. r \in Byte /\ q % Base \in Byte
  BY <1>1, <1>3 DEF Byte
<1> QED BY <1>4, <1>5, <1>6 DEF q, r

\* A number has one high part and one low part.
LEMMA DivisionUnique ==
  ASSUME NEW n \in Nat, NEW hi \in Nat, NEW lo \in Nat, lo < Base, n = hi * Base + lo
  PROVE  n \div Base = hi /\ n % Base = lo
<1>0. Base \in Nat /\ Base > 0
  BY CodecAssumption
<1> DEFINE q == n \div Base
           r == n % Base
<1>1. q \in Int /\ r \in 0..(Base - 1) /\ n = Base * q + r
  BY <1>0
<1> HIDE DEF q, r
<1>2. ~(q >= hi + 1)
  <2>1. SUFFICES ASSUME q >= hi + 1 PROVE FALSE
    OBVIOUS
  <2>2. Base * q >= Base * (hi + 1)
    BY <1>0, <1>1, <2>1
  <2>3. Base * (hi + 1) = hi * Base + Base
    BY <1>0
  <2> QED BY <1>0, <1>1, <2>2, <2>3
<1>3. ~(q <= hi - 1)
  <2>1. SUFFICES ASSUME q <= hi - 1 PROVE FALSE
    OBVIOUS
  <2>2. Base * q <= Base * (hi - 1)
    BY <1>0, <1>1, <2>1
  <2>3. Base * (hi - 1) = hi * Base - Base
    BY <1>0
  <2> QED BY <1>0, <1>1, <2>2, <2>3
<1>4. q = hi
  BY <1>1, <1>2, <1>3
<1>5. Base * q = hi * Base
  BY <1>0, <1>4
<1>6. r = lo
  BY <1>0, <1>1, <1>5
<1> QED BY <1>4, <1>6 DEF q, r

\* The bytes of a header, one by one.
LEMMA HeaderBytes ==
  ASSUME NEW n \in Seq(Byte), NEW v \in Seq(Byte)
  PROVE  LET e == EncodeHeader(n, v)
         IN  /\ e \in Seq(Byte) /\ Len(e) = Len(n) + Len(v) + 4
             /\ e[1] = Len(n) % Base
             /\ \A j \in 1..Len(n) : e[j + 1] = n[j]
             /\ e[Len(n) + 2] = StringType
             /\ e[Len(n) + 3] = (Len(v) \div Base) % Base
             /\ e[Len(n) + 4] = Len(v) % Base
             /\ \A j \in 1..Len(v) : e[j + (Len(n) + 4)] = v[j]
<1> DEFINE l == Len(n) % Base
           hi == (Len(v) \div Base) % Base
           lo == Len(v) % Base
           e1 == <<l>> \o n
           e2 == e1 \o <<StringType>>
           e3 == e2 \o <<hi, lo>>
           e4 == e3 \o v
<1>1. Len(n) \in Nat /\ Len(v) \in Nat
  OBVIOUS
<1>2. l \in Byte /\ hi \in Byte /\ lo \in Byte /\ StringType \in Byte
  BY <1>1, HighAndLow, CodecAssumption
<1>3. EncodeHeader(n, v) = e4
  BY DEF EncodeHeader
<1> HIDE DEF l, hi, lo
<1>4. /\ e1 \in Seq(Byte) /\ Len(e1) = Len(n) + 1 /\ e1[1] = l
      /\ \A j \in 1..Len(n) : e1[j + 1] = n[j]
  BY <1>1, <1>2
<1> HIDE DEF e1
<1>5. /\ e2 \in Seq(Byte) /\ Len(e2) = Len(n) + 2 /\ e2[Len(n) + 2] = StringType
      /\ \A j \in 1..(Len(n) + 1) : e2[j] = e1[j]
  BY <1>1, <1>2, <1>4
<1> HIDE DEF e2
<1>6. /\ e3 \in Seq(Byte) /\ Len(e3) = Len(n) + 4
      /\ e3[Len(n) + 3] = hi /\ e3[Len(n) + 4] = lo
      /\ \A j \in 1..(Len(n) + 2) : e3[j] = e2[j]
  BY <1>1, <1>2, <1>5
<1> HIDE DEF e3
<1>7. /\ e4 \in Seq(Byte) /\ Len(e4) = Len(n) + Len(v) + 4
      /\ \A j \in 1..(Len(n) + 4) : e4[j] = e3[j]
      /\ \A j \in 1..Len(v) : e4[j + (Len(n) + 4)] = v[j]
  BY SMTT(30), <1>1, <1>6
<1> HIDE DEF e4
<1>8. /\ e4[1] = l /\ e4[Len(n) + 2] = StringType
      /\ e4[Len(n) + 3] = hi /\ e4[Len(n) + 4] = lo
  <2>1. /\ 1 \in 1..(Len(n) + 1) /\ {1, Len(n) + 2} \subseteq 1..(Len(n) + 2)
        /\ {1, Len(n) + 2, Len(n) + 3, Len(n) + 4} \subseteq 1..(Len(n) + 4)
    BY <1>1
  <2>2. e4[1] = e1[1] /\ e4[Len(n) + 2] = e2[Len(n) + 2]
    BY SMTT(30), <1>5, <1>6, <1>7, <2>1
  <2>3. e4[Len(n) + 3] = e3[Len(n) + 3] /\ e4[Len(n) + 4] = e3[Len(n) + 4]
    BY <1>7, <2>1
  <2> QED BY <1>4, <1>5, <1>6, <2>2, <2>3
<1>9. ASSUME NEW j \in 1..Len(n) PROVE e4[j + 1] = n[j]
  <2>1. j + 1 \in 1..(Len(n) + 1) /\ j + 1 \in 1..(Len(n) + 2) /\ j + 1 \in 1..(Len(n) + 4)
    BY <1>1
  <2> QED BY <1>4, <1>5, <1>6, <1>7, <2>1
<1> QED BY <1>3, <1>7, <1>8, <1>9 DEF l, hi, lo

-----------------------------------------------------------------------------
(* Headers one behind the other. *)

\* Written grows by the header that is added, and is a block of bytes.
LEMMA WrittenGrows ==
  /\ Written(<<>>) = <<>>
  /\ \A hs \in Seq(HeaderPair), h \in HeaderPair :
       Written(Append(hs, h)) = Written(hs) \o EncodeHeader(h[1], h[2])
  /\ \A hs \in Seq(HeaderPair) : Written(hs) \in Seq(Byte)
<1> DEFINE E(hs) == [k \in 1..Len(hs) |-> EncodeHeader(hs[k][1], hs[k][2])]
<1>1. Written(<<>>) = <<>>
  <2>1. E(<<>>) = <<>>
    OBVIOUS
  <2> QED BY <2>1, Flatten DEF Written
<1>2. \A h \in HeaderPair : EncodeHeader(h[1], h[2]) \in Seq(Byte)
  BY HeaderBytes DEF HeaderPair
<1>3. ASSUME NEW hs \in Seq(HeaderPair)
      PROVE  E(hs) \in Seq(Seq(Byte)) /\ Len(E(hs)) = Len(hs)
  <2>1. Len(hs) \in Nat /\ \A k \in 1..Len(hs) : hs[k] \in HeaderPair
    OBVIOUS
  <2>2. \A k \in 1..Len(hs) : EncodeHeader(hs[k][1], hs[k][2]) \in Seq(Byte)
    BY <1>2, <2>1
  <2> QED BY <2>1, <2>2
<1>4. ASSUME NEW hs \in Seq(HeaderPair), NEW h \in HeaderPair
      PROVE  Written(Append(hs, h)) = Written(hs) \o EncodeHeader(h[1], h[2])
  <2> DEFINE n == Len(hs)
             hh == Append(hs, h)
             x == EncodeHeader(h[1], h[2])
  <2>1. /\ n \in Nat /\ hh \in Seq(HeaderPair) /\ Len(hh) = n + 1 /\ hh[n + 1] = h
        /\ \A k \in 1..n : hh[k] = hs[k]
    BY AppendProperties
  <2>2. x \in Seq(Byte)
    BY <1>2
  <2>3. E(hs) \in Seq(Seq(Byte)) /\ Len(E(hs)) = n
    BY <1>3
  <2>4. E(hh) \in Seq(Seq(Byte)) /\ Len(E(hh)) = n + 1
    BY <1>3, <2>1
  <2>5. /\ Append(E(hs), x) \in Seq(Seq(Byte)) /\ Len(Append(E(hs), x)) = n + 1
        /\ Append(E(hs), x)[n + 1] = x
        /\ \A k \in 1..n : Append(E(hs), x)[k] = E(hs)[k]
    <3> HIDE DEF E, x
    <3> QED BY <2>2, <2>3, AppendProperties
  <2>6. \A k \in 1..(n + 1) : E(hh)[k] = EncodeHeader(hh[k][1], hh[k][2])
    BY <2>1
  <2>7. \A k \in 1..n : E(hs)[k] = EncodeHeader(hs[k][1], hs[k][2])
    OBVIOUS
  <2>8. \A k \in 1..(n + 1) : E(hh)[k] = Append(E(hs), x)[k]
    <3>1. ASSUME NEW k \in 1..n PROVE E(hh)[k] = Append(E(hs), x)[k]
      <4>1. k \in 1..(n + 1)
        BY <2>1
      <4> HIDE DEF E, n, hh, x
      <4> QED BY <2>1, <2>5, <2>6, <2>7, <4>1
    <3>2. E(hh)[n + 1] = x
      <4>1. n + 1 \in 1..(n + 1)
        BY <2>1
      <4> QED BY <2>1, <2>6, <4>1
    <3> HIDE DEF E, n, hh, x
    <3> QED BY <2>1, <2>5, <3>1, <3>2
  <2>9. E(hh) = Append(E(hs), x)
    <3> HIDE DEF E, n, hh, x
    <3> QED BY <2>4, <2>5, <2>8, SeqEqual
  <2>10. Written(hh) = FlattenSeq(E(hh)) /\ Written(hs) = FlattenSeq(E(hs))
    BY DEF Written
  <2> HIDE DEF E, x
  <2>11. CASE hs = <<>>
    <3>1. E(hs) = <<>>
      BY <2>11 DEF E
    <3>2. Append(<<>>, x) = <<x>>
      OBVIOUS
    <3>3. Written(hh) = x /\ Written(hs) = <<>>
      BY <2>2, <2>9, <2>10, <3>1, <3>2, Flatten
    <3>4. <<>> \o x = x
      BY <2>2, ConcatEmptySeq
    <3> QED BY <3>3, <3>4 DEF x
  <2>12. CASE hs # <<>>
    <3>1. E(hs) # <<>>
      BY <2>3, <2>12, EmptySeq
    <3>2. FlattenSeq(Append(E(hs), x)) = FlattenSeq(E(hs)) \o x
      BY <2>2, <2>3, <3>1, Flatten
    <3>3. Written(hh) = Written(hs) \o x
      BY <2>9, <2>10, <3>2
    <3> QED BY <3>3 DEF x
  <2> QED BY <2>11, <2>12
<1>5. \A hs \in Seq(HeaderPair) : Written(hs) \in Seq(Byte)
  <2> DEFINE S == {n \in Nat : \A hs \in Seq(HeaderPair) : Len(hs) = n => Written(hs) \in Seq(Byte)}
  <2>1. 0 \in S
    BY <1>1, EmptySeq
  <2>2. ASSUME NEW n \in Nat, n \in S PROVE n + 1 \in S
    <3> SUFFICES ASSUME NEW hs \in Seq(HeaderPair), Len(hs) = n + 1
                 PROVE  Written(hs) \in Seq(Byte)
      OBVIOUS
    <3>1. hs # <<>>
      OBVIOUS
    <3>2. PICK gs \in Seq(HeaderPair), h \in HeaderPair : hs = Append(gs, h)
      BY <3>1, SequenceEmptyOrAppend
    <3>3. Len(gs) = n
      BY <3>2
    <3>4. Written(gs) \in Seq(Byte) /\ EncodeHeader(h[1], h[2]) \in Seq(Byte)
      BY <1>2, <2>2, <3>2, <3>3
    <3>5. Written(hs) = Written(gs) \o EncodeHeader(h[1], h[2])
      BY <1>4, <3>2
    <3> QED BY <3>4, <3>5, ConcatProperties
  <2> HIDE DEF S
  <2>3. Nat \subseteq S
    BY <2>1, <2>2, Induction
  <2>4. \A hs \in Seq(HeaderPair) : Len(hs) \in Nat
    OBVIOUS
  <2> QED BY <2>3, <2>4 DEF S
<1> QED BY <1>1, <1>4, <1>5

\* A later header of the same name replaces the earlier one.
LEMMA MeaningGrows ==
  /\ Meaning(<<>>) = NoHeaders
  /\ \A hs \in Seq(HeaderPair), h \in HeaderPair :
       Meaning(Append(hs, h)) =
         [n \in DOMAIN Meaning(hs) \cup {h[1]} |-> IF n = h[1] THEN h[2] ELSE Meaning(hs)[n]]
<1> DEFINE Places(hs, n) == {k \in 1..Len(hs) : hs[k][1] = n}
           Names(hs) == {hs[k][1] : k \in 1..Len(hs)}
<1>1. ASSUME NEW hs PROVE Meaning(hs) = [n \in Names(hs) |-> hs[Max(Places(hs, n))][2]]
  <2>1. \A n \in Names(hs) : Places(hs, n) # {}
    OBVIOUS
  <2>2. \A n \in Names(hs) : SelectLastInSeq(hs, LAMBDA h : h[1] = n) = Max(Places(hs, n))
    BY <2>1 DEF SelectLastInSeq
  <2> QED BY <2>2 DEF Meaning
<1>2. Meaning(<<>>) = NoHeaders
  <2>1. Names(<<>>) = {}
    OBVIOUS
  <2>2. [n \in {} |-> <<>>[Max(Places(<<>>, n))][2]] = <<>>
    OBVIOUS
  <2> HIDE DEF Names, Places
  <2>3. Meaning(<<>>) = [n \in {} |-> <<>>[Max(Places(<<>>, n))][2]]
    BY <1>1, <2>1
  <2> QED BY <2>2, <2>3 DEF NoHeaders
<1>3. ASSUME NEW hs \in Seq(HeaderPair), NEW h \in HeaderPair
      PROVE  Meaning(Append(hs, h)) =
               [n \in DOMAIN Meaning(hs) \cup {h[1]} |-> IF n = h[1] THEN h[2] ELSE Meaning(hs)[n]]
  <2> DEFINE m == Len(hs)
             hh == Append(hs, h)
  <2>1. /\ m \in Nat /\ Len(hh) = m + 1 /\ hh[m + 1] = h
        /\ \A k \in 1..m : hh[k] = hs[k]
    BY AppendProperties
  <2>2. Names(hh) = Names(hs) \cup {h[1]} /\ DOMAIN Meaning(hs) = Names(hs)
    <3>1. 1..(m + 1) = 1..m \cup {m + 1}
      BY <2>1
    <3>2. Names(hh) = {hh[k][1] : k \in 1..m} \cup {hh[m + 1][1]}
      BY <2>1, <3>1
    <3>3. {hh[k][1] : k \in 1..m} = {hs[k][1] : k \in 1..m}
      BY <2>1
    <3> QED BY <1>1, <2>1, <3>2, <3>3
  <2>3. Max(Places(hh, h[1])) = m + 1
    <3>1. m + 1 \in Places(hh, h[1]) /\ Places(hh, h[1]) \subseteq 1..(m + 1)
      BY <2>1
    <3>2. \A k \in Places(hh, h[1]) : m + 1 >= k /\ k \in Int
      BY <2>1, <3>1
    <3> HIDE DEF Places
    <3> QED BY <2>1, <3>1, <3>2 DEF Max
  <2>4. ASSUME NEW n, n # h[1] PROVE Places(hh, n) = Places(hs, n)
    <3>1. ASSUME NEW k PROVE k \in Places(hh, n) <=> k \in Places(hs, n)
      <4>1. k \in 1..(m + 1) <=> k \in 1..m \/ k = m + 1
        BY <2>1
      <4> QED BY <2>1, <2>4, <4>1
    <3> QED BY <3>1
  <2>5. ASSUME NEW n \in Names(hs) PROVE Max(Places(hs, n)) \in 1..m
    <3>1. Places(hs, n) # {} /\ Places(hs, n) \subseteq 0..m
      OBVIOUS
    <3> DEFINE P == Places(hs, n)
    <3>2. P \subseteq 1..m
      OBVIOUS
    <3> HIDE DEF P, m
    <3>3. PICK k \in P : \A j \in P : j <= k
      BY <2>1, <3>1, Largest DEF P
    <3>4. Max(P) \in P
      BY <3>2, <3>3 DEF Max
    <3> QED BY <3>2, <3>4 DEF P
  <2>6. ASSUME NEW n \in Names(hh)
        PROVE  hh[Max(Places(hh, n))][2] = IF n = h[1] THEN h[2] ELSE Meaning(hs)[n]
    <3>1. CASE n = h[1]
      BY <2>1, <2>3, <3>1
    <3>2. CASE n # h[1]
      <4>1. n \in Names(hs) /\ Places(hh, n) = Places(hs, n)
        BY <2>2, <2>4, <3>2
      <4>2. Meaning(hs)[n] = hs[Max(Places(hs, n))][2]
        BY <1>1, <4>1
      <4> HIDE DEF Places, Names
      <4> QED BY <2>1, <2>5, <3>2, <4>1, <4>2
    <3> QED BY <3>1, <3>2
  <2>7. Meaning(hh) = [n \in Names(hh) |-> hh[Max(Places(hh, n))][2]]
    BY <1>1
  <2> HIDE DEF Places, Names
  <2> QED BY <2>2, <2>6, <2>7
<1> QED BY <1>2, <1>3

-----------------------------------------------------------------------------
(* The keys of a map in their order. *)

\* Before as a set of pairs.
Precedes == {p \in Seq(Byte) \X Seq(Byte) : Before(p[1], p[2])}

\* A byte ranks as what it is.
Rank == [c \in Byte |-> c]

\* Strings are in a strict total order.
LEMMA StringsOrdered == Orders(Precedes, Seq(Byte))
<1>1. \A c \in Byte : Rank[c] = c /\ c \in Int
  BY CodecAssumption DEF Rank, Byte
<1>2. ASSUME NEW s \in Seq(Byte), NEW t \in Seq(Byte)
      PROVE  Before(s, t) <=> Lexical(Rank, s, t)
  <2>1. \A k \in 1..Len(s) : k <= Len(t) => s[k] \in Byte /\ t[k] \in Byte
    OBVIOUS
  <2>2. \A k \in 1..Len(s) : k <= Len(t) => (s[k] < t[k] <=> Rank[s[k]] < Rank[t[k]])
    BY <1>1, <2>1
  <2> QED BY <2>2 DEF Before, Lexical
<1>3. Precedes = LexicalPairs(Rank, Byte)
  BY <1>2 DEF Precedes, LexicalPairs
<1>4. /\ \A c \in Byte : Rank[c] \in Int
      /\ \A c, d \in Byte : Rank[c] = Rank[d] => c = d
  BY <1>1
<1> QED BY <1>3, <1>4, LexicalOrder

\* SortedKeys lists the keys of a map, each once.
LEMMA KeysListed ==
  ASSUME NEW D \in SUBSET Seq(Byte), IsFiniteSet(D)
  PROVE  /\ Cardinality(D) \in Nat /\ SortedKeys(D) \in [1..Cardinality(D) -> D]
         /\ \A j, k \in 1..Cardinality(D) : j # k => SortedKeys(D)[j] # SortedKeys(D)[k]
         /\ \A d \in D : \E k \in 1..Cardinality(D) : SortedKeys(D)[k] = d
<1> DEFINE n == Cardinality(D)
           f == SortedKeys(D)
<1>1. n \in Nat
  BY FS_CardinalityType
<1>2. \E g \in [1..n -> D] : \A j, k \in 1..n : j < k => Before(g[j], g[k])
  <2>1. PICK g \in [1..n -> D] : \A j, k \in 1..n : j < k => <<g[j], g[k]>> \in Precedes
    BY StringsOrdered, Listing
  <2> QED BY <2>1 DEF Precedes
<1>3. f \in [1..n -> D] /\ \A j, k \in 1..n : j < k => Before(f[j], f[k])
  BY <1>2 DEF SortedKeys
<1> HIDE DEF f
<1>4. ASSUME NEW j \in 1..n, NEW k \in 1..n, j # k PROVE f[j] # f[k]
  <2>1. ASSUME NEW x \in 1..n, NEW y \in 1..n, x < y PROVE f[x] # f[y]
    <3>1. f[x] \in Seq(Byte) /\ Before(f[x], f[y])
      BY <1>3, <2>1
    <3>2. ~Before(f[x], f[x])
      BY <3>1, StringsOrdered DEF Orders, Precedes
    <3> QED BY <3>1, <3>2
  <2>2. j < k \/ k < j
    BY <1>1, <1>4
  <2> QED BY <2>1, <2>2
<1>5. \A d \in D : \E k \in 1..n : f[k] = d
  <2>1. f \in Injection(1..n, D)
    BY <1>3, <1>4 DEF Injection, IsInjective
  <2>2. IsFiniteSet(1..n) /\ Cardinality(1..n) = n
    BY <1>1, FS_Interval
  <2>3. f \in Surjection(1..n, D)
    BY <2>1, <2>2, FS_Injection
  <2> QED BY <2>3 DEF Surjection
<1> QED BY <1>1, <1>3, <1>4, <1>5 DEF f

\* The headers that Encode writes stand for the map it was given.
LEMMA HeadersListed ==
  ASSUME NEW h \in HeaderMaps
  PROVE  /\ HeadersOf(h) \in Seq(HeaderPair) /\ Meaning(HeadersOf(h)) = h
         /\ \A k \in 1..Len(HeadersOf(h)) :
              HeadersOf(h)[k][1] \in DOMAIN h /\ HeadersOf(h)[k][2] = h[HeadersOf(h)[k][1]]
<1> DEFINE D == DOMAIN h
           n == Cardinality(D)
           f == SortedKeys(D)
           hs == HeadersOf(h)
<1>1. /\ IsFiniteSet(D) /\ D \in SUBSET Seq(Byte) /\ h = [d \in D |-> h[d]]
      /\ \A d \in D : h[d] \in Seq(Byte)
  BY CodecAssumption
<1>2. /\ n \in Nat /\ f \in [1..n -> D]
      /\ \A j, k \in 1..n : j # k => f[j] # f[k]
      /\ \A d \in D : \E k \in 1..n : f[k] = d
  BY <1>1, KeysListed
<1>3. hs = [k \in 1..n |-> <<f[k], h[f[k]]>>]
  BY DEF HeadersOf
<1> HIDE DEF D, n, f, hs
<1>4. \A k \in 1..n : hs[k] = <<f[k], h[f[k]]>> /\ f[k] \in D
  BY <1>2, <1>3
<1>5. ASSUME NEW k \in 1..n PROVE hs[k] \in HeaderPair /\ hs[k][1] = f[k] /\ hs[k][2] = h[f[k]]
  <2>1. f[k] \in Seq(Byte) /\ h[f[k]] \in Seq(Byte) /\ hs[k] = <<f[k], h[f[k]]>>
    BY <1>1, <1>4
  <2> QED BY <2>1 DEF HeaderPair
<1>6. hs \in Seq(HeaderPair) /\ Len(hs) = n
  BY <1>2, <1>3, <1>5
<1>7. Meaning(hs) = h
  <2>1. {hs[k][1] : k \in 1..n} = D
    BY <1>2, <1>4, <1>5
  <2>2. ASSUME NEW d \in D PROVE hs[SelectLastInSeq(hs, LAMBDA x : x[1] = d)][2] = h[d]
    <3>1. PICK k \in 1..n : f[k] = d
      BY <1>2
    <3>2. \A j \in 1..n : hs[j][1] = d <=> j = k
      BY <1>2, <1>5, <3>1
    <3>3. {j \in 1..Len(hs) : hs[j][1] = d} = {k}
      BY <1>6, <3>2
    <3>4. Max({k}) = k
      <4>1. \E x \in {k} : \A y \in {k} : x >= y
        OBVIOUS
      <4> QED BY <4>1 DEF Max
    <3>5. SelectLastInSeq(hs, LAMBDA x : x[1] = d) = k
      BY <3>3, <3>4 DEF SelectLastInSeq
    <3> QED BY <1>5, <3>1, <3>5
  <2>3. Meaning(hs) = [d \in D |-> hs[SelectLastInSeq(hs, LAMBDA x : x[1] = d)][2]]
    BY <1>6, <2>1 DEF Meaning
  <2>4. Meaning(hs) = [d \in D |-> h[d]]
    BY <2>2, <2>3
  <2> QED BY <1>1, <2>4
<1>8. \A k \in 1..Len(hs) : hs[k][1] \in D /\ hs[k][2] = h[hs[k][1]]
  BY <1>4, <1>5, <1>6
<1> QED BY <1>6, <1>7, <1>8 DEF hs, D

\* What Encode writes is a block of bytes.
LEMMA EncodeIsBlock == \A h \in HeaderMaps : Encode(h) \in Seq(Byte)
BY HeadersListed, WrittenGrows DEF Encode

\* The bytes of a block, and what is made of them, are natural numbers.
LEMMA BytesAreNat ==
  ASSUME b \in Seq(Byte), NEW k \in Nat
  PROVE  At(k) \in Byte
<1>1. Base \in Nat \ {0} /\ 0 \in Byte
  BY CodecAssumption DEF Byte
<1>2. CASE k < Len(b)
  BY <1>1, <1>2 DEF At
<1>3. CASE ~(k < Len(b))
  BY <1>1, <1>3 DEF At
<1> QED BY <1>2, <1>3

\* A slice is a text of the length that was asked for.
LEMMA SliceType ==
  ASSUME b \in Seq(Byte), i \in Nat, NEW n \in Nat
  PROVE  Slice(n) \in Seq(Byte)
<1>1. \A k \in 1..n : i + k - 1 \in Nat
  OBVIOUS
<1>2. \A k \in 1..n : At(i + k - 1) \in Byte
  BY <1>1, BytesAreNat
<1> QED BY <1>2 DEF Slice

\* The two bytes of a length give a number that fits them.
LEMMA LengthType ==
  ASSUME b \in Seq(Byte), NEW k \in Nat
  PROVE  LengthAt(k) \in 0..(Base * Base - 1)
<1>1. At(k) \in Byte /\ At(k + 1) \in Byte
  BY BytesAreNat
<1>2. Base \in Nat \ {0}
  BY CodecAssumption
<1> DEFINE hi == At(k)
           lo == At(k + 1)
<1>3. hi \in Nat /\ lo \in Nat /\ hi <= Base - 1 /\ lo <= Base - 1
  BY <1>1, <1>2 DEF Byte
<1>4. hi * Base <= (Base - 1) * Base
  BY <1>2, <1>3
<1>5. hi * Base + lo \in Nat /\ hi * Base + lo <= Base * Base - 1
  BY <1>2, <1>3, <1>4
<1> QED BY <1>2, <1>5 DEF LengthAt

-----------------------------------------------------------------------------
(* Types, and no index out of range. *)

\* i is where the loop says it is, and what it has read is a length.
IInv == DecodeTypeOK /\ IndexInRange

\* Before the first header is read the invariant holds.
LEMMA InitInvariant == DecodeInit => IInv
<1> SUFFICES ASSUME DecodeInit PROVE IInv
  OBVIOUS
<1>1. b \in Seq(Byte)
  BY CodecAssumption, EncodeIsBlock DEF DecodeInit
<1>2. 0 \in 0..(Base * Base - 1)
  BY CodecAssumption
<1> QED BY <1>1, <1>2 DEF DecodeInit, IInv, DecodeTypeOK, IndexInRange, Fields, NoHeaders

\* Every step of decodeHeaders keeps the invariant.
LEMMA StepInvariant == IInv /\ [DecodeNext]_decodeVars => IInv'
<1> SUFFICES ASSUME IInv, [DecodeNext]_decodeVars PROVE IInv'
  OBVIOUS
<1> USE DEF IInv, DecodeTypeOK, IndexInRange
<1>0. Base \in Nat \ {0} /\ need \in Nat
  BY CodecAssumption
<1>1. CASE Finish
  BY <1>1 DEF Finish, Fields, block
<1>2. CASE NameLength
  <2>1. At(i) \in 0..(Base * Base - 1)
    <3>1. At(i) \in Nat /\ At(i) <= Base - 1
      BY <1>0, BytesAreNat DEF Byte
    <3>2. Base - 1 <= Base * Base - 1
      BY <1>0
    <3> QED BY <1>0, <3>1, <3>2
  <2> QED BY <1>2, <2>1 DEF NameLength, MoreToRead, Fields, block
<1>3. CASE Name
  <2>1. CASE Room(need) /\ field' = "type"
    BY <1>0, <1>3, <2>1, SliceType DEF Name, Room, Refuse, Fields, block
  <2>2. CASE Refuse
    BY <2>2 DEF Refuse, Fields, block
  <2> QED BY <1>3, <2>1, <2>2 DEF Name
<1>4. CASE HeaderType
  BY <1>0, <1>4 DEF HeaderType, Room, Refuse, Fields, block
<1>5. CASE ValueLength
  <2>1. LengthAt(i) \in 0..(Base * Base - 1)
    BY LengthType
  <2> QED BY <1>5, <2>1 DEF ValueLength, Room, Refuse, Fields, block
<1>6. CASE Value
  <2>1. CASE Room(need) /\ field' = "length"
    BY <1>0, <1>6, <2>1, SliceType DEF Value, Room, Refuse, Fields, block
  <2>2. CASE Refuse
    BY <2>2 DEF Refuse, Fields, block
  <2> QED BY <1>6, <2>1, <2>2 DEF Value
<1>7. CASE UNCHANGED decodeVars
  BY <1>7 DEF decodeVars, block
<1> QED BY <1>1, <1>2, <1>3, <1>4, <1>5, <1>6, <1>7 DEF DecodeNext

\* The variables of the decoder have their types; lengths fit their fields.

\* The variables of the decoder have their types; lengths fit their fields.
THEOREM DecoderTyped == DecodeSpec => []DecodeTypeOK
<1>1. IInv => DecodeTypeOK
  BY DEF IInv
<1> QED BY InitInvariant, StepInvariant, <1>1, PTL DEF DecodeSpec

\* No index and no slice of decodeHeaders is out of range, whatever bytes a
\* frame brings: it cannot panic.
THEOREM DecoderInRange == DecodeSpec => []IndexInRange
<1>1. IInv => IndexInRange
  BY DEF IInv
<1> QED BY InitInvariant, StepInvariant, <1>1, PTL DEF DecodeSpec

-----------------------------------------------------------------------------
(* What decodeHeaders has read. *)

\* Where the header that is being read begins.
start == Len(Written(read))

\* h, as Encode writes it, is at offset p of the block.
HeaderAt(p, h) ==
  /\ p + Len(h[1]) + Len(h[2]) + 4 <= Len(b)
  /\ \A j \in 1..(Len(h[1]) + Len(h[2]) + 4) : EncodeHeader(h[1], h[2])[j] = b[p + j]

\* No header is there whose lengths fit their fields.
NoHeaderAt(p) == \A h \in HeaderPair : Fits(h) => ~HeaderAt(p, h)

\* The block begins with the headers that were read.
ReadInv ==
  /\ read \in Seq(HeaderPair) /\ out = Meaning(read)
  /\ start <= i /\ i <= Len(b)
  /\ \A j \in 1..start : b[j] = Written(read)[j]

\* The fields of the next header, as far as they have been read, follow.
FieldInv ==
  /\ field \in {"length", "done"} => i = start
  /\ field = "done" => i = Len(b)
  /\ field = "name" => i = start + 1 /\ need = At(start)
  /\ field \in {"type", "valueLength", "value"} =>
       /\ At(start) = Len(name)
       /\ \A j \in 1..Len(name) : b[(start + 1) + j] = name[j]
  /\ field = "type" => i = start + Len(name) + 1
  /\ field \in {"valueLength", "value"} => At(start + Len(name) + 1) = StringType
  /\ field = "valueLength" => i = start + Len(name) + 2
  /\ field = "value" =>
       i = start + Len(name) + 4 /\ need = LengthAt(start + Len(name) + 2)

\* What was refused was no header.
RefusedInv == field = "refused" => NoHeaderAt(start)

BlockInv == ReadInv /\ FieldInv /\ RefusedInv

\* How long a header is.
LEMMA HeaderLength ==
  ASSUME NEW h \in HeaderPair
  PROVE  /\ h[1] \in Seq(Byte) /\ h[2] \in Seq(Byte)
         /\ Len(h[1]) \in Nat /\ Len(h[2]) \in Nat
         /\ EncodeHeader(h[1], h[2]) \in Seq(Byte)
         /\ Len(EncodeHeader(h[1], h[2])) \in Nat
         /\ Len(EncodeHeader(h[1], h[2])) = Len(h[1]) + Len(h[2]) + 4
<1> DEFINE n == h[1]
           v == h[2]
           e == EncodeHeader(n, v)
<1>1. n \in Seq(Byte) /\ v \in Seq(Byte)
  BY DEF HeaderPair
<1> HIDE DEF n, v
<1>2. e \in Seq(Byte) /\ Len(e) = Len(n) + Len(v) + 4
  BY <1>1, HeaderBytes
<1>3. Len(n) \in Nat /\ Len(v) \in Nat
  BY <1>1
<1> HIDE DEF e
<1>4. Len(e) \in Nat
  BY <1>2, <1>3
<1> QED BY <1>1, <1>2, <1>3, <1>4 DEF e, n, v

\* The bytes of the block that a header is made of.
LEMMA HeaderSaid ==
  ASSUME b \in Seq(Byte), NEW p \in Nat, NEW h \in HeaderPair, Fits(h), HeaderAt(p, h)
  PROVE  LET n == Len(h[1])
         IN  /\ At(p) = n /\ \A j \in 1..n : b[(p + 1) + j] = h[1][j]
             /\ At(p + n + 1) = StringType
             /\ LengthAt(p + n + 2) = Len(h[2])
             /\ \A j \in 1..Len(h[2]) : b[(p + n + 4) + j] = h[2][j]
<1> DEFINE n == Len(h[1])
           m == Len(h[2])
           e == EncodeHeader(h[1], h[2])
<1>1. h[1] \in Seq(Byte) /\ h[2] \in Seq(Byte) /\ n \in Nat /\ m \in Nat
  BY DEF HeaderPair
<1>2. /\ e[1] = n % Base /\ \A j \in 1..n : e[j + 1] = h[1][j]
      /\ e[n + 2] = StringType /\ e[n + 3] = (m \div Base) % Base /\ e[n + 4] = m % Base
      /\ \A j \in 1..m : e[j + (n + 4)] = h[2][j]
  BY ZenonT(30), <1>1, HeaderBytes
<1>3. n % Base = n /\ ((m \div Base) % Base) * Base + (m % Base) = m
  BY <1>1, HighAndLow DEF Fits
<1>4. Len(b) \in Nat /\ p + n + m + 4 <= Len(b) /\ \A j \in 1..(n + m + 4) : e[j] = b[p + j]
  <2>1. Len(b) \in Nat
    OBVIOUS
  <2> QED BY <2>1 DEF HeaderAt
<1> HIDE DEF n, m, e
<1>5. /\ \A j \in 1..(n + m + 4) : At(p + j - 1) = e[j]
  <2>1. ASSUME NEW j \in 1..(n + m + 4)
        PROVE  p + j - 1 < Len(b) /\ (p + j - 1) + 1 = p + j
    BY <1>1, <1>4
  <2> QED BY <1>4, <2>1 DEF At
<1>6. /\ 1 \in 1..(n + m + 4) /\ p + 1 - 1 = p
      /\ n + 2 \in 1..(n + m + 4) /\ p + (n + 2) - 1 = p + n + 1
      /\ n + 3 \in 1..(n + m + 4) /\ p + (n + 3) - 1 = p + n + 2
      /\ n + 4 \in 1..(n + m + 4) /\ p + (n + 4) - 1 = (p + n + 2) + 1
  BY <1>1
<1>7. At(p) = n /\ At(p + n + 1) = StringType
  BY <1>2, <1>3, <1>5, <1>6
<1>8. LengthAt(p + n + 2) = m
  <2>1. At(p + n + 2) = (m \div Base) % Base /\ At((p + n + 2) + 1) = m % Base
    BY <1>2, <1>5, <1>6
  <2> QED BY <1>3, <2>1 DEF LengthAt
<1>9. ASSUME NEW j \in 1..n PROVE b[(p + 1) + j] = h[1][j]
  <2>1. j + 1 \in 1..(n + m + 4) /\ p + (j + 1) = (p + 1) + j
    BY <1>1
  <2> QED BY <1>2, <1>4, <2>1
<1>10. ASSUME NEW j \in 1..m PROVE b[(p + n + 4) + j] = h[2][j]
  <2>1. j + (n + 4) \in 1..(n + m + 4) /\ p + (j + (n + 4)) = (p + n + 4) + j
    BY <1>1
  <2> QED BY <1>2, <1>4, <2>1
<1> QED BY <1>7, <1>8, <1>9, <1>10 DEF n, m

\* From the second byte of a header to the first of its name.
LEMMA Shift ==
  ASSUME NEW n \in Nat, NEW p \in Nat, NEW j \in 2..(n + 1)
  PROVE  j - 1 \in 1..n /\ (j - 1) + 1 = j /\ (p + 1) + (j - 1) = p + j
OBVIOUS

\* The bytes of the block that make a header.
LEMMA SaidIsHeader ==
  ASSUME b \in Seq(Byte), NEW p \in Nat, NEW h \in HeaderPair,
         p + Len(h[1]) + Len(h[2]) + 4 <= Len(b),
         At(p) = Len(h[1]), \A j \in 1..Len(h[1]) : b[(p + 1) + j] = h[1][j],
         At(p + Len(h[1]) + 1) = StringType,
         LengthAt(p + Len(h[1]) + 2) = Len(h[2]),
         \A j \in 1..Len(h[2]) : b[(p + Len(h[1]) + 4) + j] = h[2][j]
  PROVE  HeaderAt(p, h)
<1> DEFINE n == Len(h[1])
           m == Len(h[2])
           e == EncodeHeader(h[1], h[2])
           hi == At(p + n + 2)
           lo == At((p + n + 2) + 1)
<1>1. h[1] \in Seq(Byte) /\ h[2] \in Seq(Byte) /\ n \in Nat /\ m \in Nat
  BY DEF HeaderPair
<1>2. /\ e[1] = n % Base /\ \A j \in 1..n : e[j + 1] = h[1][j]
      /\ e[n + 2] = StringType /\ e[n + 3] = (m \div Base) % Base /\ e[n + 4] = m % Base
      /\ \A j \in 1..m : e[j + (n + 4)] = h[2][j]
  BY ZenonT(30), <1>1, HeaderBytes
<1>3. Base \in Nat \ {0} /\ hi \in Byte /\ lo \in Byte /\ m = hi * Base + lo /\ n \in Byte
  <2>1. p + n + 2 \in Nat /\ (p + n + 2) + 1 \in Nat
    BY <1>1
  <2> HIDE DEF n
  <2>2. hi \in Byte /\ lo \in Byte /\ At(p) \in Byte
    BY <2>1, BytesAreNat
  <2>3. LengthAt(p + n + 2) = hi * Base + lo
    BY DEF LengthAt
  <2>4. m = hi * Base + lo /\ At(p) = n
    BY <2>3 DEF n
  <2> QED BY <2>2, <2>4, CodecAssumption
<1> HIDE DEF hi, lo
<1>4. n % Base = n /\ (m \div Base) % Base = hi /\ m % Base = lo
  <2>1. n < Base /\ hi \in Nat /\ lo \in Nat /\ hi < Base /\ lo < Base
    BY <1>3 DEF Byte
  <2>2. n % Base = n
    BY <1>1, <2>1, HighAndLow
  <2>3. m \div Base = hi /\ m % Base = lo
    BY <1>1, <1>3, <2>1, DivisionUnique
  <2>4. hi % Base = hi
    BY <2>1, HighAndLow
  <2> QED BY <2>2, <2>3, <2>4
<1>5. Len(b) \in Nat /\ p + n + m + 4 <= Len(b)
  <2>1. Len(b) \in Nat
    OBVIOUS
  <2> QED BY <2>1
<1>6. /\ At(p) = n /\ \A j \in 1..n : b[(p + 1) + j] = h[1][j]
      /\ At(p + n + 1) = StringType
      /\ At(p + n + 2) = hi /\ At((p + n + 2) + 1) = lo
      /\ \A j \in 1..m : b[(p + n + 4) + j] = h[2][j]
  BY DEF hi, lo
<1> HIDE DEF n, m, e
<1>7. /\ b[p + 1] = n /\ b[p + (n + 2)] = StringType
      /\ b[p + (n + 3)] = hi /\ b[p + (n + 4)] = lo
  <2>1. /\ p < Len(b) /\ p + n + 1 < Len(b) /\ p + n + 2 < Len(b) /\ (p + n + 2) + 1 < Len(b)
        /\ (p + n + 1) + 1 = p + (n + 2) /\ (p + n + 2) + 1 = p + (n + 3)
        /\ ((p + n + 2) + 1) + 1 = p + (n + 4)
    BY <1>1, <1>5
  <2> QED BY <1>6, <2>1 DEF At
<1>8. ASSUME NEW j \in 1..(n + m + 4) PROVE e[j] = b[p + j]
  <2>1. CASE j \in {1, n + 2, n + 3, n + 4}
    BY <1>2, <1>4, <1>7, <2>1
  <2>2. CASE j \in 2..(n + 1)
    <3>1. j - 1 \in 1..n /\ (j - 1) + 1 = j /\ (p + 1) + (j - 1) = p + j
      BY <1>1, <2>2, Shift
    <3> QED BY <1>2, <1>6, <3>1
  <2>3. CASE j \in (n + 5)..(n + m + 4)
    <3>1. /\ j - (n + 4) \in 1..m /\ (j - (n + 4)) + (n + 4) = j
          /\ (p + n + 4) + (j - (n + 4)) = p + j
      BY <1>1, <2>3
    <3> QED BY <1>2, <1>6, <3>1
  <2>4. j = 1 \/ j \in 2..(n + 1) \/ j \in {n + 2, n + 3, n + 4} \/ j \in (n + 5)..(n + m + 4)
    BY <1>1
  <2> QED BY <2>1, <2>2, <2>3, <2>4
<1> QED BY <1>5, <1>8 DEF n, m, e, HeaderAt

\* What the invariants say in numbers.
LEMMA Numbers ==
  ASSUME IInv, ReadInv
  PROVE  /\ b \in Seq(Byte) /\ Len(b) \in Nat /\ i \in Nat /\ need \in Nat
         /\ name \in Seq(Byte) /\ Len(name) \in Nat
         /\ read \in Seq(HeaderPair) /\ start \in Nat /\ start <= i /\ i <= Len(b)
<1>1. b \in Seq(Byte) /\ i \in Nat /\ need \in 0..(Base * Base - 1) /\ name \in Seq(Byte)
  BY DEF IInv, DecodeTypeOK
<1>2. need \in Nat
  BY <1>1, CodecAssumption
<1>3. read \in Seq(HeaderPair) /\ start <= i /\ i <= Len(b)
  BY DEF ReadInv
<1>4. Written(read) \in Seq(Byte)
  BY <1>3, WrittenGrows
<1>5. Len(b) \in Nat /\ Len(name) \in Nat /\ start \in Nat
  BY <1>1, <1>4 DEF start
<1> QED BY <1>1, <1>2, <1>3, <1>5

\* A step that reads no whole header leaves the headers read as they were.
LEMMA SameHeaders ==
  ASSUME ReadInv, UNCHANGED <<b, out, read>>, start <= i', i' <= Len(b)
  PROVE  ReadInv' /\ start' = start
BY DEF ReadInv, start

\* An error, where no header is.
LEMMA RefusesNoHeader ==
  ASSUME IInv, BlockInv, Refuse, NoHeaderAt(start)
  PROVE  BlockInv'
<1>1. UNCHANGED <<b, out, read>> /\ i' = i /\ field' = "refused"
  BY DEF Refuse, block
<1>2. ReadInv' /\ start' = start
  BY <1>1, SameHeaders DEF BlockInv, ReadInv
<1>3. NoHeaderAt(start)'
  BY <1>1, <1>2 DEF NoHeaderAt, HeaderAt
<1>4. FieldInv'
  BY <1>1 DEF FieldInv
<1> QED BY <1>2, <1>3, <1>4 DEF BlockInv, RefusedInv

\* A header that ends inside a block leaves room for each of its fields.
LEMMA FieldsEnd ==
  ASSUME NEW p \in Nat, NEW n \in Nat, NEW m \in Nat, NEW l \in Nat, p + n + m + 4 <= l
  PROVE  /\ (p + 1) + n <= l /\ (p + n + 1) + 1 <= l
         /\ (p + n + 2) + 2 <= l /\ (p + n + 4) + m <= l
OBVIOUS

\* A header in the block, compared with the fields that have been read.
LEMMA HeaderThere ==
  ASSUME IInv, BlockInv, NEW h \in HeaderPair, Fits(h), HeaderAt(start, h)
  PROVE  /\ Len(h[1]) \in Nat /\ Len(h[2]) \in Nat
         /\ At(start) = Len(h[1]) /\ At(start + Len(h[1]) + 1) = StringType
         /\ LengthAt(start + Len(h[1]) + 2) = Len(h[2])
         /\ start + Len(h[1]) + Len(h[2]) + 4 <= Len(b)
<1>1. b \in Seq(Byte) /\ start \in Nat
  BY Numbers DEF BlockInv
<1>2. h[1] \in Seq(Byte) /\ h[2] \in Seq(Byte)
  BY DEF HeaderPair
<1>3. Len(h[1]) \in Nat /\ Len(h[2]) \in Nat
  BY <1>2
<1>4. start + Len(h[1]) + Len(h[2]) + 4 <= Len(b)
  BY DEF HeaderAt
<1> QED BY <1>1, <1>3, <1>4, HeaderSaid

\* Before the first header is read nothing has been made of the block.
LEMMA BlockInit == DecodeInit => BlockInv
<1> SUFFICES ASSUME DecodeInit PROVE BlockInv
  OBVIOUS
<1>1. i = 0 /\ field = "length" /\ out = NoHeaders /\ read = <<>>
  BY DEF DecodeInit
<1>2. read \in Seq(HeaderPair) /\ Written(read) = <<>> /\ out = Meaning(read)
  BY <1>1, WrittenGrows, MeaningGrows
<1>3. start = 0 /\ Len(b) \in Nat
  <2>1. b \in Seq(Byte)
    BY InitInvariant DEF IInv, DecodeTypeOK
  <2> QED BY <1>2, <2>1 DEF start
<1>4. ReadInv
  BY <1>1, <1>2, <1>3 DEF ReadInv
<1>5. FieldInv /\ RefusedInv
  BY <1>1, <1>3 DEF FieldInv, RefusedInv
<1> QED BY <1>4, <1>5 DEF BlockInv

\* The loop ends where the block ends.
LEMMA FinishBlock == IInv /\ BlockInv /\ Finish => BlockInv'
<1> SUFFICES ASSUME IInv, BlockInv, Finish PROVE BlockInv'
  OBVIOUS
<1>1. /\ field = "length" /\ ~(i < Len(b)) /\ UNCHANGED <<b, out, read>> /\ i' = i
      /\ field' = "done"
  BY DEF Finish, MoreToRead, block
<1>2. i \in Nat /\ Len(b) \in Nat /\ start <= i /\ i <= Len(b)
  BY Numbers DEF BlockInv
<1>3. ReadInv' /\ start' = start
  BY <1>1, <1>2, SameHeaders DEF BlockInv
<1>4. i = start /\ i = Len(b)
  BY <1>1, <1>2 DEF BlockInv, FieldInv
<1> QED BY <1>1, <1>3, <1>4 DEF BlockInv, FieldInv, RefusedInv

\* The length of a name.
LEMMA NameLengthBlock == IInv /\ BlockInv /\ NameLength => BlockInv'
<1> SUFFICES ASSUME IInv, BlockInv, NameLength PROVE BlockInv'
  OBVIOUS
<1>1. /\ field = "length" /\ i < Len(b) /\ UNCHANGED <<b, out, read>>
      /\ need' = At(i) /\ i' = i + 1 /\ field' = "name"
  BY DEF NameLength, MoreToRead, block
<1>2. i \in Nat /\ Len(b) \in Nat /\ i = start
  BY <1>1, Numbers DEF BlockInv, FieldInv
<1>3. ReadInv' /\ start' = start
  BY <1>1, <1>2, SameHeaders DEF BlockInv
<1>4. At(start)' = At(start)
  BY <1>1, <1>3 DEF At
<1> QED BY <1>1, <1>2, <1>3, <1>4 DEF BlockInv, FieldInv, RefusedInv

\* The name, or no room for it.
LEMMA NameBlock == IInv /\ BlockInv /\ Name => BlockInv'
<1> SUFFICES ASSUME IInv, BlockInv, Name PROVE BlockInv'
  OBVIOUS
<1>1. i \in Nat /\ Len(b) \in Nat /\ need \in Nat /\ start \in Nat
  BY Numbers DEF BlockInv
<1>2. field = "name" /\ i = start + 1 /\ need = At(start)
  BY DEF Name, BlockInv, FieldInv
<1>3. CASE Room(need) /\ name' = Slice(need) /\ i' = i + need /\ field' = "type"
           /\ UNCHANGED <<block, need, out, read>>
  <2>1. i + need <= Len(b) /\ UNCHANGED <<b, out, read>>
    BY <1>3 DEF Room, block
  <2>2. ReadInv' /\ start' = start
    BY <1>1, <1>2, <1>3, <2>1, SameHeaders DEF BlockInv
  <2>3. name' \in Seq(Byte) /\ Len(name') = need
    <3>1. Slice(need) \in Seq(Byte)
      BY <1>1, SliceType, Numbers DEF BlockInv
    <3>2. Len(Slice(need)) = need
      BY <1>1 DEF Slice
    <3> QED BY <1>3, <3>1, <3>2
  <2>4. ASSUME NEW j \in 1..need PROVE b[(start + 1) + j] = name'[j]
    <3>1. /\ i + j - 1 < Len(b) /\ (i + j - 1) + 1 = (start + 1) + j
      BY <1>1, <1>2, <2>1
    <3>2. name'[j] = At(i + j - 1)
      BY <1>3 DEF Slice
    <3> QED BY <3>1, <3>2 DEF At
  <2>5. At(start)' = At(start)
    BY <2>1, <2>2 DEF At
  <2>6. i' = start + need + 1
    BY <1>1, <1>2, <1>3
  <2>7. FieldInv'
    BY <1>2, <1>3, <2>1, <2>2, <2>3, <2>4, <2>5, <2>6 DEF FieldInv
  <2> QED BY <1>3, <2>2, <2>7 DEF BlockInv, RefusedInv
<1>4. CASE ~Room(need) /\ Refuse
  <2>1. ASSUME NEW h \in HeaderPair, Fits(h), HeaderAt(start, h) PROVE FALSE
    <3>1. /\ Len(h[1]) \in Nat /\ Len(h[2]) \in Nat /\ At(start) = Len(h[1])
          /\ start + Len(h[1]) + Len(h[2]) + 4 <= Len(b)
      BY <2>1, HeaderThere
    <3>2. (start + 1) + Len(h[1]) <= Len(b)
      BY <1>1, <3>1, FieldsEnd
    <3>3. i + need <= Len(b)
      BY <1>2, <3>1, <3>2
    <3> QED BY <1>4, <3>3 DEF Room
  <2> QED BY <1>4, <2>1, RefusesNoHeader DEF NoHeaderAt
<1> QED BY <1>3, <1>4 DEF Name

\* The type, or one that is not string.
LEMMA HeaderTypeBlock == IInv /\ BlockInv /\ HeaderType => BlockInv'
<1> SUFFICES ASSUME IInv, BlockInv, HeaderType PROVE BlockInv'
  OBVIOUS
<1>1. i \in Nat /\ Len(b) \in Nat /\ start \in Nat /\ Len(name) \in Nat
  BY Numbers DEF BlockInv
<1>2. /\ field = "type" /\ i = start + Len(name) + 1 /\ At(start) = Len(name)
      /\ \A j \in 1..Len(name) : b[(start + 1) + j] = name[j]
  BY DEF HeaderType, BlockInv, FieldInv
<1>3. CASE Room(1) /\ At(i) = StringType /\ i' = i + 1 /\ field' = "valueLength"
           /\ UNCHANGED <<block, name, need, out, read>>
  <2>1. i + 1 <= Len(b) /\ UNCHANGED <<b, name, out, read>>
    BY <1>3 DEF Room, block
  <2>2. ReadInv' /\ start' = start
    <3>1. start <= i' /\ i' <= Len(b)
      BY <1>1, <1>2, <1>3, <2>1
    <3> QED BY <2>1, <3>1, SameHeaders DEF BlockInv
  <2>3. At(start)' = At(start) /\ At(start + Len(name) + 1)' = At(start + Len(name) + 1)
    BY <2>1, <2>2 DEF At
  <2>4. i' = start + Len(name) + 2
    BY <1>1, <1>2, <1>3
  <2>5. FieldInv'
    BY <1>2, <1>3, <2>1, <2>2, <2>3, <2>4 DEF FieldInv
  <2> QED BY <1>3, <2>2, <2>5 DEF BlockInv, RefusedInv
<1>4. CASE ~(Room(1) /\ At(i) = StringType) /\ Refuse
  <2>1. ASSUME NEW h \in HeaderPair, Fits(h), HeaderAt(start, h) PROVE FALSE
    <3>1. /\ Len(h[1]) \in Nat /\ Len(h[2]) \in Nat /\ At(start) = Len(h[1])
          /\ At(start + Len(h[1]) + 1) = StringType
          /\ start + Len(h[1]) + Len(h[2]) + 4 <= Len(b)
      BY <2>1, HeaderThere
    <3>2. Room(1)
      <4>1. (start + Len(h[1]) + 1) + 1 <= Len(b)
        BY <1>1, <3>1, FieldsEnd
      <4> QED BY <1>2, <3>1, <4>1 DEF Room
    <3>3. At(i) = StringType
      BY <1>2, <3>1
    <3> QED BY <1>4, <3>2, <3>3
  <2> QED BY <1>4, <2>1, RefusesNoHeader DEF NoHeaderAt
<1> QED BY <1>3, <1>4 DEF HeaderType

\* The length of a value, or no room for it.
LEMMA ValueLengthBlock == IInv /\ BlockInv /\ ValueLength => BlockInv'
<1> SUFFICES ASSUME IInv, BlockInv, ValueLength PROVE BlockInv'
  OBVIOUS
<1>1. i \in Nat /\ Len(b) \in Nat /\ start \in Nat /\ Len(name) \in Nat
  BY Numbers DEF BlockInv
<1>2. /\ field = "valueLength" /\ i = start + Len(name) + 2 /\ At(start) = Len(name)
      /\ \A j \in 1..Len(name) : b[(start + 1) + j] = name[j]
      /\ At(start + Len(name) + 1) = StringType
  BY DEF ValueLength, BlockInv, FieldInv
<1>3. CASE Room(2) /\ need' = LengthAt(i) /\ i' = i + 2 /\ field' = "value"
           /\ UNCHANGED <<block, name, out, read>>
  <2>1. i + 2 <= Len(b) /\ UNCHANGED <<b, name, out, read>>
    BY <1>3 DEF Room, block
  <2>2. ReadInv' /\ start' = start
    <3>1. start <= i' /\ i' <= Len(b)
      BY <1>1, <1>2, <1>3, <2>1
    <3> QED BY <2>1, <3>1, SameHeaders DEF BlockInv
  <2>3. /\ At(start)' = At(start) /\ At(start + Len(name) + 1)' = At(start + Len(name) + 1)
        /\ LengthAt(start + Len(name) + 2)' = LengthAt(start + Len(name) + 2)
    BY <2>1, <2>2 DEF At, LengthAt
  <2>4. i' = start + Len(name) + 4 /\ need' = LengthAt(start + Len(name) + 2)
    BY <1>1, <1>2, <1>3
  <2>5. FieldInv'
    BY <1>2, <1>3, <2>1, <2>2, <2>3, <2>4 DEF FieldInv
  <2> QED BY <1>3, <2>2, <2>5 DEF BlockInv, RefusedInv
<1>4. CASE ~Room(2) /\ Refuse
  <2>1. ASSUME NEW h \in HeaderPair, Fits(h), HeaderAt(start, h) PROVE FALSE
    <3>1. /\ Len(h[1]) \in Nat /\ Len(h[2]) \in Nat /\ At(start) = Len(h[1])
          /\ start + Len(h[1]) + Len(h[2]) + 4 <= Len(b)
      BY <2>1, HeaderThere
    <3>2. (start + Len(h[1]) + 2) + 2 <= Len(b)
      BY <1>1, <3>1, FieldsEnd
    <3>3. i + 2 <= Len(b)
      BY <1>2, <3>1, <3>2
    <3> QED BY <1>4, <3>3 DEF Room
  <2> QED BY <1>4, <2>1, RefusesNoHeader DEF NoHeaderAt
<1> QED BY <1>3, <1>4 DEF ValueLength

\* The value that Value takes completes the header that is at start.
LEMMA ValueCompletes ==
  ASSUME IInv, BlockInv, field = "value", Room(need)
  PROVE  /\ <<name, Slice(need)>> \in HeaderPair /\ Len(Slice(need)) = need
         /\ HeaderAt(start, <<name, Slice(need)>>)
         /\ \A j \in 1..need : b[(start + Len(name) + 4) + j] = Slice(need)[j]
<1> DEFINE h == <<name, Slice(need)>>
<1>1. /\ i \in Nat /\ Len(b) \in Nat /\ start \in Nat /\ Len(name) \in Nat /\ need \in Nat
      /\ b \in Seq(Byte) /\ name \in Seq(Byte)
  BY Numbers DEF BlockInv
<1>2. /\ i = start + Len(name) + 4 /\ At(start) = Len(name)
      /\ \A j \in 1..Len(name) : b[(start + 1) + j] = name[j]
      /\ At(start + Len(name) + 1) = StringType
      /\ need = LengthAt(start + Len(name) + 2)
  BY DEF BlockInv, FieldInv
<1>3. Slice(need) \in Seq(Byte)
  BY <1>1, SliceType
<1>4. Len(Slice(need)) = need
  BY <1>1 DEF Slice
<1>5. i + need <= Len(b)
  BY DEF Room
<1>6. ASSUME NEW j \in 1..need PROVE b[(start + Len(name) + 4) + j] = Slice(need)[j]
  <2>1. i + j - 1 < Len(b) /\ (i + j - 1) + 1 = (start + Len(name) + 4) + j
    BY <1>1, <1>2, <1>5
  <2>2. Slice(need)[j] = At(i + j - 1)
    BY DEF Slice
  <2> QED BY <2>1, <2>2 DEF At
<1>7. h \in HeaderPair /\ h[1] = name /\ h[2] = Slice(need)
  BY <1>1, <1>3 DEF HeaderPair
<1> HIDE DEF h
<1>8. start + Len(h[1]) + Len(h[2]) + 4 <= Len(b)
  BY <1>1, <1>2, <1>4, <1>5, <1>7
<1>9. HeaderAt(start, h)
  <2> DEFINE p == start
  <2>1. /\ At(p) = Len(h[1]) /\ \A j \in 1..Len(h[1]) : b[(p + 1) + j] = h[1][j]
        /\ At(p + Len(h[1]) + 1) = StringType
        /\ LengthAt(p + Len(h[1]) + 2) = Len(h[2])
    BY <1>2, <1>4, <1>7
  <2>2. \A j \in 1..Len(h[2]) : b[(p + Len(h[1]) + 4) + j] = h[2][j]
    BY <1>4, <1>6, <1>7
  <2>3. p \in Nat /\ h \in HeaderPair /\ b \in Seq(Byte) /\ p + Len(h[1]) + Len(h[2]) + 4 <= Len(b)
    BY <1>1, <1>7, <1>8
  <2> HIDE DEF p
  <2>4. HeaderAt(p, h)
    BY <2>1, <2>2, <2>3, SaidIsHeader
  <2> QED BY <2>4 DEF p
<1> QED BY <1>4, <1>6, <1>7, <1>9 DEF h

\* The value, which completes a header, or no room for it.
LEMMA ValueBlock == IInv /\ BlockInv /\ Value => BlockInv'
<1> SUFFICES ASSUME IInv, BlockInv, Value PROVE BlockInv'
  OBVIOUS
<1>1. /\ i \in Nat /\ Len(b) \in Nat /\ start \in Nat /\ Len(name) \in Nat /\ need \in Nat
      /\ b \in Seq(Byte) /\ name \in Seq(Byte) /\ read \in Seq(HeaderPair)
  BY Numbers DEF BlockInv
<1>2. /\ field = "value" /\ i = start + Len(name) + 4
      /\ At(start) = Len(name) /\ need = LengthAt(start + Len(name) + 2)
  BY DEF Value, BlockInv, FieldInv
<1>3. CASE /\ Room(need)
           /\ out' = [n \in DOMAIN out \cup {name} |-> IF n = name THEN Slice(need) ELSE out[n]]
           /\ read' = Append(read, <<name, Slice(need)>>)
           /\ i' = i + need /\ field' = "length" /\ UNCHANGED <<block, name, need>>
  <2> DEFINE h == <<name, Slice(need)>>
             e == EncodeHeader(h[1], h[2])
  <2>1. h \in HeaderPair /\ Len(h[2]) = need /\ HeaderAt(start, h)
    BY <1>2, <1>3, ValueCompletes
  <2>2. i + need <= Len(b) /\ b' = b
    BY <1>3 DEF Room, block
  <2>3. /\ e \in Seq(Byte) /\ Len(e) \in Nat /\ Len(e) = Len(name) + need + 4
        /\ \A j \in 1..(Len(name) + need + 4) : e[j] = b[start + j]
    <3>1. h[1] = name
      OBVIOUS
    <3>2. /\ e \in Seq(Byte) /\ Len(e) \in Nat /\ Len(e) = Len(h[1]) + Len(h[2]) + 4
          /\ \A j \in 1..(Len(h[1]) + Len(h[2]) + 4) : e[j] = b[start + j]
      <4> HIDE DEF h
      <4> QED BY <2>1, HeaderLength DEF HeaderAt
    <3> HIDE DEF e, h
    <3> QED BY <2>1, <3>1, <3>2
  <2>4. Written(read) \in Seq(Byte) /\ Len(Written(read)) = start
    BY <1>1, WrittenGrows DEF start
  <2>5. read' \in Seq(HeaderPair) /\ Written(read') = Written(read) \o e
    BY <1>1, <1>3, <2>1, WrittenGrows, AppendProperties
  <2> HIDE DEF e, h
  <2>6. /\ Len(Written(read')) = start + (Len(name) + need + 4)
        /\ \A j \in 1..(start + (Len(name) + need + 4)) :
             Written(read')[j] = IF j <= start THEN Written(read)[j] ELSE e[j - start]
    BY <2>3, <2>4, <2>5, ConcatProperties
  <2>7. start' = i' /\ start' = start + (Len(name) + need + 4)
    <3>1. start' = start + (Len(name) + need + 4)
      BY <2>6 DEF start
    <3>2. i + need = start + (Len(name) + need + 4)
      BY <1>1, <1>2
    <3> QED BY <1>3, <3>1, <3>2
  <2>8. ASSUME NEW j \in 1..(start + (Len(name) + need + 4)) PROVE b[j] = Written(read')[j]
    <3>1. CASE j <= start
      <4>1. j \in 1..start
        BY <1>1, <3>1
      <4> QED BY <2>6, <3>1, <4>1 DEF BlockInv, ReadInv
    <3>2. CASE ~(j <= start)
      <4>1. j - start \in 1..(Len(name) + need + 4) /\ start + (j - start) = j
        BY <1>1, <3>2
      <4>2. e[j - start] = b[j]
        BY <2>3, <4>1
      <4> QED BY <2>6, <3>2, <4>2
    <3> QED BY <3>1, <3>2
  <2>9. out' = Meaning(read')
    <3>1. out = Meaning(read) /\ h[1] = name /\ h[2] = Slice(need) /\ read' = Append(read, h)
      BY <1>3 DEF h, BlockInv, ReadInv
    <3>2. Meaning(Append(read, h)) =
            [n \in DOMAIN Meaning(read) \cup {h[1]} |-> IF n = h[1] THEN h[2] ELSE Meaning(read)[n]]
      BY <1>1, <2>1, MeaningGrows
    <3> QED BY <1>3, <3>1, <3>2
  <2>10. i' \in Nat /\ i' <= Len(b)
    BY <1>1, <1>3, <2>2
  <2>11. ReadInv'
    <3>1. \A j \in 1..start' : b'[j] = Written(read')[j]
      BY <2>2, <2>7, <2>8
    <3>2. start' <= i' /\ i' <= Len(b')
      BY <2>2, <2>7, <2>10
    <3> QED BY <2>5, <2>9, <3>1, <3>2 DEF ReadInv
  <2>12. FieldInv' /\ RefusedInv'
    BY <1>3, <2>7 DEF FieldInv, RefusedInv
  <2> QED BY <2>11, <2>12 DEF BlockInv
<1>4. CASE ~Room(need) /\ Refuse
  <2>1. ASSUME NEW h \in HeaderPair, Fits(h), HeaderAt(start, h) PROVE FALSE
    <3>1. /\ Len(h[1]) \in Nat /\ Len(h[2]) \in Nat /\ At(start) = Len(h[1])
          /\ LengthAt(start + Len(h[1]) + 2) = Len(h[2])
          /\ start + Len(h[1]) + Len(h[2]) + 4 <= Len(b)
      BY <2>1, HeaderThere
    <3>2. need = Len(h[2]) /\ i = start + Len(h[1]) + 4
      BY <1>2, <3>1
    <3>3. (start + Len(h[1]) + 4) + Len(h[2]) <= Len(b)
      BY <1>1, <3>1, FieldsEnd
    <3>4. i + need <= Len(b)
      BY <3>2, <3>3
    <3> QED BY <1>4, <3>4 DEF Room
  <2> QED BY <1>4, <2>1, RefusesNoHeader DEF NoHeaderAt
<1> QED BY <1>3, <1>4 DEF Value

\* Every step keeps what is known of the block.
LEMMA BlockStep == IInv /\ BlockInv /\ [DecodeNext]_decodeVars => BlockInv'
<1> SUFFICES ASSUME IInv, BlockInv, [DecodeNext]_decodeVars PROVE BlockInv'
  OBVIOUS
<1>1. CASE UNCHANGED decodeVars
  <2>1. UNCHANGED <<b, i, field, name, need, out, read>>
    BY <1>1 DEF decodeVars, block
  <2>2. ReadInv' /\ start' = start
    BY <2>1, SameHeaders DEF BlockInv, ReadInv
  <2>3. FieldInv'
    BY <2>1, <2>2 DEF BlockInv, FieldInv, At, LengthAt
  <2>4. RefusedInv'
    BY <2>1, <2>2 DEF BlockInv, RefusedInv, NoHeaderAt, HeaderAt
  <2> QED BY <2>2, <2>3, <2>4 DEF BlockInv
<1> QED BY <1>1, FinishBlock, NameLengthBlock, NameBlock, HeaderTypeBlock,
           ValueLengthBlock, ValueBlock DEF DecodeNext

-----------------------------------------------------------------------------
(* The round trip. *)

\* The sequence e is at offset p of the sequence s.
Within(s, p, e) == p + Len(e) <= Len(s) /\ \A j \in 1..Len(e) : s[p + j] = e[j]

\* Each header of a list stands behind the ones before it, and nothing behind the
\* last one.
LEMMA HeadersInPlace ==
  \A hs \in Seq(HeaderPair), k \in Nat : k < Len(hs) =>
    Within(Written(hs), Len(Written(SubSeq(hs, 1, k))), EncodeHeader(hs[k + 1][1], hs[k + 1][2]))
<1> DEFINE E(h) == EncodeHeader(h[1], h[2])
           Placed(hs) == \A k \in Nat : k < Len(hs) =>
             Within(Written(hs), Len(Written(SubSeq(hs, 1, k))), E(hs[k + 1]))
           S == {n \in Nat : \A hs \in Seq(HeaderPair) : Len(hs) = n => Placed(hs)}
<1>1. 0 \in S
  OBVIOUS
<1>2. ASSUME NEW n \in Nat, n \in S PROVE n + 1 \in S
  <2> SUFFICES ASSUME NEW hs \in Seq(HeaderPair), Len(hs) = n + 1,
                      NEW k \in Nat, k < n + 1
               PROVE  Within(Written(hs), Len(Written(SubSeq(hs, 1, k))), E(hs[k + 1]))
    OBVIOUS
  <2>1. hs # <<>>
    OBVIOUS
  <2>2. PICK gs \in Seq(HeaderPair), h \in HeaderPair : hs = Append(gs, h)
    BY <2>1, SequenceEmptyOrAppend
  <2>3. Len(gs) = n /\ hs[n + 1] = h /\ \A j \in 1..n : hs[j] = gs[j]
    BY <2>2
  <2>4. Written(gs) \in Seq(Byte) /\ E(h) \in Seq(Byte) /\ Written(hs) = Written(gs) \o E(h)
    <3>1. h[1] \in Seq(Byte) /\ h[2] \in Seq(Byte)
      BY DEF HeaderPair
    <3> QED BY <2>2, <3>1, WrittenGrows, HeaderBytes
  <2> DEFINE w == Written(gs)
             ww == Written(hs)
             e == E(h)
  <2>5. /\ Len(w) \in Nat /\ Len(e) \in Nat /\ Len(ww) = Len(w) + Len(e)
        /\ \A j \in 1..(Len(w) + Len(e)) : ww[j] = IF j <= Len(w) THEN w[j] ELSE e[j - Len(w)]
    <3> HIDE DEF w, e
    <3> QED BY <2>4, ConcatProperties DEF w, e
  <2>6. CASE k = n
    <3>1. SubSeq(hs, 1, n) = gs
      <4>1. \A j \in 1..n : hs[j] \in HeaderPair
        BY <2>3
      <4>2. /\ SubSeq(hs, 1, n) \in Seq(HeaderPair) /\ Len(SubSeq(hs, 1, n)) = n
            /\ \A j \in 1..n : SubSeq(hs, 1, n)[j] = hs[j]
        BY <4>1
      <4> QED BY <2>3, <4>2, SeqEqual
    <3>2. E(hs[k + 1]) = e
      BY <2>3, <2>6
    <3> HIDE DEF w, ww, e, E
    <3>3. ASSUME NEW j \in 1..Len(e) PROVE ww[Len(w) + j] = e[j]
      <4>1. /\ Len(w) + j \in 1..(Len(w) + Len(e)) /\ ~(Len(w) + j <= Len(w))
            /\ (Len(w) + j) - Len(w) = j
        BY <2>5
      <4> QED BY <2>5, <4>1
    <3>4. Within(ww, Len(w), e)
      BY <2>5, <3>3 DEF Within
    <3> QED BY <2>6, <3>1, <3>2, <3>4 DEF w, ww
  <2>7. CASE k < n
    <3>1. SubSeq(hs, 1, k) = SubSeq(gs, 1, k)
      <4>1. \A j \in 1..k : hs[j] \in HeaderPair /\ gs[j] \in HeaderPair /\ gs[j] = hs[j]
        <5>1. \A j \in 1..k : j \in 1..n
          BY <2>7
        <5> QED BY <2>3, <5>1
      <4>2. /\ SubSeq(hs, 1, k) \in Seq(HeaderPair) /\ Len(SubSeq(hs, 1, k)) = k
            /\ \A j \in 1..k : SubSeq(hs, 1, k)[j] = hs[j]
        BY <4>1
      <4>3. /\ SubSeq(gs, 1, k) \in Seq(HeaderPair) /\ Len(SubSeq(gs, 1, k)) = k
            /\ \A j \in 1..k : SubSeq(gs, 1, k)[j] = gs[j]
        BY <4>1
      <4> QED BY <4>1, <4>2, <4>3, SeqEqual
    <3>2. hs[k + 1] = gs[k + 1] /\ gs[k + 1] \in HeaderPair
      BY <2>3, <2>7
    <3>3. Within(w, Len(Written(SubSeq(gs, 1, k))), E(gs[k + 1]))
      BY <1>2, <2>3, <2>7
    <3> DEFINE p == Len(Written(SubSeq(gs, 1, k)))
               x == E(gs[k + 1])
    <3>4. p \in Nat /\ Len(x) \in Nat
      <4>1. SubSeq(gs, 1, k) \in Seq(HeaderPair)
        BY <2>3, <2>7
      <4>2. Written(SubSeq(gs, 1, k)) \in Seq(Byte)
        BY <4>1, WrittenGrows
      <4>3. gs[k + 1][1] \in Seq(Byte) /\ gs[k + 1][2] \in Seq(Byte)
        BY <3>2 DEF HeaderPair
      <4>4. x \in Seq(Byte)
        BY <4>3, HeaderBytes
      <4> QED BY <4>2, <4>4
    <3> HIDE DEF w, ww, e, E, p, x
    <3>5. p + Len(x) <= Len(w) /\ \A j \in 1..Len(x) : w[p + j] = x[j]
      BY <3>3 DEF Within, p, x
    <3>6. ASSUME NEW j \in 1..Len(x) PROVE ww[p + j] = x[j]
      <4>1. p + j \in 1..(Len(w) + Len(e)) /\ p + j <= Len(w)
        BY <2>5, <3>4, <3>5
      <4> QED BY <2>5, <3>5, <4>1
    <3>7. p + Len(x) <= Len(ww)
      BY <2>5, <3>4, <3>5
    <3>8. Within(ww, p, x)
      BY <3>6, <3>7 DEF Within
    <3> QED BY <3>1, <3>2, <3>8 DEF ww, p, x
  <2> QED BY <2>6, <2>7
<1> HIDE DEF S
<1>3. Nat \subseteq S
  BY <1>1, <1>2, Induction
<1>4. \A hs \in Seq(HeaderPair) : Len(hs) \in Nat
  OBVIOUS
<1> QED BY <1>3, <1>4 DEF S

\* The block came from a map.
Encoded == written # NoHeaders

\* The lengths of its names and values fit their fields.
AllFit == \A n \in DOMAIN written : Len(n) < Base /\ Len(written[n]) < Base * Base

\* Where the block came from.
OriginInv == Encoded => written \in HeaderMaps /\ b = Encode(written)

\* The headers of the map are read one after the other, and none is refused.
TripInv ==
  Encoded /\ AllFit =>
    /\ read = SubSeq(HeadersOf(written), 1, Len(read))
    /\ Len(read) <= Len(HeadersOf(written))
    /\ field # "refused"

\* Two headers at one place are one header.
LEMMA OneHeader ==
  ASSUME b \in Seq(Byte), NEW p \in Nat, NEW g \in HeaderPair, NEW h \in HeaderPair,
         Fits(g), Fits(h), HeaderAt(p, g), HeaderAt(p, h)
  PROVE  g = h
<1>1. /\ g[1] \in Seq(Byte) /\ g[2] \in Seq(Byte) /\ g = <<g[1], g[2]>>
      /\ h[1] \in Seq(Byte) /\ h[2] \in Seq(Byte) /\ h = <<h[1], h[2]>>
  BY DEF HeaderPair
<1>2. Len(g[1]) = Len(h[1])
  BY HeaderSaid
<1> DEFINE n == Len(g[1])
           q == p + n + 4
<1>3. LengthAt(p + n + 2) = Len(g[2]) /\ \A j \in 1..Len(g[2]) : b[q + j] = g[2][j]
  BY HeaderSaid
<1>4. /\ LengthAt(p + Len(h[1]) + 2) = Len(h[2])
      /\ \A j \in 1..Len(h[2]) : b[(p + Len(h[1]) + 4) + j] = h[2][j]
  BY HeaderSaid
<1>5. \A j \in 1..Len(g[1]) : g[1][j] = h[1][j]
  BY <1>2, HeaderSaid
<1>6. LengthAt(p + n + 2) = Len(h[2]) /\ \A j \in 1..Len(h[2]) : b[q + j] = h[2][j]
  BY <1>2, <1>4
<1> HIDE DEF n, q
<1>7. Len(g[2]) = Len(h[2])
  BY <1>3, <1>6
<1>8. \A j \in 1..Len(g[2]) : g[2][j] = h[2][j]
  BY <1>3, <1>6, <1>7
<1>9. g[1] = h[1] /\ g[2] = h[2]
  BY <1>1, <1>2, <1>5, <1>7, <1>8, SeqEqual
<1> QED BY <1>1, <1>9

\* Adding up the parts of a header.
LEMMA AddedUp ==
  ASSUME NEW p \in Nat, NEW n \in Nat, NEW m \in Nat, NEW l \in Nat, p + (n + m + 4) <= l
  PROVE  p + n + m + 4 <= l /\ p + 4 <= l
OBVIOUS

\* The next header of the map is where the decoder is, unless all were read.
LEMMA NextHeader ==
  ASSUME IInv, BlockInv, OriginInv, TripInv, Encoded, AllFit
  PROVE  LET hs == HeadersOf(written)
         IN  /\ hs \in Seq(HeaderPair) /\ Len(hs) \in Nat /\ Len(read) \in Nat
             /\ Len(read) <= Len(hs)
             /\ Len(read) < Len(hs) =>
                  /\ hs[Len(read) + 1] \in HeaderPair /\ Fits(hs[Len(read) + 1])
                  /\ HeaderAt(start, hs[Len(read) + 1]) /\ start + 4 <= Len(b)
             /\ Len(read) = Len(hs) => read = hs /\ start = Len(b)
<1> DEFINE hs == HeadersOf(written)
           k == Len(read)
<1>1. written \in HeaderMaps /\ b = Written(hs) /\ b \in Seq(Byte) /\ Len(b) \in Nat /\ start \in Nat
  BY Numbers DEF OriginInv, Encode, BlockInv
<1>2. /\ hs \in Seq(HeaderPair)
      /\ \A j \in 1..Len(hs) : hs[j][1] \in DOMAIN written /\ hs[j][2] = written[hs[j][1]]
  BY <1>1, HeadersListed
<1>3. read \in Seq(HeaderPair) /\ read = SubSeq(hs, 1, k) /\ k <= Len(hs)
  BY Numbers DEF BlockInv, TripInv
<1>4. Len(hs) \in Nat /\ k \in Nat
  BY <1>2, <1>3
<1> HIDE DEF hs, k
<1>5. ASSUME k < Len(hs)
      PROVE  /\ hs[k + 1] \in HeaderPair /\ Fits(hs[k + 1])
             /\ HeaderAt(start, hs[k + 1]) /\ start + 4 <= Len(b)
  <2> DEFINE h == hs[k + 1]
             e == EncodeHeader(h[1], h[2])
  <2>1. k + 1 \in 1..Len(hs)
    BY <1>4, <1>5
  <2>2. h \in HeaderPair /\ Fits(h)
    BY <1>2, <2>1 DEF AllFit, Fits
  <2>3. Within(b, start, e)
    <3>1. Within(Written(hs), Len(Written(SubSeq(hs, 1, k))), e)
      BY <1>2, <1>4, <1>5, HeadersInPlace
    <3> QED BY <1>1, <1>3, <3>1 DEF start
  <2> HIDE DEF h
  <2>4. Len(e) = Len(h[1]) + Len(h[2]) + 4 /\ Len(h[1]) \in Nat /\ Len(h[2]) \in Nat
    BY <2>2, HeaderLength
  <2> HIDE DEF e
  <2>5. /\ start + (Len(h[1]) + Len(h[2]) + 4) <= Len(b)
        /\ \A j \in 1..(Len(h[1]) + Len(h[2]) + 4) : e[j] = b[start + j]
    BY <2>3, <2>4 DEF Within
  <2>6. start + Len(h[1]) + Len(h[2]) + 4 <= Len(b) /\ start + 4 <= Len(b)
    <3>1. Len(b) \in Nat /\ start \in Nat
      BY <1>1
    <3> QED BY <2>4, <2>5, <3>1, AddedUp
  <2>7. HeaderAt(start, h)
    BY <2>5, <2>6 DEF HeaderAt, e
  <2> QED BY <2>2, <2>6, <2>7 DEF h
<1>6. ASSUME k = Len(hs) PROVE read = hs /\ start = Len(b)
  <2>1. read = hs
    BY <1>2, <1>3, <1>6, SubSeqFull
  <2> QED BY <1>1, <2>1 DEF start
<1> QED BY <1>2, <1>3, <1>4, <1>5, <1>6 DEF hs, k

\* A block that Encode wrote is not refused.
LEMMA NotRefused ==
  ASSUME IInv, BlockInv, OriginInv, TripInv, Encoded, AllFit, BlockInv', Refuse,
         start < i
  PROVE  FALSE
<1> DEFINE hs == HeadersOf(written)
<1>1. /\ Len(hs) \in Nat /\ Len(read) \in Nat /\ Len(read) <= Len(hs)
      /\ Len(read) < Len(hs) =>
           /\ hs[Len(read) + 1] \in HeaderPair /\ Fits(hs[Len(read) + 1])
           /\ HeaderAt(start, hs[Len(read) + 1])
      /\ Len(read) = Len(hs) => start = Len(b)
  BY NextHeader
<1>2. i \in Nat /\ Len(b) \in Nat /\ i <= Len(b) /\ start \in Nat
  BY Numbers DEF BlockInv
<1> HIDE DEF hs
<1>3. Len(read) < Len(hs)
  BY <1>1, <1>2
<1>4. b' = b /\ read' = read /\ field' = "refused"
  BY DEF Refuse, block
<1>5. start' = start
  BY <1>4 DEF start
<1>6. NoHeaderAt(start)
  BY <1>4, <1>5 DEF BlockInv, RefusedInv, NoHeaderAt, HeaderAt
<1> QED BY <1>1, <1>3, <1>6 DEF NoHeaderAt

\* Every step reads the next header of the map or none.
LEMMA TripStep ==
  ASSUME IInv, BlockInv, OriginInv, TripInv, [DecodeNext]_decodeVars, BlockInv'
  PROVE  OriginInv' /\ TripInv'
<1>1. b' = b /\ written' = written
  BY DEF DecodeNext, decodeVars, Finish, NameLength, Name, HeaderType, ValueLength, Value,
         Refuse, block
<1>2. OriginInv'
  BY <1>1 DEF OriginInv, Encoded
<1>3. ASSUME Encoded, AllFit
      PROVE  /\ read' = SubSeq(HeadersOf(written), 1, Len(read'))
             /\ Len(read') <= Len(HeadersOf(written))
             /\ field' # "refused"
  <2> DEFINE hs == HeadersOf(written)
  <2>1. /\ start \in Nat /\ i \in Nat /\ Len(name) \in Nat /\ Len(b) \in Nat
        /\ need \in Nat /\ b \in Seq(Byte)
    BY Numbers DEF BlockInv
  <2>2. read = SubSeq(hs, 1, Len(read)) /\ Len(read) <= Len(hs) /\ field # "refused"
    BY <1>3 DEF TripInv
  <2>3. CASE Refuse /\ field \in {"name", "type", "valueLength", "value"}
    <3>1. start < i
      BY <2>1, <2>3 DEF BlockInv, FieldInv
    <3> QED BY <1>3, <2>3, <3>1, NotRefused
  <2>4. CASE read' = read /\ field' # "refused"
    BY <2>2, <2>4
  <2>5. CASE /\ field = "value" /\ Room(need) /\ field' = "length"
             /\ read' = Append(read, <<name, Slice(need)>>)
    <3> DEFINE h == <<name, Slice(need)>>
               g == hs[Len(read) + 1]
    <3>1. h \in HeaderPair /\ HeaderAt(start, h) /\ Len(Slice(need)) = need
      BY <2>5, ValueCompletes
    <3>2. Fits(h)
      <4>1. Len(name) < Base
        <5>1. At(start) = Len(name)
          BY <2>5 DEF BlockInv, FieldInv
        <5>2. At(start) \in 0..(Base - 1) /\ Base \in Nat
          BY <2>1, BytesAreNat, CodecAssumption DEF Byte
        <5> QED BY <5>1, <5>2
      <4>2. need < Base * Base
        <5>1. need \in 0..(Base * Base - 1) /\ Base * Base \in Nat
          BY CodecAssumption DEF IInv, DecodeTypeOK
        <5> QED BY <5>1
      <4> QED BY <3>1, <4>1, <4>2 DEF Fits
    <3>3. start + 4 <= Len(b)
      <4>1. h[1] = name /\ h[2] = Slice(need)
        OBVIOUS
      <4>2. start + Len(name) + need + 4 <= Len(b)
        BY <3>1, <4>1 DEF HeaderAt
      <4> QED BY <2>1, <4>2
    <3>4. /\ hs \in Seq(HeaderPair) /\ Len(hs) \in Nat /\ Len(read) \in Nat
          /\ Len(read) < Len(hs) => g \in HeaderPair /\ Fits(g) /\ HeaderAt(start, g)
          /\ Len(read) = Len(hs) => start = Len(b)
      BY <1>3, NextHeader
    <3> HIDE DEF hs, h
    <3>5. Len(read) < Len(hs)
      BY <2>1, <2>2, <3>3, <3>4
    <3>6. h = g
      BY <2>1, <3>1, <3>2, <3>4, <3>5, OneHeader
    <3> DEFINE k == Len(read) + 1
    <3>7. k \in 1..Len(hs) /\ k - 1 = Len(read)
      BY <3>4, <3>5
    <3>8. SubSeq(hs, 1, k) = SubSeq(hs, 1, k - 1) \o <<hs[k]>>
      <4>1. 1 \in 1..Len(hs) /\ k \in 1..Len(hs)
        BY <3>4, <3>7
      <4> HIDE DEF k
      <4> QED BY <3>4, <4>1, SubSeqRecursiveSecond
    <3>9. read' = SubSeq(hs, 1, k)
      <4>1. read \in Seq(HeaderPair)
        BY Numbers DEF BlockInv
      <4>2. read' = Append(read, h)
        BY <2>5 DEF h
      <4>3. Append(read, h) = read \o <<h>>
        BY <3>1, <4>1, AppendIsConcat DEF h
      <4> QED BY <2>2, <3>6, <3>7, <3>8, <4>2, <4>3
    <3>10. Len(read') = k
      BY <3>4, <3>7, <3>9
    <3> QED BY <2>5, <3>7, <3>9, <3>10 DEF hs
  <2>6. \/ Refuse /\ field \in {"name", "type", "valueLength", "value"}
        \/ read' = read /\ field' # "refused"
        \/ /\ field = "value" /\ Room(need) /\ field' = "length"
           /\ read' = Append(read, <<name, Slice(need)>>)
    <3>1. CASE UNCHANGED decodeVars
      BY <2>2, <3>1 DEF decodeVars
    <3>2. CASE Finish \/ NameLength
      BY <3>2 DEF Finish, NameLength
    <3>3. CASE Name
      BY <3>3 DEF Name
    <3>4. CASE HeaderType
      BY <3>4 DEF HeaderType
    <3>5. CASE ValueLength
      BY <3>5 DEF ValueLength
    <3>6. CASE Value
      BY <3>6 DEF Value
    <3> QED BY <3>1, <3>2, <3>3, <3>4, <3>5, <3>6 DEF DecodeNext
  <2> QED BY <2>3, <2>4, <2>5, <2>6
<1> QED BY <1>1, <1>2, <1>3 DEF TripInv, Encoded, AllFit

\* At first no header of the map has been read.
LEMMA TripInit == DecodeInit => OriginInv /\ TripInv
<1> SUFFICES ASSUME DecodeInit PROVE OriginInv /\ TripInv
  OBVIOUS
<1>1. OriginInv
  BY DEF DecodeInit, OriginInv, Encoded
<1>2. ASSUME Encoded
      PROVE  /\ read = SubSeq(HeadersOf(written), 1, Len(read))
             /\ Len(read) <= Len(HeadersOf(written))
             /\ field # "refused"
  <2>1. read = <<>> /\ Len(read) = 0 /\ field = "length"
    BY DEF DecodeInit
  <2>2. written \in HeaderMaps
    BY <1>1, <1>2 DEF OriginInv
  <2> DEFINE hs == HeadersOf(written)
  <2>3. hs \in Seq(HeaderPair)
    BY <2>2, HeadersListed
  <2> HIDE DEF hs
  <2>4. Len(hs) \in Nat /\ SubSeq(hs, 1, 0) = <<>>
    BY <2>3
  <2> QED BY <2>1, <2>4 DEF hs
<1> QED BY <1>1, <1>2 DEF TripInv

-----------------------------------------------------------------------------
\* The inductive invariant.
Inv == IInv /\ BlockInv /\ OriginInv /\ TripInv

\* The inductive invariant holds of every behaviour of decodeHeaders.
THEOREM DecoderInvariance == DecodeSpec => []Inv
<1>1. DecodeInit => Inv
  BY InitInvariant, BlockInit, TripInit DEF Inv
<1>2. Inv /\ [DecodeNext]_decodeVars => Inv'
  BY StepInvariant, BlockStep, TripStep DEF Inv
<1> QED BY <1>1, <1>2, PTL DEF DecodeSpec

\* The map decodeHeaders builds stands for the very bytes it has read, and for all
\* of them at the end: nothing is skipped, read twice or left over.
THEOREM EveryByteRead == DecodeSpec => []ReadExactly
<1>1. Inv => ReadExactly
  <2> SUFFICES ASSUME Inv, field \in {"length", "done"}
               PROVE  /\ SubSeq(b, 1, i) = Written(read) /\ out = Meaning(read)
                      /\ field = "done" => i = Len(b)
    BY DEF ReadExactly
  <2>1. /\ b \in Seq(Byte) /\ Len(b) \in Nat /\ start \in Nat /\ start <= Len(b) /\ i = start
        /\ \A j \in 1..start : b[j] = Written(read)[j]
        /\ Written(read) \in Seq(Byte) /\ Len(Written(read)) = start
    <3>1. i <= Len(b) /\ start <= i /\ i \in Nat /\ start \in Nat /\ Len(b) \in Nat
          /\ b \in Seq(Byte) /\ read \in Seq(HeaderPair)
      BY Numbers DEF Inv, BlockInv
    <3>2. i = start /\ \A j \in 1..start : b[j] = Written(read)[j]
      BY DEF Inv, BlockInv, FieldInv, ReadInv
    <3> QED BY <3>1, <3>2, WrittenGrows DEF start
  <2>2. SubSeq(b, 1, start) = Written(read)
    <3>1. \A j \in 1..start : b[j] \in Byte
      BY <2>1
    <3>2. /\ SubSeq(b, 1, start) \in Seq(Byte) /\ Len(SubSeq(b, 1, start)) = start
          /\ \A j \in 1..start : SubSeq(b, 1, start)[j] = b[j]
      BY <2>1, <3>1
    <3> QED BY <2>1, <3>2, SeqEqual
  <2>3. out = Meaning(read) /\ (field = "done" => i = Len(b))
    BY DEF Inv, BlockInv, ReadInv, FieldInv
  <2> QED BY <2>1, <2>2, <2>3
<1> QED BY DecoderInvariance, <1>1, PTL

\* decodeHeaders gives up only on bytes that are no string header: it refuses
\* nothing that Encode could have written.
THEOREM RefusedIsNoHeader == DecodeSpec => []NoHeaderRefused
<1>1. Inv => NoHeaderRefused
  <2> SUFFICES ASSUME Inv, field = "refused",
                      NEW h \in HeadersUpTo(Len(SubSeq(b, start + 1, Len(b)))),
                      IsPrefix(EncodeHeader(h[1], h[2]), SubSeq(b, start + 1, Len(b)))
               PROVE  FALSE
    BY DEF NoHeaderRefused, start
  <2> DEFINE rest == SubSeq(b, start + 1, Len(b))
             e == EncodeHeader(h[1], h[2])
  <2>1. b \in Seq(Byte) /\ Len(b) \in Nat /\ start \in Nat /\ start <= Len(b) /\ Base \in Nat \ {0}
    <3>1. i <= Len(b) /\ start <= i /\ i \in Nat /\ start \in Nat /\ Len(b) \in Nat
          /\ b \in Seq(Byte)
      BY Numbers DEF Inv, BlockInv
    <3> QED BY <3>1, CodecAssumption
  <2>2. h \in HeaderPair /\ Fits(h)
    <3>1. h \in BoundedSeq(Byte, Base - 1) \X BoundedSeq(Byte, Base * Base - 1)
      BY DEF HeadersUpTo
    <3>2. PICK m \in 0..(Base - 1) : h[1] \in [1..m -> Byte]
      BY <3>1 DEF BoundedSeq, SeqOf
    <3>3. PICK n \in 0..(Base * Base - 1) : h[2] \in [1..n -> Byte]
      BY <3>1 DEF BoundedSeq, SeqOf
    <3>4. h[1] \in Seq(Byte) /\ Len(h[1]) = m /\ m < Base
      BY <2>1, <3>2
    <3>5. h[2] \in Seq(Byte) /\ Len(h[2]) = n /\ n < Base * Base
      <4>1. Base * Base \in Nat
        BY <2>1
      <4> QED BY <3>3, <4>1
    <3>6. h = <<h[1], h[2]>>
      BY <3>1
    <3> QED BY <3>4, <3>5, <3>6 DEF HeaderPair, Fits
  <2>3. /\ e \in Seq(Byte) /\ Len(e) \in Nat /\ Len(e) = Len(h[1]) + Len(h[2]) + 4
        /\ Len(h[1]) \in Nat /\ Len(h[2]) \in Nat
    BY <2>2, HeaderLength
  <2>4. /\ Len(rest) = Len(b) - start
        /\ \A j \in 1..(Len(b) - start) : rest[j] = b[start + j]
    <3>1. \A j \in (start + 1)..Len(b) : b[j] \in Byte
      BY <2>1
    <3>2. /\ Len(rest) = IF start + 1 <= Len(b) THEN Len(b) - (start + 1) + 1 ELSE 0
          /\ \A j \in 1..(Len(b) - (start + 1) + 1) : rest[j] = b[(start + 1) + j - 1]
      BY <2>1, <3>1, SubSeqProperties
    <3>3. Len(b) - (start + 1) + 1 = Len(b) - start
      BY <2>1
    <3>4. \A j \in 1..(Len(b) - start) : (start + 1) + j - 1 = start + j
      BY <2>1
    <3> HIDE DEF rest
    <3>5. Len(rest) = Len(b) - start
      <4>1. start + 1 <= Len(b) \/ Len(b) - start = 0
        BY <2>1
      <4> QED BY <3>2, <3>3, <4>1
    <3> QED BY <3>2, <3>3, <3>4, <3>5
  <2> HIDE DEF rest, e
  <2>5. Len(e) <= Len(rest) /\ SubSeq(e, 1, Len(e)) = SubSeq(rest, 1, Len(e))
    <3>1. IsPrefix(e, rest)
      BY DEF e, rest
    <3> QED BY <3>1 DEF IsPrefix
  <2>6. ASSUME NEW j \in 1..Len(e) PROVE e[j] = b[start + j]
    <3>1. Len(e) \in Nat /\ j \in 1..(Len(b) - start)
      <4>1. Len(e) \in Nat
        BY <2>3
      <4>2. Len(e) <= Len(b) - start
        BY <2>4, <2>5
      <4> QED BY <2>1, <4>1, <4>2
    <3>2. SubSeq(e, 1, Len(e))[j] = e[j] /\ SubSeq(rest, 1, Len(e))[j] = rest[j]
      BY <3>1
    <3> QED BY <2>4, <2>5, <3>1, <3>2
  <2>7. start + Len(h[1]) + Len(h[2]) + 4 <= Len(b)
    <3>1. start + Len(e) <= Len(b)
      <4>1. Len(e) \in Nat
        BY <2>3
      <4>2. Len(e) <= Len(b) - start
        BY <2>4, <2>5
      <4> QED BY <2>1, <4>1, <4>2
    <3>2. start + (Len(h[1]) + Len(h[2]) + 4) <= Len(b)
      BY <2>3, <3>1
    <3> QED BY <2>1, <2>3, <3>2, AddedUp
  <2>8. HeaderAt(start, h)
    BY <2>3, <2>6, <2>7 DEF HeaderAt, e
  <2> QED BY <2>2, <2>8 DEF Inv, BlockInv, RefusedInv, NoHeaderAt
<1> QED BY DecoderInvariance, <1>1, PTL

\* What Encode writes comes back from decodeHeaders, as long as names and values
\* fit the fields of their lengths.
THEOREM WhatIsWrittenComesBack == DecodeSpec => []RoundTrip
<1>1. Inv => RoundTrip
  <2> SUFFICES ASSUME Inv, field \in {"done", "refused"}, Encoded, AllFit
               PROVE  field = "done" /\ out = written
    BY DEF RoundTrip, Encoded, AllFit
  <2>1. field = "done"
    BY DEF Inv, TripInv
  <2> DEFINE hs == HeadersOf(written)
  <2>2. /\ Len(hs) \in Nat /\ Len(read) \in Nat /\ Len(read) <= Len(hs)
        /\ Len(read) < Len(hs) => start + 4 <= Len(b)
        /\ Len(read) = Len(hs) => read = hs
    BY NextHeader DEF Inv
  <2>3. start = Len(b) /\ start \in Nat
    <3>1. i = start /\ i = Len(b)
      BY <2>1 DEF Inv, BlockInv, FieldInv
    <3>2. start \in Nat
      BY Numbers DEF Inv, BlockInv
    <3> QED BY <3>1, <3>2
  <2>4. read = hs
    <3> HIDE DEF hs
    <3> QED BY <2>2, <2>3
  <2>5. Meaning(hs) = written /\ out = Meaning(read)
    BY HeadersListed DEF Inv, OriginInv, BlockInv, ReadInv
  <2> QED BY <2>1, <2>4, <2>5
<1> QED BY DecoderInvariance, <1>1, PTL

-----------------------------------------------------------------------------
(* How long decodeHeaders takes. *)

\* A bound of the fields still to be read: names and values may be empty, the
\* other fields take bytes.
FieldsLeft ==
  IF field \in {"done", "refused"} THEN 0
  ELSE 2 * (Len(b) - i) + (IF field \in {"name", "value"} THEN 2 ELSE 1)

\* decodeHeaders reads at most two fields for each byte and two more: no block
\* keeps it busy for longer, whatever lengths it claims.
THEOREM DecoderEnds ==
  DecodeSpec => /\ [](FieldsLeft \in 0..(2 * Len(b) + 2))
                /\ [][FieldsLeft' < FieldsLeft]_decodeVars
<1> USE DEF DecodeTypeOK, IndexInRange, Fields
<1>1. IInv => FieldsLeft \in 0..(2 * Len(b) + 2)
  BY DEF IInv, FieldsLeft
<1>2. ASSUME IInv, DecodeNext PROVE FieldsLeft' < FieldsLeft
  <2>0. Len(b) \in Nat /\ i \in Nat /\ i <= Len(b) /\ need \in Nat
    BY <1>2, CodecAssumption DEF IInv
  <2>1. Refuse /\ field \notin {"done", "refused"} => FieldsLeft' < FieldsLeft
    BY <2>0 DEF Refuse, FieldsLeft
  <2>2. CASE Finish
    BY <2>0, <2>2 DEF Finish, block, FieldsLeft
  <2>3. CASE NameLength
    BY <2>0, <2>3 DEF NameLength, MoreToRead, block, FieldsLeft
  <2>4. CASE Name
    BY <2>0, <2>1, <2>4 DEF Name, Room, block, FieldsLeft
  <2>5. CASE HeaderType
    BY <2>0, <2>1, <2>5 DEF HeaderType, Room, block, FieldsLeft
  <2>6. CASE ValueLength
    BY <2>0, <2>1, <2>6 DEF ValueLength, Room, block, FieldsLeft
  <2>7. CASE Value
    BY <2>0, <2>1, <2>7 DEF Value, Room, block, FieldsLeft
  <2> QED BY <1>2, <2>2, <2>3, <2>4, <2>5, <2>6, <2>7 DEF DecodeNext
<1>3. IInv /\ [DecodeNext]_decodeVars => [FieldsLeft' < FieldsLeft]_decodeVars
  BY <1>2
<1> QED BY InitInvariant, StepInvariant, <1>1, <1>3, PTL DEF DecodeSpec
==============================================================================
