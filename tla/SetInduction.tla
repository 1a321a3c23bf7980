----------------------------- MODULE SetInduction -----------------------------
(***************************************************************************)
(* Induction over the natural numbers about a set of them, not about a     *)
(* predicate: the provers can instantiate a set.  What follows from it for *)
(* finite sets in an order and for sequences that are joined.              *)
(***************************************************************************)
EXTENDS Integers, SequencesExt, SequenceTheorems, WellFoundedInduction, FiniteSetTheorems, TLAPS

Less == {p \in Nat \X Nat : p[1] < p[2]}

\* No sequence of natural numbers descends for ever.
LEMMA LessWellFounded == IsWellFoundedOn(Less, Nat)
  BY NatLessThanWellFounded DEF OpToRel, Less

\* A set of natural numbers that is not empty has a smallest member.
LEMMA Smallest ==
  ASSUME NEW T, T \subseteq Nat, T # {}
  PROVE  \E m \in T : \A n \in T : m <= n
<1>1. PICK m \in T : \A n \in T : ~(<<n, m>> \in Less)
  BY LessWellFounded, WFMin
<1>2. \A n \in T : ~(n < m)
  BY <1>1 DEF Less
<1> QED BY <1>1, <1>2

\* A set that contains 0, and with each number its successor, contains them all.
LEMMA Induction ==
  ASSUME NEW S, 0 \in S, \A n \in Nat : n \in S => n + 1 \in S
  PROVE  Nat \subseteq S
<1> DEFINE T == Nat \ S
<1>1. SUFFICES ASSUME T # {} PROVE FALSE
  OBVIOUS
<1>2. PICK m \in T : \A n \in T : m <= n
  BY <1>1, Smallest
<1>3. m # 0 /\ m - 1 \in Nat /\ m - 1 \notin T
  BY <1>2
<1> QED BY <1>2, <1>3

\* A set of natural numbers up to n that is not empty has a largest member.
LEMMA Largest ==
  ASSUME NEW n \in Nat, NEW T, T \subseteq 0..n, T # {}
  PROVE  \E m \in T : \A k \in T : k <= m
<1> DEFINE R == {n - k : k \in T}
<1>1. R \subseteq Nat /\ R # {}
  <2>1. \A k \in T : k \in 0..n /\ n - k \in Nat
    OBVIOUS
  <2> QED BY <2>1
<1>2. PICK r \in R : \A x \in R : r <= x
  <2> HIDE DEF R
  <2> QED BY <1>1, Smallest
<1>3. PICK m \in T : r = n - m
  BY <1>2
<1>4. \A k \in T : n - m <= n - k /\ k \in 0..n /\ m \in 0..n
  <2>1. \A k \in T : r <= n - k
    BY <1>2
  <2> QED BY <1>3, <2>1
<1> QED BY <1>4

-----------------------------------------------------------------------------
(* Finite sets in a strict total order, which is given as a set of pairs.  *)

\* R orders U.
Orders(R, U) ==
  /\ \A s \in U : <<s, s>> \notin R
  /\ \A s, t \in U : s # t => <<s, t>> \in R \/ <<t, s>> \in R
  /\ \A s, t, u \in U : <<s, t>> \in R /\ <<t, u>> \in R => <<s, u>> \in R

\* A finite set that is not empty has a last member.
LEMMA LastMember ==
  ASSUME NEW R, NEW U, Orders(R, U)
  PROVE  \A D \in SUBSET U : IsFiniteSet(D) /\ D # {} =>
           \E m \in D : \A x \in D : x # m => <<x, m>> \in R
<1> DEFINE S == {n \in Nat : \A D \in SUBSET U : IsFiniteSet(D) /\ Cardinality(D) = n + 1 =>
                   \E m \in D : \A x \in D : x # m => <<x, m>> \in R}
<1>1. 0 \in S
  <2> SUFFICES ASSUME NEW D \in SUBSET U, IsFiniteSet(D), Cardinality(D) = 1
               PROVE  \E m \in D : \A x \in D : x # m => <<x, m>> \in R
    OBVIOUS
  <2>1. PICK m : D = {m}
    BY FS_Singleton
  <2> QED BY <2>1
<1>2. ASSUME NEW n \in Nat, n \in S PROVE n + 1 \in S
  <2> SUFFICES ASSUME NEW D \in SUBSET U, IsFiniteSet(D), Cardinality(D) = (n + 1) + 1
               PROVE  \E m \in D : \A x \in D : x # m => <<x, m>> \in R
    OBVIOUS
  <2>1. PICK z \in D : TRUE
    BY FS_EmptySet
  <2>2. IsFiniteSet(D \ {z}) /\ Cardinality(D \ {z}) = n + 1
    BY FS_RemoveElement
  <2>3. PICK m \in D \ {z} : \A x \in D \ {z} : x # m => <<x, m>> \in R
    BY <1>2, <2>2
  <2>4. CASE <<z, m>> \in R
    BY <2>3, <2>4
  <2>5. CASE <<m, z>> \in R
    <3>1. \A x \in D : x # z => <<x, z>> \in R
      BY <2>3, <2>5 DEF Orders
    <3> QED BY <3>1
  <2> QED BY <2>3, <2>4, <2>5 DEF Orders
<1> HIDE DEF S
<1>3. Nat \subseteq S
  BY <1>1, <1>2, Induction
<1> TAKE D \in SUBSET U
<1> HAVE IsFiniteSet(D) /\ D # {}
<1>4. Cardinality(D) \in Nat /\ Cardinality(D) # 0
  BY FS_CardinalityType, FS_EmptySet
<1>5. PICK n \in Nat : Cardinality(D) = n + 1
  <2>1. Cardinality(D) - 1 \in Nat /\ Cardinality(D) = (Cardinality(D) - 1) + 1
    BY <1>4
  <2> QED BY <2>1
<1> QED BY <1>3, <1>5 DEF S

\* A finite set can be listed in its order.
LEMMA Listing ==
  ASSUME NEW R, NEW U, Orders(R, U)
  PROVE  \A D \in SUBSET U : IsFiniteSet(D) =>
           \E f \in [1..Cardinality(D) -> D] :
             \A j, k \in 1..Cardinality(D) : j < k => <<f[j], f[k]>> \in R
<1> DEFINE Listed(D, n) == \E f \in [1..n -> D] : \A j, k \in 1..n : j < k => <<f[j], f[k]>> \in R
           S == {n \in Nat : \A D \in SUBSET U : IsFiniteSet(D) /\ Cardinality(D) = n => Listed(D, n)}
<1>1. 0 \in S
  <2> SUFFICES ASSUME NEW D \in SUBSET U PROVE Listed(D, 0)
    OBVIOUS
  <2>1. 1..0 = {}
    OBVIOUS
  <2>2. [j \in 1..0 |-> j] \in [1..0 -> D] /\ \A j \in 1..0 : FALSE
    BY <2>1
  <2> QED BY <2>2
<1>2. ASSUME NEW n \in Nat, n \in S PROVE n + 1 \in S
  <2> SUFFICES ASSUME NEW D \in SUBSET U, IsFiniteSet(D), Cardinality(D) = n + 1
               PROVE  Listed(D, n + 1)
    OBVIOUS
  <2>1. D # {}
    BY FS_EmptySet
  <2>2. PICK m \in D : \A x \in D : x # m => <<x, m>> \in R
    BY <2>1, LastMember
  <2>3. IsFiniteSet(D \ {m}) /\ Cardinality(D \ {m}) = n
    BY FS_RemoveElement
  <2>4. PICK f \in [1..n -> D \ {m}] : \A j, k \in 1..n : j < k => <<f[j], f[k]>> \in R
    BY <1>2, <2>3
  <2> DEFINE g == [j \in 1..(n + 1) |-> IF j = n + 1 THEN m ELSE f[j]]
  <2>5. g \in [1..(n + 1) -> D]
    OBVIOUS
  <2>6. ASSUME NEW j \in 1..(n + 1), NEW k \in 1..(n + 1), j < k
        PROVE  <<g[j], g[k]>> \in R
    <3>1. j \in 1..n /\ g[j] = f[j] /\ f[j] \in D \ {m}
      BY <2>6
    <3>2. CASE k = n + 1
      BY <2>2, <3>1, <3>2
    <3>3. CASE k # n + 1
      BY <2>4, <2>6, <3>1, <3>3
    <3> QED BY <3>2, <3>3
  <2> HIDE DEF g
  <2> QED BY <2>5, <2>6
<1> HIDE DEF S
<1>3. Nat \subseteq S
  BY <1>1, <1>2, Induction
<1> TAKE D \in SUBSET U
<1> HAVE IsFiniteSet(D)
<1>4. Cardinality(D) \in Nat
  BY FS_CardinalityType
<1> QED BY <1>3, <1>4 DEF S

-----------------------------------------------------------------------------
(* Sequences in the order of the characters where they first differ; R is   *)
(* the rank of a character.                                                 *)

Lexical(R, s, t) ==
  \/ IsStrictPrefix(s, t)
  \/ \E k \in 1..Len(s) : /\ k <= Len(t) /\ R[s[k]] < R[t[k]]
                          /\ \A j \in 1..(k - 1) : s[j] = t[j]

LexicalPairs(R, S) == {p \in Seq(S) \X Seq(S) : Lexical(R, p[1], p[2])}

\* A sequence goes before another if it is a proper prefix or is smaller where
\* they first differ.
LEMMA LexicalSays ==
  ASSUME NEW S, NEW R, NEW s \in Seq(S), NEW t \in Seq(S)
  PROVE  Lexical(R, s, t) <=>
           \/ s # t /\ Len(s) <= Len(t) /\ \A j \in 1..Len(s) : s[j] = t[j]
           \/ \E k \in 1..Len(s) : /\ k <= Len(t) /\ R[s[k]] < R[t[k]]
                                   /\ \A j \in 1..(k - 1) : s[j] = t[j]
<1>1. Len(s) \in Nat /\ Len(t) \in Nat
  OBVIOUS
<1>2. IsPrefix(s, t) <=> Len(s) <= Len(t) /\ \A j \in 1..Len(s) : s[j] = t[j]
  <2>1. CASE Len(s) <= Len(t)
    <3> DEFINE x == SubSeq(s, 1, Len(s))
               y == SubSeq(t, 1, Len(s))
    <3>1. \A j \in 1..Len(s) : s[j] \in S /\ t[j] \in S
      <4>1. \A j \in 1..Len(s) : j \in 1..Len(t)
        BY <1>1, <2>1
      <4> QED BY <4>1
    <3>2. /\ x \in Seq(S) /\ y \in Seq(S) /\ Len(x) = Len(s) /\ Len(y) = Len(s)
          /\ \A j \in 1..Len(s) : x[j] = s[j] /\ y[j] = t[j]
      BY <1>1, <3>1
    <3>3. x = y <=> \A j \in 1..Len(s) : s[j] = t[j]
      <4> HIDE DEF x, y
      <4> QED BY <3>2, SeqEqual
    <3>4. IsPrefix(s, t) <=> x = y
      <4>1. CASE Len(s) = Len(t)
        BY <2>1, <4>1 DEF IsPrefix
      <4>2. IsPrefix(s, t) <=> Len(s) <= Len(t) /\ SubSeq(s, 1, Len(s)) = SubSeq(t, 1, Len(s))
        BY DEF IsPrefix
      <4> QED BY <2>1, <4>2
    <3> QED BY <2>1, <3>3, <3>4
  <2>2. CASE ~(Len(s) <= Len(t))
    BY <2>2 DEF IsPrefix
  <2> QED BY <2>1, <2>2
<1> QED BY <1>2 DEF Lexical, IsStrictPrefix

\* Sequences over a set in which no two have the same rank are in a strict
\* total order.
LEMMA LexicalOrder ==
  ASSUME NEW S, NEW R, \A c \in S : R[c] \in Int, \A c, d \in S : R[c] = R[d] => c = d
  PROVE  Orders(LexicalPairs(R, S), Seq(S))
<1>0. \A s \in Seq(S) : Len(s) \in Nat /\ \A j \in 1..Len(s) : s[j] \in S /\ R[s[j]] \in Int
  <2>1. \A s \in Seq(S) : Len(s) \in Nat /\ \A j \in 1..Len(s) : s[j] \in S
    OBVIOUS
  <2> QED BY <2>1
<1>1. ASSUME NEW s \in Seq(S), Lexical(R, s, s) PROVE FALSE
  <2>1. \E k \in 1..Len(s) : R[s[k]] < R[s[k]]
    BY <1>1, LexicalSays
  <2> QED BY <1>0, <2>1
<1>2. ASSUME NEW s \in Seq(S), NEW t \in Seq(S), s # t, Len(s) <= Len(t)
      PROVE  Lexical(R, s, t) \/ Lexical(R, t, s)
  <2>1. CASE \A j \in 1..Len(s) : s[j] = t[j]
    BY <1>2, <2>1, LexicalSays
  <2>2. CASE \E j \in 1..Len(s) : s[j] # t[j]
    <3>1. PICK k \in 1..Len(s) : s[k] # t[k] /\ \A j \in 1..(k - 1) : s[j] = t[j]
      <4> DEFINE T == {j \in 1..Len(s) : s[j] # t[j]}
      <4>1. T \subseteq Nat /\ T # {}
        BY <1>0, <2>2
      <4>2. PICK k \in T : \A j \in T : k <= j
        <5> HIDE DEF T
        <5> QED BY <4>1, Smallest
      <4>3. k \in 1..Len(s) /\ s[k] # t[k] /\ Len(s) \in Nat
        BY <1>0, <4>2
      <4>4. ASSUME NEW j \in 1..(k - 1) PROVE s[j] = t[j]
        <5>1. j \in 1..Len(s) /\ ~(k <= j)
          BY <4>3
        <5>2. j \notin T
          BY <4>2, <5>1
        <5> QED BY <5>1, <5>2
      <4> QED BY <4>3, <4>4
    <3>2. k \in 1..Len(t) /\ k <= Len(s) /\ k <= Len(t)
      BY <1>0, <1>2
    <3>3. R[s[k]] < R[t[k]] \/ R[t[k]] < R[s[k]]
      <4>1. s[k] \in S /\ t[k] \in S /\ R[s[k]] \in Int /\ R[t[k]] \in Int
        BY <1>0, <3>2
      <4>2. R[s[k]] # R[t[k]]
        BY <3>1, <4>1
      <4> QED BY <4>1, <4>2
    <3> QED BY <3>1, <3>2, <3>3, LexicalSays
  <2> QED BY <2>1, <2>2
<1>3. ASSUME NEW s \in Seq(S), NEW t \in Seq(S), NEW u \in Seq(S),
             Lexical(R, s, t), Lexical(R, t, u)
      PROVE  Lexical(R, s, u)
  <2>0. Len(s) \in Nat /\ Len(t) \in Nat /\ Len(u) \in Nat
    BY <1>0
  <2>1. CASE /\ s # t /\ Len(s) <= Len(t) /\ \A j \in 1..Len(s) : s[j] = t[j]
             /\ t # u /\ Len(t) <= Len(u) /\ \A j \in 1..Len(t) : t[j] = u[j]
    <3>1. Len(s) <= Len(u) /\ \A j \in 1..Len(s) : s[j] = u[j]
      <4>1. \A j \in 1..Len(s) : j \in 1..Len(t)
        BY <2>0, <2>1
      <4> QED BY <2>0, <2>1, <4>1
    <3>2. s # u
      <4>1. SUFFICES ASSUME s = u PROVE FALSE
        OBVIOUS
      <4>2. Len(s) = Len(t)
        BY <2>0, <2>1, <4>1
      <4> QED BY <2>1, <4>2, SeqEqual
    <3> QED BY <3>1, <3>2, LexicalSays
  <2>2. ASSUME s # t, Len(s) <= Len(t), \A j \in 1..Len(s) : s[j] = t[j],
               NEW k \in 1..Len(t), k <= Len(u), R[t[k]] < R[u[k]], \A j \in 1..(k - 1) : t[j] = u[j]
        PROVE  Lexical(R, s, u)
    <3>1. CASE k <= Len(s)
      <4>1. k \in 1..Len(s) /\ \A j \in 1..(k - 1) : j \in 1..Len(s)
        BY <2>0, <3>1
      <4>2. R[s[k]] < R[u[k]] /\ \A j \in 1..(k - 1) : s[j] = u[j]
        BY <2>2, <4>1
      <4> QED BY <2>2, <4>1, <4>2, LexicalSays
    <3>2. CASE Len(s) < k
      <4>1. Len(s) <= Len(u) /\ \A j \in 1..Len(s) : j \in 1..(k - 1)
        BY <2>0, <2>2, <3>2
      <4>2. \A j \in 1..Len(s) : s[j] = u[j]
        BY <2>2, <4>1
      <4>3. s # u
        BY <2>0, <2>2, <3>2
      <4> QED BY <4>1, <4>2, <4>3, LexicalSays
    <3> QED BY <2>0, <3>1, <3>2
  <2>3. ASSUME NEW k \in 1..Len(s), k <= Len(t), R[s[k]] < R[t[k]], \A j \in 1..(k - 1) : s[j] = t[j],
               t # u, Len(t) <= Len(u), \A j \in 1..Len(t) : t[j] = u[j]
        PROVE  Lexical(R, s, u)
    <3>1. k \in 1..Len(t) /\ k <= Len(u) /\ \A j \in 1..(k - 1) : j \in 1..Len(t)
      BY <2>0, <2>3
    <3>2. R[s[k]] < R[u[k]] /\ \A j \in 1..(k - 1) : s[j] = u[j]
      BY <2>3, <3>1
    <3> QED BY <3>1, <3>2, LexicalSays
  <2>4. ASSUME NEW k \in 1..Len(s), k <= Len(t), R[s[k]] < R[t[k]], \A j \in 1..(k - 1) : s[j] = t[j],
               NEW l \in 1..Len(t), l <= Len(u), R[t[l]] < R[u[l]], \A j \in 1..(l - 1) : t[j] = u[j]
        PROVE  Lexical(R, s, u)
    <3>0. /\ k \in 1..Len(t) /\ R[s[k]] \in Int /\ R[t[k]] \in Int
          /\ R[t[l]] \in Int /\ R[u[l]] \in Int
      <4>1. k \in 1..Len(t) /\ l \in 1..Len(u)
        BY <2>0, <2>4
      <4> QED BY <1>0, <4>1
    <3>1. CASE k < l
      <4>1. k <= Len(u) /\ k \in 1..(l - 1) /\ \A j \in 1..(k - 1) : j \in 1..(l - 1)
        BY <2>0, <2>4, <3>1
      <4>2. R[s[k]] < R[u[k]] /\ \A j \in 1..(k - 1) : s[j] = u[j]
        BY <2>4, <4>1
      <4> QED BY <4>1, <4>2, LexicalSays
    <3>2. CASE k = l
      <4>1. R[s[k]] < R[u[k]]
        BY <2>4, <3>0, <3>2
      <4>2. \A j \in 1..(k - 1) : s[j] = u[j]
        BY <2>4, <3>2
      <4> QED BY <2>4, <3>2, <4>1, <4>2, LexicalSays
    <3>3. CASE l < k
      <4>1. l \in 1..Len(s) /\ l \in 1..(k - 1) /\ \A j \in 1..(l - 1) : j \in 1..(k - 1)
        BY <2>0, <2>4, <3>3
      <4>2. R[s[l]] < R[u[l]] /\ \A j \in 1..(l - 1) : s[j] = u[j]
        BY <2>4, <4>1
      <4> QED BY <2>4, <4>1, <4>2, LexicalSays
    <3> QED BY <2>0, <3>1, <3>2, <3>3
  <2> QED BY <1>3, <2>1, <2>2, <2>3, <2>4, LexicalSays
<1>4. \A s, t \in Seq(S) : <<s, t>> \in LexicalPairs(R, S) <=> Lexical(R, s, t)
  BY DEF LexicalPairs
<1>5. \A s, t \in Seq(S) : s # t => Lexical(R, s, t) \/ Lexical(R, t, s)
  <2> TAKE s, t \in Seq(S)
  <2>1. Len(s) <= Len(t) \/ Len(t) <= Len(s)
    BY <1>0
  <2> QED BY <1>2, <2>1
<1> QED BY <1>1, <1>3, <1>4, <1>5 DEF Orders

-----------------------------------------------------------------------------
(* Sequences that are sorted.                                              *)

\* No element stands behind one that R puts after it.
Ascending(R, s) ==
  \A j, k \in 1..Len(s) : j < k => s[j] = s[k] \/ <<s[j], s[k]>> \in R

\* Where x stands.
PlacesOf(s, x) == {k \in 1..Len(s) : s[k] = x}

\* The elements of s stand in t as often as in s.
SameElements(s, t) == \A x : Cardinality(PlacesOf(s, x)) = Cardinality(PlacesOf(t, x))

\* Places are finite in number.
LEMMA PlacesFinite ==
  ASSUME NEW U, NEW s \in Seq(U), NEW x
  PROVE  /\ IsFiniteSet(PlacesOf(s, x)) /\ Cardinality(PlacesOf(s, x)) \in Nat
         /\ Cardinality(PlacesOf(s, x)) = 0 <=> \A k \in 1..Len(s) : s[k] # x
<1>1. Len(s) \in Nat
  OBVIOUS
<1>2. IsFiniteSet(1..Len(s))
  BY <1>1, FS_Interval
<1>3. IsFiniteSet(PlacesOf(s, x))
  BY <1>2, FS_Subset DEF PlacesOf
<1>4. Cardinality(PlacesOf(s, x)) = 0 <=> PlacesOf(s, x) = {}
  BY <1>3, FS_EmptySet
<1> QED BY <1>3, <1>4, FS_CardinalityType DEF PlacesOf

\* To have the same elements is to make the same bag.
LEMMA SameBag ==
  ASSUME NEW U, NEW s \in Seq(U), NEW t \in Seq(U)
  PROVE  ToBag(s) = ToBag(t) <=> SameElements(s, t)
<1>1. ASSUME NEW r \in Seq(U)
      PROVE  /\ ToBag(r) = [x \in DOMAIN ToBag(r) |-> Cardinality(PlacesOf(r, x))]
             /\ DOMAIN ToBag(r) = {r[k] : k \in 1..Len(r)}
  <2>1. DOMAIN r = 1..Len(r)
    OBVIOUS
  <2> QED BY <2>1 DEF ToBag, PlacesOf, Range
<1>2. ASSUME NEW r \in Seq(U), NEW x
      PROVE  x \in DOMAIN ToBag(r) <=> Cardinality(PlacesOf(r, x)) # 0
  <2>1. DOMAIN ToBag(r) = {r[k] : k \in 1..Len(r)}
    BY <1>1
  <2>2. x \in DOMAIN ToBag(r) <=> \E k \in 1..Len(r) : r[k] = x
    BY <2>1
  <2> QED BY <2>2, PlacesFinite
<1>3. ASSUME ToBag(s) = ToBag(t) PROVE SameElements(s, t)
  <2> SUFFICES ASSUME NEW x PROVE Cardinality(PlacesOf(s, x)) = Cardinality(PlacesOf(t, x))
    BY DEF SameElements
  <2>1. x \in DOMAIN ToBag(s) <=> x \in DOMAIN ToBag(t)
    BY <1>3
  <2>2. CASE x \in DOMAIN ToBag(s)
    <3>1. ToBag(s)[x] = Cardinality(PlacesOf(s, x)) /\ ToBag(t)[x] = Cardinality(PlacesOf(t, x))
      BY <1>1, <2>1, <2>2
    <3> QED BY <1>3, <3>1
  <2>3. CASE x \notin DOMAIN ToBag(s)
    BY <1>2, <2>1, <2>3
  <2> QED BY <2>2, <2>3
<1>4. ASSUME SameElements(s, t) PROVE ToBag(s) = ToBag(t)
  <2>1. DOMAIN ToBag(s) = DOMAIN ToBag(t)
    BY <1>2, <1>4 DEF SameElements
  <2>2. \A x : Cardinality(PlacesOf(s, x)) = Cardinality(PlacesOf(t, x))
    BY <1>4 DEF SameElements
  <2>3. [x \in DOMAIN ToBag(s) |-> Cardinality(PlacesOf(s, x))]
          = [x \in DOMAIN ToBag(t) |-> Cardinality(PlacesOf(t, x))]
    BY <2>1, <2>2
  <2> QED BY <1>1, <2>3
<1> QED BY <1>3, <1>4

\* Two sorted sequences that are alike up to n do not differ there in favour of
\* the first: what it has in place n would be missing in the other.
LEMMA NotAhead ==
  ASSUME NEW R, NEW U, Orders(R, U), NEW s \in Seq(U), NEW t \in Seq(U),
         Ascending(R, t), SameElements(s, t), NEW n \in 1..Len(s),
         \A j \in 1..(n - 1) : j <= Len(t) => s[j] = t[j]
  PROVE  n <= Len(t) /\ <<s[n], t[n]>> \notin R
<1> SUFFICES ASSUME n <= Len(t) => <<s[n], t[n]>> \in R PROVE FALSE
  OBVIOUS
<1> DEFINE x == s[n]
           S == PlacesOf(s, x)
           T == PlacesOf(t, x)
<1>1. Len(s) \in Nat /\ Len(t) \in Nat /\ x \in U /\ \A k \in 1..Len(t) : t[k] \in U
  OBVIOUS
<1>2. ASSUME NEW k \in 1..Len(t), n <= k PROVE t[k] # x
  <2>1. n \in 1..Len(t) /\ <<x, t[n]>> \in R
    BY <1>1, <1>2
  <2>2. n = k \/ t[n] = t[k] \/ <<t[n], t[k]>> \in R
    BY <1>1, <1>2, <2>1 DEF Ascending
  <2>3. t[n] \in U /\ t[k] \in U
    BY <1>1, <2>1
  <2>4. <<x, t[k]>> \in R
    <3>1. CASE n = k \/ t[n] = t[k]
      BY <2>1, <3>1
    <3>2. CASE <<t[n], t[k]>> \in R
      BY <1>1, <2>1, <2>3, <3>2 DEF Orders
    <3> QED BY <2>2, <3>1, <3>2
  <2> QED BY <1>1, <2>4 DEF Orders
<1>3. T \subseteq S \ {n}
  <2> SUFFICES ASSUME NEW k \in T PROVE k \in S \ {n}
    OBVIOUS
  <2>1. k \in 1..Len(t) /\ t[k] = x
    BY DEF PlacesOf
  <2>2. k \in 1..(n - 1)
    BY <1>1, <1>2, <2>1
  <2>3. s[k] = x /\ k \in 1..Len(s)
    BY <1>1, <2>1, <2>2
  <2> QED BY <2>2, <2>3 DEF PlacesOf
<1>4. n \in S
  BY DEF PlacesOf
<1>5. IsFiniteSet(S) /\ Cardinality(S) \in Nat /\ Cardinality(T) = Cardinality(S)
  BY PlacesFinite DEF SameElements
<1> HIDE DEF S, T
<1>6. IsFiniteSet(S \ {n}) /\ Cardinality(S \ {n}) = Cardinality(S) - 1
  BY <1>4, <1>5, FS_RemoveElement
<1>7. Cardinality(T) <= Cardinality(S \ {n})
  BY <1>3, <1>6, FS_Subset
<1> QED BY <1>5, <1>6, <1>7

\* There is one way to sort.
LEMMA SortedUnique ==
  ASSUME NEW R, NEW U, Orders(R, U), NEW s \in Seq(U), NEW t \in Seq(U),
         Ascending(R, s), Ascending(R, t), SameElements(s, t)
  PROVE  s = t
<1> DEFINE D == {k \in Nat \ {0} :
                   \/ k <= Len(s) /\ ~(k <= Len(t))
                   \/ k <= Len(t) /\ ~(k <= Len(s))
                   \/ k <= Len(s) /\ k <= Len(t) /\ s[k] # t[k]}
<1>1. Len(s) \in Nat /\ Len(t) \in Nat
  OBVIOUS
<1>2. SUFFICES ASSUME D # {} PROVE FALSE
  <2> SUFFICES ASSUME D = {} PROVE s = t
    OBVIOUS
  <2>1. Len(s) = Len(t)
    <3>1. ASSUME NEW k \in Nat \ {0} PROVE k <= Len(s) <=> k <= Len(t)
      <4>1. k \notin D
        OBVIOUS
      <4> QED BY <4>1
    <3> HIDE DEF D
    <3> QED BY <1>1, <3>1
  <2>2. \A k \in 1..Len(s) : s[k] = t[k]
    <3> TAKE k \in 1..Len(s)
    <3>1. k \in Nat \ {0} /\ k <= Len(s) /\ k <= Len(t) /\ k \notin D
      BY <1>1, <2>1
    <3> QED BY <3>1
  <2> QED BY <2>1, <2>2, SeqEqual
<1>3. PICK n \in D : \A k \in D : n <= k
  <2>1. D \subseteq Nat
    OBVIOUS
  <2> HIDE DEF D
  <2> QED BY <1>2, <2>1, Smallest
<1>4. n \in Nat \ {0}
  BY <1>3
<1>5. \A j \in 1..(n - 1) : j <= Len(s) /\ j <= Len(t) => s[j] = t[j]
  <2> TAKE j \in 1..(n - 1)
  <2>1. j \in Nat \ {0} /\ ~(n <= j)
    BY <1>4
  <2>2. j \notin D
    BY <1>3, <2>1
  <2> QED BY <2>1, <2>2
<1>6. SameElements(t, s)
  BY DEF SameElements
<1>7. n <= Len(s) => n <= Len(t) /\ <<s[n], t[n]>> \notin R
  <2> HAVE n <= Len(s)
  <2>1. n \in 1..Len(s) /\ \A j \in 1..(n - 1) : j <= Len(t) => s[j] = t[j]
    BY <1>1, <1>4, <1>5
  <2> HIDE DEF D
  <2> QED BY <2>1, NotAhead
<1>8. n <= Len(t) => n <= Len(s) /\ <<t[n], s[n]>> \notin R
  <2> HAVE n <= Len(t)
  <2>1. n \in 1..Len(t) /\ \A j \in 1..(n - 1) : j <= Len(s) => t[j] = s[j]
    BY <1>1, <1>4, <1>5
  <2> HIDE DEF D
  <2> QED BY <1>6, <2>1, NotAhead
<1>9. n <= Len(s) /\ n <= Len(t) /\ s[n] # t[n]
  BY <1>3, <1>7, <1>8
<1>10. s[n] \in U /\ t[n] \in U
  BY <1>1, <1>4, <1>9
<1> QED BY <1>7, <1>8, <1>9, <1>10 DEF Orders

\* A stable sort puts position i of q before j.
Earlier(R, q, i, j) ==
  \/ <<q[i], q[j]>> \in R
  \/ <<q[j], q[i]>> \notin R /\ i < j

\* f gives the positions of q in that order.
Sorts(R, q, f) ==
  /\ f \in [1..Len(q) -> 1..Len(q)]
  /\ \A j, k \in 1..Len(q) : j < k => Earlier(R, q, f[j], f[k])

\* Every sequence can be sorted.
LEMMA SortExists ==
  ASSUME NEW R, NEW U, Orders(R, U), NEW q \in Seq(U)
  PROVE  \E f : Sorts(R, q, f)
<1> DEFINE P == 1..Len(q)
           E == {p \in P \X P : Earlier(R, q, p[1], p[2])}
<1>1. Len(q) \in Nat /\ \A i \in P : q[i] \in U
  OBVIOUS
<1>2. \A i, j \in P : <<i, j>> \in E <=> Earlier(R, q, i, j)
  OBVIOUS
<1>3. \A i \in P : ~Earlier(R, q, i, i)
  BY <1>1 DEF Earlier, Orders
<1>4. ASSUME NEW i \in P, NEW j \in P, i # j PROVE Earlier(R, q, i, j) \/ Earlier(R, q, j, i)
  <2>1. i < j \/ j < i
    BY <1>1, <1>4
  <2> QED BY <2>1 DEF Earlier
<1>5. ASSUME NEW i \in P, NEW j \in P, NEW k \in P, Earlier(R, q, i, j), Earlier(R, q, j, k)
      PROVE  Earlier(R, q, i, k)
  <2> DEFINE x == q[i]
             y == q[j]
             z == q[k]
  <2>1. x \in U /\ y \in U /\ z \in U
    BY <1>1
  <2>2. /\ \/ <<x, y>> \in R
           \/ <<y, x>> \notin R /\ i < j
        /\ \/ <<y, z>> \in R
           \/ <<z, y>> \notin R /\ j < k
    BY <1>5 DEF Earlier
  <2>3. (<<x, y>> \in R \/ x = y) /\ (<<y, z>> \in R \/ y = z)
    <3> HIDE DEF x, y, z
    <3> QED BY <2>1, <2>2 DEF Orders
  <2>4. CASE <<x, y>> \in R \/ <<y, z>> \in R
    <3>1. <<x, z>> \in R
      <4> HIDE DEF x, y, z
      <4> QED BY <2>1, <2>3, <2>4 DEF Orders
    <3> QED BY <3>1 DEF Earlier
  <2>5. CASE <<x, y>> \notin R /\ <<y, z>> \notin R
    <3>1. i < j /\ j < k /\ <<z, x>> \notin R
      BY <2>2, <2>3, <2>5
    <3>2. i < k
      BY <1>1, <3>1
    <3> QED BY <3>1, <3>2 DEF Earlier
  <2> QED BY <2>4, <2>5
<1> HIDE DEF E
<1>6. Orders(E, P)
  BY <1>2, <1>3, <1>4, <1>5 DEF Orders
<1>7. IsFiniteSet(P) /\ Cardinality(P) = Len(q)
  BY <1>1, FS_Interval
<1>8. \E f \in [1..Cardinality(P) -> P] : \A j, k \in 1..Cardinality(P) : j < k => <<f[j], f[k]>> \in E
  BY <1>6, <1>7, Listing
<1>9. PICK f \in [P -> P] : \A j, k \in P : j < k => <<f[j], f[k]>> \in E
  BY <1>7, <1>8
<1> QED BY <1>2, <1>9 DEF Sorts

\* What is sorted has the elements it had, and stands in order.
LEMMA SortKeeps ==
  ASSUME NEW R, NEW U, Orders(R, U), NEW q \in Seq(U), NEW f, Sorts(R, q, f)
  PROVE  LET s == [k \in 1..Len(q) |-> q[f[k]]]
         IN s \in Seq(U) /\ Len(s) = Len(q) /\ Ascending(R, s) /\ SameElements(s, q)
<1> DEFINE P == 1..Len(q)
           s == [k \in P |-> q[f[k]]]
<1>1. Len(q) \in Nat /\ (\A i \in P : q[i] \in U) /\ f \in [P -> P]
  BY DEF Sorts
<1>2. s \in Seq(U) /\ Len(s) = Len(q) /\ \A k \in P : s[k] = q[f[k]]
  BY <1>1
<1>3. \A j, k \in P : j < k => Earlier(R, q, f[j], f[k])
  BY DEF Sorts
<1>4. Ascending(R, s)
  <2> SUFFICES ASSUME NEW j \in P, NEW k \in P, j < k PROVE s[j] = s[k] \/ <<s[j], s[k]>> \in R
    BY <1>2 DEF Ascending
  <2>1. s[j] = q[f[j]] /\ s[k] = q[f[k]] /\ s[j] \in U /\ s[k] \in U
    BY <1>1, <1>2
  <2>2. <<s[j], s[k]>> \in R \/ <<s[k], s[j]>> \notin R
    BY <1>3, <2>1 DEF Earlier
  <2> QED BY <2>1, <2>2 DEF Orders
<1>5. ASSUME NEW j \in P, NEW k \in P, f[j] = f[k] PROVE j = k
  <2>1. \A i \in P : ~Earlier(R, q, i, i)
    BY <1>1 DEF Earlier, Orders
  <2>2. ~(j < k) /\ ~(k < j)
    BY <1>1, <1>3, <1>5, <2>1
  <2> QED BY <1>1, <2>2
<1>6. \A i \in P : \E k \in P : f[k] = i
  <2>1. f \in Injection(P, P)
    BY <1>1, <1>5 DEF Injection, IsInjective
  <2>2. IsFiniteSet(P)
    BY <1>1, FS_Interval
  <2>3. f \in Surjection(P, P)
    BY <2>1, <2>2, FS_Injection
  <2> QED BY <2>3 DEF Surjection
<1>7. ASSUME NEW x PROVE Cardinality(PlacesOf(s, x)) = Cardinality(PlacesOf(q, x))
  <2> DEFINE S == PlacesOf(s, x)
             Q == PlacesOf(q, x)
             g == [k \in S |-> f[k]]
  <2>1. S = {k \in P : q[f[k]] = x} /\ Q = {k \in P : q[k] = x}
    BY <1>2 DEF PlacesOf
  <2>2. g \in [S -> Q]
    BY <1>1, <2>1
  <2>3. \A j, k \in S : g[j] = g[k] => j = k
    BY <1>5, <2>1
  <2>4. \A i \in Q : \E k \in S : g[k] = i
    BY <1>6, <2>1
  <2>5. IsFiniteSet(S)
    BY <1>2, PlacesFinite
  <2> HIDE DEF g, S, Q
  <2>6. g \in Bijection(S, Q)
    BY <2>2, <2>3, <2>4 DEF Bijection, Injection, Surjection, IsInjective
  <2>7. ExistsBijection(S, Q)
    BY <2>6 DEF ExistsBijection
  <2>8. Cardinality(Q) = Cardinality(S)
    BY <2>5, <2>7, FS_Bijection
  <2> QED BY <2>8 DEF S, Q
<1> QED BY <1>2, <1>4, <1>7 DEF SameElements

-----------------------------------------------------------------------------
(* Sequences one behind the other.                                         *)

\* f gives what the first n of them make.
Joined(s, n, f) == f = [k \in 1..n |-> IF k = 1 THEN s[k] ELSE f[k - 1] \o s[k]]

\* The recursion of FlattenSeq defines a function.
LEMMA JoinedExists ==
  ASSUME NEW s
  PROVE  \A n \in Nat : \E f : Joined(s, n, f)
<1> DEFINE S == {n \in Nat : \E f : Joined(s, n, f)}
<1>1. 0 \in S
  <2>1. 1..0 = {}
    OBVIOUS
  <2>2. Joined(s, 0, [k \in 1..0 |-> 0])
    BY <2>1 DEF Joined
  <2> QED BY <2>2
<1>2. ASSUME NEW n \in Nat, n \in S PROVE n + 1 \in S
  <2>1. PICK f : Joined(s, n, f)
    BY <1>2
  <2> DEFINE last == IF n = 0 THEN s[1] ELSE f[n] \o s[n + 1]
             g == [k \in 1..(n + 1) |-> IF k = n + 1 THEN last ELSE f[k]]
  <2>2. \A k \in 1..n : f[k] = IF k = 1 THEN s[k] ELSE f[k - 1] \o s[k]
    BY <2>1 DEF Joined
  <2> HIDE DEF last
  <2>3. (\A k \in 1..n : g[k] = f[k]) /\ g[n + 1] = last
    OBVIOUS
  <2>4. g = [k \in 1..(n + 1) |-> g[k]]
    OBVIOUS
  <2> HIDE DEF g
  <2>5. ASSUME NEW k \in 1..(n + 1)
        PROVE  g[k] = IF k = 1 THEN s[k] ELSE g[k - 1] \o s[k]
    <3>1. CASE k = n + 1
      <4>1. CASE n = 0
        BY <2>3, <3>1, <4>1 DEF last
      <4>2. CASE n # 0
        <5>1. n \in 1..n /\ k # 1 /\ k - 1 = n
          BY <3>1, <4>2
        <5>2. g[n] = f[n]
          BY <2>3, <5>1
        <5> QED BY <2>3, <3>1, <4>2, <5>1, <5>2 DEF last
      <4> QED BY <4>1, <4>2
    <3>2. CASE k # n + 1
      <4>1. k \in 1..n /\ (k # 1 => k - 1 \in 1..n)
        BY <3>2
      <4> QED BY <2>2, <2>3, <4>1
    <3> QED BY <3>1, <3>2
  <2>6. Joined(s, n + 1, g)
    BY <2>4, <2>5 DEF Joined
  <2> QED BY <2>6
<1> HIDE DEF S
<1>3. Nat \subseteq S
  BY <1>1, <1>2, Induction
<1> QED BY <1>3 DEF S

\* Nothing joined is nothing; one more goes to the end.
LEMMA Flatten ==
  ASSUME NEW S
  PROVE  /\ FlattenSeq(<<>>) = <<>>
         /\ \A s \in Seq(Seq(S)), t \in Seq(S) :
              s # <<>> => FlattenSeq(Append(s, t)) = FlattenSeq(s) \o t
         /\ \A t \in Seq(S) : FlattenSeq(<<t>>) = t
<1>1. FlattenSeq(<<>>) = <<>>
  BY DEF FlattenSeq
<1> DEFINE F(s) == CHOOSE f : Joined(s, Len(s), f)
<1>2. ASSUME NEW s \in Seq(Seq(S)), s # <<>>
      PROVE  /\ FlattenSeq(s) = F(s)[Len(s)]
             /\ \A k \in 1..Len(s) : F(s)[k] = IF k = 1 THEN s[k] ELSE F(s)[k - 1] \o s[k]
  <2>1. Len(s) \in Nat /\ Len(s) # 0
    BY <1>2, EmptySeq
  <2>2. Joined(s, Len(s), F(s))
    BY <2>1, JoinedExists
  <2>3. FlattenSeq(s) = F(s)[Len(s)]
    BY <2>1 DEF FlattenSeq, Joined
  <2> HIDE DEF F
  <2>4. \A k \in 1..Len(s) : F(s)[k] = IF k = 1 THEN s[k] ELSE F(s)[k - 1] \o s[k]
    BY <2>2 DEF Joined
  <2> QED BY <2>3, <2>4
<1> HIDE DEF F
<1>3. ASSUME NEW s \in Seq(Seq(S)), NEW t \in Seq(S), s # <<>>
      PROVE  FlattenSeq(Append(s, t)) = FlattenSeq(s) \o t
  <2> DEFINE n == Len(s)
             u == Append(s, t)
  <2>1. /\ n \in Nat \ {0} /\ u \in Seq(Seq(S)) /\ u # <<>> /\ Len(u) = n + 1
        /\ \A k \in 1..n : u[k] = s[k]
        /\ u[n + 1] = t
    BY <1>3, EmptySeq, AppendProperties
  <2> HIDE DEF n, u
  <2>2. \A k \in 1..n : F(s)[k] = IF k = 1 THEN s[k] ELSE F(s)[k - 1] \o s[k]
    BY <1>2, <1>3 DEF n
  <2>3. \A k \in 1..(n + 1) : F(u)[k] = IF k = 1 THEN u[k] ELSE F(u)[k - 1] \o u[k]
    BY <1>2, <2>1
  <2> DEFINE A == {k \in Nat : k + 1 \in 1..n => F(u)[k + 1] = F(s)[k + 1]}
  <2>4. 0 \in A
    <3>1. 1 \in 1..n /\ 1 \in 1..(n + 1)
      BY <2>1
    <3>2. F(u)[1] = u[1] /\ F(s)[1] = s[1] /\ u[1] = s[1]
      BY <2>1, <2>2, <2>3, <3>1
    <3> QED BY <3>2
  <2>5. ASSUME NEW k \in Nat, k \in A PROVE k + 1 \in A
    <3> SUFFICES ASSUME (k + 1) + 1 \in 1..n
                 PROVE  F(u)[(k + 1) + 1] = F(s)[(k + 1) + 1]
      OBVIOUS
    <3> DEFINE m == (k + 1) + 1
    <3>1. m \in 1..n /\ m \in 1..(n + 1) /\ m # 1 /\ m - 1 = k + 1 /\ k + 1 \in 1..n
      BY <2>1
    <3>2. F(u)[k + 1] = F(s)[k + 1]
      BY <2>5, <3>1
    <3> HIDE DEF m
    <3>3. F(u)[m] = F(u)[k + 1] \o u[m] /\ F(s)[m] = F(s)[k + 1] \o s[m] /\ u[m] = s[m]
      BY <2>1, <2>2, <2>3, <3>1
    <3>4. F(u)[m] = F(s)[m]
      BY <3>2, <3>3
    <3> QED BY <3>4 DEF m
  <2> HIDE DEF A
  <2>6. Nat \subseteq A
    BY <2>4, <2>5, Induction
  <2>7. F(u)[n] = F(s)[n]
    <3>1. n - 1 \in Nat /\ (n - 1) + 1 = n /\ n \in 1..n
      BY <2>1
    <3> QED BY <2>6, <3>1 DEF A
  <2>8. F(u)[n + 1] = F(u)[n] \o t
    <3>1. n + 1 \in 1..(n + 1) /\ n + 1 # 1 /\ (n + 1) - 1 = n
      BY <2>1
    <3> QED BY <2>1, <2>3, <3>1
  <2>9. FlattenSeq(u) = F(u)[n + 1] /\ FlattenSeq(s) = F(s)[n]
    BY <1>2, <1>3, <2>1 DEF n
  <2> QED BY <2>7, <2>8, <2>9 DEF u
<1>4. ASSUME NEW t \in Seq(S) PROVE FlattenSeq(<<t>>) = t
  <2>1. <<t>> \in Seq(Seq(S)) /\ <<t>> # <<>> /\ Len(<<t>>) = 1 /\ <<t>>[1] = t
    OBVIOUS
  <2>2. FlattenSeq(<<t>>) = F(<<t>>)[1] /\ F(<<t>>)[1] = <<t>>[1]
    BY SMTT(30), <1>2, <2>1
  <2> QED BY <2>1, <2>2
<1> QED BY <1>1, <1>3, <1>4

\* The first n elements of s.
FirstOf(s, n) == [k \in 1..n |-> s[k]]

\* One more element is appended; all of them are the sequence.
LEMMA FirstOfNext ==
  ASSUME NEW T, NEW s \in Seq(T)
  PROVE  /\ FirstOf(s, 0) = <<>>
         /\ FirstOf(s, Len(s)) = s
         /\ \A n \in 0..Len(s) : FirstOf(s, n) \in Seq(T) /\ Len(FirstOf(s, n)) = n
         /\ \A n \in Nat : n + 1 \in 1..Len(s) =>
              FirstOf(s, n + 1) = Append(FirstOf(s, n), s[n + 1])
<1>1. Len(s) \in Nat /\ DOMAIN s = 1..Len(s) /\ \A k \in 1..Len(s) : s[k] \in T
  BY LenProperties, ElementOfSeq
<1>2. FirstOf(s, 0) = <<>>
  <2>1. 1..0 = {}
    OBVIOUS
  <2> QED BY <2>1 DEF FirstOf
<1>3. FirstOf(s, Len(s)) = s
  BY <1>1 DEF FirstOf
<1>4. ASSUME NEW n \in 0..Len(s)
      PROVE  FirstOf(s, n) \in Seq(T) /\ Len(FirstOf(s, n)) = n
  BY <1>1 DEF FirstOf
<1>5. ASSUME NEW n \in Nat, n + 1 \in 1..Len(s)
      PROVE  FirstOf(s, n + 1) = Append(FirstOf(s, n), s[n + 1])
  <2>1. /\ FirstOf(s, n) \in Seq(T) /\ Len(FirstOf(s, n)) = n /\ s[n + 1] \in T
        /\ FirstOf(s, n + 1) \in Seq(T) /\ Len(FirstOf(s, n + 1)) = n + 1
    <3>1. n \in 0..Len(s) /\ n + 1 \in 0..Len(s)
      BY <1>1, <1>5
    <3> QED BY <1>1, <1>4, <1>5, <3>1
  <2>2. /\ Append(FirstOf(s, n), s[n + 1]) \in Seq(T)
        /\ Len(Append(FirstOf(s, n), s[n + 1])) = n + 1
        /\ Append(FirstOf(s, n), s[n + 1])[n + 1] = s[n + 1]
        /\ \A k \in 1..n : Append(FirstOf(s, n), s[n + 1])[k] = FirstOf(s, n)[k]
    BY <2>1, AppendProperties
  <2>3. ASSUME NEW k \in 1..(n + 1)
        PROVE  FirstOf(s, n + 1)[k] = Append(FirstOf(s, n), s[n + 1])[k]
    <3>1. FirstOf(s, n + 1)[k] = s[k]
      BY DEF FirstOf
    <3>2. k \in 1..n \/ k = n + 1
      OBVIOUS
    <3>3. k \in 1..n => FirstOf(s, n)[k] = s[k]
      BY DEF FirstOf
    <3> QED BY <2>2, <3>1, <3>2, <3>3
  <2> QED BY <2>1, <2>2, <2>3, SeqEqual
<1> QED BY <1>2, <1>3, <1>4, <1>5

\* To join n + 1 sequences is to join n of them and to add the next one.
LEMMA FlattenNext ==
  ASSUME NEW S, NEW p \in Seq(Seq(S))
  PROVE  \A n \in 0..Len(p) :
           /\ FlattenSeq(FirstOf(p, n)) \in Seq(S)
           /\ n + 1 <= Len(p) =>
                FlattenSeq(FirstOf(p, n + 1)) = FlattenSeq(FirstOf(p, n)) \o p[n + 1]
<1>1. Len(p) \in Nat /\ \A k \in 1..Len(p) : p[k] \in Seq(S)
  BY LenProperties, ElementOfSeq
<1>2. ASSUME NEW n \in Nat, n + 1 <= Len(p)
      PROVE  FlattenSeq(FirstOf(p, n + 1)) = FlattenSeq(FirstOf(p, n)) \o p[n + 1]
  <2>1. n + 1 \in 1..Len(p) /\ n \in 0..Len(p) /\ p[n + 1] \in Seq(S)
    BY <1>1, <1>2
  <2>2. /\ FirstOf(p, n) \in Seq(Seq(S)) /\ Len(FirstOf(p, n)) = n
        /\ FirstOf(p, n + 1) = Append(FirstOf(p, n), p[n + 1])
    BY <2>1, FirstOfNext
  <2>3. CASE n = 0
    <3>1. FirstOf(p, n) = <<>>
      BY <2>2, <2>3, EmptySeq
    <3>2. FirstOf(p, n + 1) = <<p[n + 1]>>
      BY <2>2, <3>1
    <3>3. FlattenSeq(<<>>) = <<>> /\ FlattenSeq(<<p[n + 1]>>) = p[n + 1]
      BY <2>1, Flatten
    <3>4. <<>> \o p[n + 1] = p[n + 1]
      BY <2>1
    <3> QED BY <3>1, <3>2, <3>3, <3>4
  <2>4. CASE n # 0
    <3>1. FirstOf(p, n) # <<>>
      BY <2>2, <2>4, EmptySeq
    <3> QED BY <2>1, <2>2, <3>1, Flatten
  <2> QED BY <2>3, <2>4
<1> DEFINE A == {n \in Nat : n <= Len(p) => FlattenSeq(FirstOf(p, n)) \in Seq(S)}
<1>3. 0 \in A
  <2>1. FirstOf(p, 0) = <<>> /\ FlattenSeq(<<>>) = <<>> /\ <<>> \in Seq(S)
    BY FirstOfNext, Flatten
  <2> QED BY <2>1
<1>4. ASSUME NEW n \in Nat, n \in A PROVE n + 1 \in A
  <2> SUFFICES ASSUME n + 1 <= Len(p) PROVE FlattenSeq(FirstOf(p, n + 1)) \in Seq(S)
    OBVIOUS
  <2>1. FlattenSeq(FirstOf(p, n)) \in Seq(S) /\ p[n + 1] \in Seq(S)
    BY <1>1, <1>4
  <2>2. FlattenSeq(FirstOf(p, n + 1)) = FlattenSeq(FirstOf(p, n)) \o p[n + 1]
    BY <1>2
  <2> QED BY <2>1, <2>2, ConcatProperties
<1> HIDE DEF A
<1>5. Nat \subseteq A
  BY <1>3, <1>4, Induction
<1>6. \A n \in 0..Len(p) : n \in Nat /\ n <= Len(p)
  BY <1>1
<1>7. \A n \in 0..Len(p) : FlattenSeq(FirstOf(p, n)) \in Seq(S)
  BY <1>5, <1>6 DEF A
<1> QED BY <1>2, <1>6, <1>7

\* Sequences over S that are joined are one over S.
LEMMA FlattenType ==
  ASSUME NEW S, NEW p \in Seq(Seq(S))
  PROVE  FlattenSeq(p) \in Seq(S)
<1>1. Len(p) \in 0..Len(p) /\ FirstOf(p, Len(p)) = p
  BY FirstOfNext, LenProperties
<1> QED BY <1>1, FlattenNext

\* A sequence is what its elements make, one behind the other.
LEMMA FlattenSingles ==
  ASSUME NEW S, NEW s \in Seq(S)
  PROVE  FlattenSeq([k \in 1..Len(s) |-> <<s[k]>>]) = s
<1> DEFINE p == [k \in 1..Len(s) |-> <<s[k]>>]
           A == {n \in Nat : n <= Len(s) => FlattenSeq(FirstOf(p, n)) = FirstOf(s, n)}
<1>1. Len(s) \in Nat /\ \A k \in 1..Len(s) : s[k] \in S
  BY LenProperties, ElementOfSeq
<1>2. p \in Seq(Seq(S)) /\ Len(p) = Len(s) /\ \A k \in 1..Len(s) : p[k] = <<s[k]>>
  BY <1>1
<1> HIDE DEF p
<1>3. 0 \in A
  <2>1. FirstOf(p, 0) = <<>> /\ FirstOf(s, 0) = <<>>
    BY <1>2, FirstOfNext
  <2> QED BY <2>1, Flatten
<1>4. ASSUME NEW n \in Nat, n \in A PROVE n + 1 \in A
  <2> SUFFICES ASSUME n + 1 <= Len(s) PROVE FlattenSeq(FirstOf(p, n + 1)) = FirstOf(s, n + 1)
    OBVIOUS
  <2>1. n \in 0..Len(s) /\ n + 1 \in 1..Len(s) /\ n <= Len(s)
    BY <1>1
  <2>2. FlattenSeq(FirstOf(p, n + 1)) = FirstOf(s, n) \o <<s[n + 1]>>
    BY <1>2, <1>4, <2>1, FlattenNext
  <2>3. FirstOf(s, n + 1) = Append(FirstOf(s, n), s[n + 1]) /\ FirstOf(s, n) \in Seq(S)
    BY <2>1, FirstOfNext
  <2>4. Append(FirstOf(s, n), s[n + 1]) = FirstOf(s, n) \o <<s[n + 1]>>
    BY <1>1, <2>1, <2>3, AppendIsConcat
  <2> QED BY <2>2, <2>3, <2>4
<1> HIDE DEF A
<1>5. Nat \subseteq A
  BY <1>3, <1>4, Induction
<1>6. FirstOf(p, Len(p)) = p /\ FirstOf(s, Len(s)) = s
  BY <1>2, FirstOfNext
<1>7. Len(s) \in A /\ Len(s) <= Len(s)
  BY <1>1, <1>5
<1> QED BY <1>2, <1>6, <1>7 DEF A, p

\* Empty sequences before and behind make no difference to what is joined.
LEMMA FlattenPadded ==
  ASSUME NEW S, NEW p \in Seq(Seq(S)), NEW q \in Seq(Seq(S)), NEW a \in Nat,
         a + Len(q) <= Len(p),
         \A k \in 1..Len(p) : p[k] = IF k \in (a + 1)..(a + Len(q)) THEN q[k - a] ELSE <<>>
  PROVE  FlattenSeq(p) = FlattenSeq(q)
<1> DEFINE m == Len(q)
           M(n) == IF n <= a THEN 0 ELSE IF n <= a + m THEN n - a ELSE m
           P(n) == FlattenSeq(FirstOf(p, n))
           Q(n) == FlattenSeq(FirstOf(q, n))
           A == {n \in Nat : n <= Len(p) => P(n) = Q(M(n))}
<1>1. Len(p) \in Nat /\ m \in Nat
  BY LenProperties
<1>2. P(0) = Q(0)
  BY FirstOfNext
<1>3. \A n \in Nat : n + 1 <= Len(p) => P(n + 1) = P(n) \o p[n + 1] /\ P(n) \in Seq(S)
  <2>1. \A n \in Nat : n + 1 <= Len(p) => n \in 0..Len(p)
    BY <1>1
  <2> QED BY <2>1, FlattenNext
<1>4. \A n \in Nat : n + 1 <= m => Q(n + 1) = Q(n) \o q[n + 1]
  <2>1. \A n \in Nat : n + 1 <= m => n \in 0..m
    BY <1>1
  <2> QED BY <2>1, FlattenNext
<1>5. \A n \in 0..m : Q(n) \in Seq(S)
  BY FlattenNext
<1>6. \A s \in Seq(S) : s \o <<>> = s
  BY ConcatEmptySeq
<1>7. Q(m) = FlattenSeq(q) /\ P(Len(p)) = FlattenSeq(p)
  BY FirstOfNext
<1> HIDE DEF P, Q, m
<1>8. 0 \in A
  BY <1>2
<1>9. ASSUME NEW n \in Nat, n \in A PROVE n + 1 \in A
  <2> SUFFICES ASSUME n + 1 <= Len(p) PROVE P(n + 1) = Q(M(n + 1))
    OBVIOUS
  <2>1. P(n) = Q(M(n)) /\ P(n + 1) = P(n) \o p[n + 1] /\ P(n) \in Seq(S)
    BY <1>1, <1>3, <1>9
  <2>2. CASE n + 1 \in (a + 1)..(a + m)
    <3>1. M(n) = n - a /\ M(n + 1) = (n - a) + 1 /\ n - a \in Nat /\ (n - a) + 1 <= m
      BY <1>1, <2>2
    <3>2. p[n + 1] = q[(n - a) + 1]
      <4>1. n + 1 \in 1..Len(p) /\ (n + 1) - a = (n - a) + 1
        BY <1>1
      <4> QED BY <2>2, <4>1 DEF m
    <3>3. Q((n - a) + 1) = Q(n - a) \o q[(n - a) + 1]
      BY <1>4, <3>1
    <3> HIDE DEF M
    <3> QED BY <2>1, <3>1, <3>2, <3>3
  <2>3. CASE n + 1 \notin (a + 1)..(a + m)
    <3>1. M(n + 1) = M(n)
      BY <1>1, <2>3
    <3>2. p[n + 1] = <<>>
      <4>1. n + 1 \in 1..Len(p)
        BY <1>1
      <4> QED BY <2>3, <4>1 DEF m
    <3> QED BY <1>6, <2>1, <3>1, <3>2
  <2> QED BY <2>2, <2>3
<1> HIDE DEF A
<1>10. Nat \subseteq A
  BY <1>8, <1>9, Induction
<1>11. M(Len(p)) = m
  BY <1>1 DEF m
<1>12. P(Len(p)) = Q(M(Len(p)))
  <2> HIDE DEF M
  <2>1. Len(p) \in A /\ Len(p) <= Len(p)
    BY <1>1, <1>10
  <2> QED BY <2>1 DEF A
<1> QED BY <1>7, <1>11, <1>12
==============================================================================
