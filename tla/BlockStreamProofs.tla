-------------------------- MODULE BlockStreamProofs --------------------------
(***************************************************************************)
(* Proofs about BlockStream for any callers, any blocks and any lengths:   *)
(* the count of the stream is exact, and the stream is the queue of bytes  *)
(* that ByteQueue describes.                                               *)
(*                                                                         *)
(* The invariant is small (IInv).  The work is in the operators: the bytes *)
(* of a sequence of blocks (FlattenSeq) and the sums of their lengths      *)
(* (Ends) are recursive functions, so that what they return is proved by   *)
(* induction on the number of blocks.  From them follows what Split, Peek  *)
(* and Find do to the bytes, whatever the blocks are.                      *)
(***************************************************************************)
EXTENDS BlockStream, SequenceTheorems, WellFoundedInduction, TLAPS

Data == Seq(Nat)

Blocks == Data \ {<<>>}

-----------------------------------------------------------------------------
(* Induction *)

LEMMA LeastElement ==
    ASSUME NEW T \in SUBSET Nat, T # {}
    PROVE  \E x \in T : \A y \in T : x <= y
<1> DEFINE R == OpToRel(<, Nat)
<1>1. IsWellFoundedOn(R, Nat)
  BY NatLessThanWellFounded
<1>2. \A x, y \in Nat : <<y, x>> \in R <=> y < x
  BY DEF OpToRel
<1> HIDE DEF R
<1>3. PICK x \in T : \A y \in T : ~ (<<y, x>> \in R)
  BY <1>1, WFMin
<1>4. \A y \in T : ~ (y < x)
  BY <1>2, <1>3
<1>5. \A y \in T : x <= y
  BY <1>4
<1> QED BY <1>5

\* Induction over a set of numbers.
LEMMA Induction ==
    ASSUME NEW T, 0 \in T, \A n \in Nat : n \in T => n + 1 \in T
    PROVE  Nat \subseteq T
<1> SUFFICES ASSUME Nat \ T # {} PROVE FALSE
  OBVIOUS
<1>1. PICK x \in Nat \ T : \A y \in Nat \ T : x <= y
  BY LeastElement
<1>2. x - 1 \in Nat /\ x - 1 \in T
  BY <1>1
<1>3. (x - 1) + 1 \in T
  BY <1>2
<1> QED BY <1>1, <1>3

-----------------------------------------------------------------------------
(* Sequences *)

\* What a sequence with one more element is.
LEMMA AppendFacts ==
    ASSUME NEW S, NEW s \in Seq(S), NEW x \in S
    PROVE  /\ Append(s, x) \in Seq(S)
           /\ Append(s, x) = s \o <<x>>
           /\ Len(s) \in Nat
           /\ Len(Append(s, x)) = Len(s) + 1
           /\ \A i \in 1 .. Len(s) : Append(s, x)[i] = s[i]
           /\ Append(s, x)[Len(s) + 1] = x
BY AppendProperties, AppendIsConcat, LenProperties

\* A part of a sequence from the front, and the part behind it.
LEMMA PartFacts ==
    ASSUME NEW S, NEW s \in Seq(S), NEW n \in Nat, n <= Len(s)
    PROVE  /\ SubSeq(s, 1, n) \in Seq(S)
           /\ Len(SubSeq(s, 1, n)) = n
           /\ \A i \in 1 .. n : SubSeq(s, 1, n)[i] = s[i]
           /\ SubSeq(s, n + 1, Len(s)) \in Seq(S)
           /\ Len(SubSeq(s, n + 1, Len(s))) = Len(s) - n
           /\ \A i \in 1 .. Len(s) - n : SubSeq(s, n + 1, Len(s))[i] = s[n + i]
           /\ SubSeq(s, 1, n) \o SubSeq(s, n + 1, Len(s)) = s
<1>1. Len(s) \in Nat /\ \A i \in 1 .. Len(s) : s[i] \in S
  BY LenProperties, ElementOfSeq
<1>2. \A i \in 1 .. n : s[i] \in S
  BY <1>1
<1>3. \A i \in n + 1 .. Len(s) : s[i] \in S
  BY <1>1
<1>4. /\ SubSeq(s, 1, n) \in Seq(S)
      /\ Len(SubSeq(s, 1, n)) = IF 1 <= n THEN n - 1 + 1 ELSE 0
      /\ \A i \in 1 .. n - 1 + 1 : SubSeq(s, 1, n)[i] = s[1 + i - 1]
  BY <1>2, SubSeqProperties
<1>5. /\ SubSeq(s, n + 1, Len(s)) \in Seq(S)
      /\ Len(SubSeq(s, n + 1, Len(s))) = IF n + 1 <= Len(s) THEN Len(s) - (n + 1) + 1 ELSE 0
      /\ \A i \in 1 .. Len(s) - (n + 1) + 1 :
            SubSeq(s, n + 1, Len(s))[i] = s[n + 1 + i - 1]
  BY <1>1, <1>3, SubSeqProperties
<1>6. SubSeq(s, 1, n) \o SubSeq(s, n + 1, Len(s)) = SubSeq(s, 1, Len(s))
  <2>1. 1 \in 1 .. Len(s) + 1 /\ n \in 1 - 1 .. Len(s) /\ Len(s) \in n .. Len(s)
    BY <1>1
  <2> QED BY <2>1, ConcatAdjacentSubSeq
<1>7. SubSeq(s, 1, Len(s)) = s
  BY SubSeqFull
<1>8. Len(SubSeq(s, 1, n)) = n /\ \A i \in 1 .. n : SubSeq(s, 1, n)[i] = s[i]
  BY <1>4
<1>9. /\ Len(SubSeq(s, n + 1, Len(s))) = Len(s) - n
      /\ \A i \in 1 .. Len(s) - n : SubSeq(s, n + 1, Len(s))[i] = s[n + i]
  BY <1>1, <1>5
<1> QED BY <1>4, <1>5, <1>6, <1>7, <1>8, <1>9

\* A sequence cut where two others meet.
LEMMA CutConcat ==
    ASSUME NEW S, NEW a \in Seq(S), NEW b \in Seq(S)
    PROVE  /\ SubSeq(a \o b, 1, Len(a)) = a
           /\ SubSeq(a \o b, Len(a) + 1, Len(a \o b)) = b
           /\ a \o b \in Seq(S)
           /\ Len(a) \in Nat
           /\ Len(b) \in Nat
           /\ Len(a \o b) = Len(a) + Len(b)
<1> DEFINE s == a \o b
<1>1. /\ s \in Seq(S)
      /\ Len(s) = Len(a) + Len(b)
      /\ \A i \in 1 .. Len(a) + Len(b) : s[i] = IF i <= Len(a) THEN a[i] ELSE b[i - Len(a)]
      /\ Len(a) \in Nat
      /\ Len(b) \in Nat
  BY ConcatProperties, LenProperties
<1> HIDE DEF s
<1>2. Len(a) <= Len(s)
  BY <1>1
<1>3. /\ SubSeq(s, 1, Len(a)) \in Seq(S)
      /\ Len(SubSeq(s, 1, Len(a))) = Len(a)
      /\ \A i \in 1 .. Len(a) : SubSeq(s, 1, Len(a))[i] = s[i]
      /\ SubSeq(s, Len(a) + 1, Len(s)) \in Seq(S)
      /\ Len(SubSeq(s, Len(a) + 1, Len(s))) = Len(s) - Len(a)
      /\ \A i \in 1 .. Len(s) - Len(a) : SubSeq(s, Len(a) + 1, Len(s))[i] = s[Len(a) + i]
  BY <1>1, <1>2, PartFacts
<1>4. SubSeq(s, 1, Len(a)) = a
  <2>1. \A i \in 1 .. Len(a) : SubSeq(s, 1, Len(a))[i] = a[i]
    BY <1>1, <1>3
  <2> QED BY <1>3, <2>1, SeqEqual
<1>5. SubSeq(s, Len(a) + 1, Len(s)) = b
  <2>1. \A i \in 1 .. Len(b) : s[Len(a) + i] = b[i]
    <3> TAKE i \in 1 .. Len(b)
    <3>1. Len(a) + i \in 1 .. Len(a) + Len(b) /\ ~ (Len(a) + i <= Len(a))
      BY <1>1
    <3>2. (Len(a) + i) - Len(a) = i
      BY <1>1
    <3> QED BY <1>1, <3>1, <3>2
  <2>2. Len(s) - Len(a) = Len(b)
    BY <1>1
  <2>3. \A i \in 1 .. Len(b) : SubSeq(s, Len(a) + 1, Len(s))[i] = b[i]
    BY <1>3, <2>1, <2>2
  <2>4. Len(SubSeq(s, Len(a) + 1, Len(s))) = Len(b)
    BY <1>3, <2>2
  <2> QED BY <1>3, <2>3, <2>4, SeqEqual
<1> QED BY <1>1, <1>4, <1>5 DEF s

\* Bytes that are joined.
LEMMA DataFacts ==
    ASSUME NEW a \in Data, NEW b \in Data
    PROVE  /\ a \o b \in Data
           /\ Len(a) \in Nat
           /\ Len(b) \in Nat
           /\ Len(a \o b) = Len(a) + Len(b)
           /\ a \o <<>> = a
           /\ <<>> \o a = a
           /\ <<>> \in Data
BY ConcatProperties, ConcatEmptySeq, LenProperties, EmptySeq DEF Data

LEMMA DataAssociative == \A a, b, c \in Data : (a \o b) \o c = a \o (b \o c)
<1> USE DEF Data
<1> TAKE a, b, c \in Seq(Nat)
<1> QED BY ConcatAssociative

LEMMA BlocksAssociative == \A a, b, c \in Seq(Data) : (a \o b) \o c = a \o (b \o c)
<1> TAKE a, b, c \in Seq(Data)
<1> QED BY ConcatAssociative

\* What comes before a suffix.
LEMMA IsPrefixOfConcat ==
    ASSUME NEW S, NEW a \in Seq(S), NEW b \in Seq(S)
    PROVE  IsPrefix(a, a \o b)
<1>1. /\ Len(a) <= Len(a \o b)
      /\ SubSeq(a \o b, 1, Len(a)) = a
      /\ SubSeq(a, 1, Len(a)) = a
  BY CutConcat, SubSeqFull
<1> QED BY <1>1 DEF IsPrefix

LEMMA IsSuffixOfConcat ==
    ASSUME NEW S, NEW a \in Seq(S), NEW b \in Seq(S)
    PROVE  IsSuffix(b, a \o b)
<1> DEFINE s == a \o b
           x == Reverse(b)
           y == Reverse(s)
<1>1. /\ s \in Seq(S)
      /\ Len(s) = Len(a) + Len(b)
      /\ \A i \in 1 .. Len(a) + Len(b) : s[i] = IF i <= Len(a) THEN a[i] ELSE b[i - Len(a)]
      /\ Len(a) \in Nat
      /\ Len(b) \in Nat
      /\ \A i \in 1 .. Len(b) : b[i] \in S
      /\ \A i \in 1 .. Len(s) : s[i] \in S
  BY ConcatProperties, LenProperties, ElementOfSeq
<1> HIDE DEF s
<1>2. x \in Seq(S) /\ Len(x) = Len(b) /\ \A i \in 1 .. Len(b) : x[i] = b[(Len(b) - i) + 1]
  <2>1. x = [i \in 1 .. Len(b) |-> b[(Len(b) - i) + 1]]
    BY DEF Reverse
  <2>2. \A i \in 1 .. Len(b) : (Len(b) - i) + 1 \in 1 .. Len(b)
    BY <1>1
  <2>3. x \in [1 .. Len(b) -> S]
    BY <1>1, <2>1, <2>2
  <2>4. x \in Seq(S)
    BY <1>1, <2>3, SeqDef
  <2>5. Len(x) = Len(b)
    BY <1>1, <2>1
  <2> QED BY <2>1, <2>4, <2>5
<1>3. y \in Seq(S) /\ Len(y) = Len(s) /\ \A i \in 1 .. Len(s) : y[i] = s[(Len(s) - i) + 1]
  <2>0. Len(s) \in Nat
    BY <1>1
  <2>1. y = [i \in 1 .. Len(s) |-> s[(Len(s) - i) + 1]]
    BY DEF Reverse
  <2>2. \A i \in 1 .. Len(s) : (Len(s) - i) + 1 \in 1 .. Len(s)
    BY <2>0
  <2>3. y \in [1 .. Len(s) -> S]
    BY <1>1, <2>1, <2>2
  <2>4. y \in Seq(S)
    BY <2>0, <2>3, SeqDef
  <2>5. Len(y) = Len(s)
    BY <2>0, <2>1
  <2> QED BY <2>1, <2>4, <2>5
<1> HIDE DEF x, y
<1>4. \A i \in 1 .. Len(b) : x[i] = y[i]
  <2> TAKE i \in 1 .. Len(b)
  <2> DEFINE k == (Len(s) - i) + 1
  <2>1. i \in 1 .. Len(s) /\ k \in 1 .. Len(a) + Len(b) /\ ~ (k <= Len(a))
    BY <1>1
  <2>2. k - Len(a) = (Len(b) - i) + 1
    BY <1>1
  <2>3. y[i] = s[k]
    BY <1>3, <2>1
  <2> HIDE DEF k
  <2>4. s[k] = b[k - Len(a)]
    BY <1>1, <2>1
  <2> QED BY <1>2, <2>2, <2>3, <2>4
<1>5. Len(b) <= Len(y)
  BY <1>1, <1>3
<1>6. /\ SubSeq(y, 1, Len(b)) \in Seq(S)
      /\ Len(SubSeq(y, 1, Len(b))) = Len(b)
      /\ \A i \in 1 .. Len(b) : SubSeq(y, 1, Len(b))[i] = y[i]
  BY <1>1, <1>3, <1>5, PartFacts
<1>7. SubSeq(y, 1, Len(b)) = x
  BY <1>2, <1>4, <1>6, SeqEqual
<1>8. SubSeq(x, 1, Len(b)) = x
  BY <1>2, SubSeqFull
<1> QED BY <1>2, <1>5, <1>7, <1>8 DEF IsSuffix, IsPrefix, x, y, s

-----------------------------------------------------------------------------
(* The bytes of a sequence of blocks *)

IsFlattening(f, n, q) ==
    f = [i \in 1 .. n |-> IF i = 1 THEN q[i] ELSE f[i - 1] \o q[i]]

LEMMA FlatteningExists ==
    ASSUME NEW q, NEW n \in Nat
    PROVE  \E f : IsFlattening(f, n, q)
<1> DEFINE T == {m \in Nat : \E f : IsFlattening(f, m, q)}
<1>1. 0 \in T
  <2>1. IsFlattening([i \in 1 .. 0 |-> 0], 0, q)
    BY DEF IsFlattening
  <2> QED BY <2>1
<1>2. ASSUME NEW m \in Nat, m \in T
      PROVE  m + 1 \in T
  <2>1. PICK f : IsFlattening(f, m, q)
    BY <1>2
  <2> DEFINE g == [i \in 1 .. m + 1 |->
                      IF i = m + 1 THEN IF m = 0 THEN q[1] ELSE f[m] \o q[m + 1]
                      ELSE f[i]]
             h == [i \in 1 .. m + 1 |-> IF i = 1 THEN q[i] ELSE g[i - 1] \o q[i]]
  <2>2. ASSUME NEW i \in 1 .. m + 1
        PROVE  g[i] = h[i]
    <3>1. CASE i = m + 1
      <4>1. CASE m = 0
        BY <3>1, <4>1
      <4>2. CASE m # 0
        <5>1. m \in 1 .. m + 1 /\ m # m + 1 /\ i # 1 /\ i - 1 = m
          BY <3>1, <4>2
        <5>2. g[m] = f[m]
          BY <5>1
        <5> QED BY <3>1, <4>2, <5>1, <5>2
      <4> QED BY <4>1, <4>2
    <3>2. CASE i # m + 1
      <4>1. i \in 1 .. m
        BY <3>2
      <4>2. f[i] = IF i = 1 THEN q[i] ELSE f[i - 1] \o q[i]
        BY <2>1, <4>1 DEF IsFlattening
      <4>3. CASE i = 1
        BY <3>2, <4>2, <4>3
      <4>4. CASE i # 1
        <5>1. i - 1 \in 1 .. m + 1 /\ i - 1 # m + 1
          BY <4>1, <4>4
        <5>2. g[i - 1] = f[i - 1]
          BY <5>1
        <5> QED BY <3>2, <4>2, <4>4, <5>2
      <4> QED BY <4>3, <4>4
    <3> QED BY <3>1, <3>2
  <2>3. g = h
    BY <2>2
  <2>4. IsFlattening(g, m + 1, q)
    <3>1. h = [i \in 1 .. m + 1 |-> IF i = 1 THEN q[i] ELSE g[i - 1] \o q[i]]
      OBVIOUS
    <3> HIDE DEF g, h
    <3> QED BY <2>3, <3>1 DEF IsFlattening
  <2> QED BY <2>4
<1> HIDE DEF T
<1>3. Nat \subseteq T
  BY <1>1, <1>2, Induction
<1> QED BY <1>3 DEF T

\* FlattenSeq is what its recursive function computes.
LEMMA FlattenFacts ==
    ASSUME NEW S, NEW q \in Seq(S), Len(q) # 0
    PROVE  \E f : IsFlattening(f, Len(q), q) /\ FlattenSeq(q) = f[Len(q)]
<1> DEFINE flatten[i \in 1 .. Len(q)] == IF i = 1 THEN q[i] ELSE flatten[i - 1] \o q[i]
<1>1. \E f : IsFlattening(f, Len(q), q)
  BY FlatteningExists, LenProperties
<1>2. FlattenSeq(q) = flatten[Len(q)]
  BY DEF FlattenSeq
<1>3. IsFlattening(flatten, Len(q), q)
  BY <1>1 DEF IsFlattening
<1> QED BY <1>2, <1>3

LEMMA FlatteningStep ==
    ASSUME NEW f, NEW q, NEW n \in Nat, IsFlattening(f, n, q)
    PROVE  /\ n >= 1 => f[1] = q[1]
           /\ \A i \in 1 .. n : i + 1 <= n => f[i + 1] = f[i] \o q[i + 1]
<1>1. \A k \in 1 .. n : f[k] = IF k = 1 THEN q[k] ELSE f[k - 1] \o q[k]
  BY DEF IsFlattening
<1>2. n >= 1 => f[1] = q[1]
  BY <1>1
<1>3. ASSUME NEW i \in 1 .. n, i + 1 <= n
      PROVE  f[i + 1] = f[i] \o q[i + 1]
  <2> DEFINE k == i + 1
  <2>1. k \in 1 .. n /\ k # 1 /\ k - 1 = i
    BY <1>3
  <2> HIDE DEF k
  <2>2. f[k] = f[i] \o q[k]
    BY <1>1, <2>1
  <2> QED BY <2>2 DEF k
<1> QED BY <1>2, <1>3

\* It looks at the first blocks only.
LEMMA FlatteningUnique ==
    ASSUME NEW f, NEW g, NEW m \in Nat, NEW n \in Nat, m <= n, NEW q, NEW r,
           IsFlattening(f, m, q), IsFlattening(g, n, r),
           \A i \in 1 .. m : q[i] = r[i]
    PROVE  \A i \in 1 .. m : f[i] = g[i]
<1> DEFINE T == {i \in Nat : i \in 1 .. m => f[i] = g[i]}
<1>0. /\ m >= 1 => f[1] = q[1]
      /\ n >= 1 => g[1] = r[1]
      /\ \A i \in 1 .. m : i + 1 <= m => f[i + 1] = f[i] \o q[i + 1]
      /\ \A i \in 1 .. n : i + 1 <= n => g[i + 1] = g[i] \o r[i + 1]
  BY FlatteningStep
<1>1. 0 \in T
  OBVIOUS
<1>2. ASSUME NEW i \in Nat, i \in T
      PROVE  i + 1 \in T
  <2> SUFFICES ASSUME i + 1 \in 1 .. m PROVE f[i + 1] = g[i + 1]
    OBVIOUS
  <2>1. q[i + 1] = r[i + 1]
    OBVIOUS
  <2>2. CASE i = 0
    <3>1. i + 1 = 1 /\ m >= 1 /\ n >= 1
      BY <2>2
    <3>2. f[1] = q[1] /\ g[1] = r[1]
      BY ONLY <1>0, <3>1
    <3> QED BY ONLY <2>1, <3>1, <3>2
  <2>3. CASE i # 0
    <3>1. i \in 1 .. m /\ i \in 1 .. n /\ i + 1 <= m /\ i + 1 <= n
      BY <2>3
    <3>2. f[i] = g[i]
      BY <1>2, <3>1
    <3>3. f[i + 1] = f[i] \o q[i + 1] /\ g[i + 1] = g[i] \o r[i + 1]
      BY ONLY <1>0, <3>1
    <3> QED BY ONLY <2>1, <3>2, <3>3
  <2> QED BY <2>2, <2>3
<1> HIDE DEF T
<1>3. Nat \subseteq T
  BY <1>1, <1>2, Induction
<1> QED BY <1>3 DEF T

LEMMA FlatEmpty == FlattenSeq(<<>>) = <<>>
BY DEF FlattenSeq

\* One block more at the end.
LEMMA FlatAppend ==
    ASSUME NEW q \in Seq(Data), NEW b \in Data
    PROVE  FlattenSeq(Append(q, b)) = FlattenSeq(q) \o b
<1> DEFINE r == Append(q, b)
           m == Len(q)
           n == m + 1
<1>1. /\ r \in Seq(Data)
      /\ m \in Nat
      /\ n \in Nat
      /\ m <= n
      /\ Len(r) = n
      /\ \A i \in 1 .. m : q[i] = r[i]
      /\ r[n] = b
  BY AppendFacts
<1>2. /\ m # 0 => m \in 1 .. n /\ m \in 1 .. m
      /\ m = 0 => n = 1
      /\ n >= 1
      /\ n = m + 1
  BY <1>1
<1> HIDE DEF r, n
<1>3. PICK g : IsFlattening(g, n, r) /\ FlattenSeq(r) = g[n]
  <2>1. Len(r) # 0
    BY <1>1, <1>2
  <2> QED BY <1>1, <2>1, FlattenFacts
<1>4. CASE m = 0
  <2>1. q = <<>>
    BY <1>4, EmptySeq
  <2>2. <<>> \o b = b
    BY ConcatEmptySeq DEF Data
  <2>3. n = 1 /\ g[1] = r[1]
    BY <1>1, <1>2, <1>3, <1>4, FlatteningStep
  <2> QED BY <1>1, <1>3, <2>1, <2>2, <2>3, FlatEmpty DEF r
<1>5. CASE m # 0
  <2>1. PICK f : IsFlattening(f, m, q) /\ FlattenSeq(q) = f[m]
    BY <1>5, FlattenFacts
  <2> HIDE DEF m
  <2>2. g[n] = g[m] \o r[n]
    <3>1. m \in 1 .. n /\ m + 1 <= n
      BY <1>1, <1>2, <1>5
    <3>2. g[m + 1] = g[m] \o r[m + 1]
      BY <1>1, <1>3, <3>1, FlatteningStep
    <3> QED BY <1>2, <3>2
  <2>3. \A i \in 1 .. m : f[i] = g[i]
    BY <1>1, <1>3, <2>1, FlatteningUnique
  <2> QED BY <1>1, <1>2, <1>3, <1>5, <2>1, <2>2, <2>3 DEF r, m
<1> QED BY <1>4, <1>5

\* Blocks that are more than none: some, and a last one.
LEMMA LastBlock ==
    ASSUME NEW q \in Seq(Data), NEW n \in Nat, Len(q) = n + 1
    PROVE  \E p \in Seq(Data), b \in Data : q = Append(p, b) /\ Len(p) = n
<1>1. q # <<>>
  BY EmptySeq
<1>2. PICK p \in Seq(Data), b \in Data : q = Append(p, b)
  BY <1>1, SequenceEmptyOrAppend
<1>3. Len(p) \in Nat /\ Len(q) = Len(p) + 1
  BY <1>2, AppendFacts
<1>4. Len(p) = n
  BY <1>3
<1> QED BY <1>2, <1>4

LEMMA FlatType ==
    ASSUME NEW q \in Seq(Data)
    PROVE  FlattenSeq(q) \in Data
<1> DEFINE T == {n \in Nat : \A r \in Seq(Data) : Len(r) = n => FlattenSeq(r) \in Data}
<1>1. 0 \in T
  <2>1. <<>> \in Data
    BY EmptySeq DEF Data
  <2> QED BY <2>1, EmptySeq, FlatEmpty
<1>2. ASSUME NEW n \in Nat, n \in T
      PROVE  n + 1 \in T
  <2> SUFFICES ASSUME NEW r \in Seq(Data), Len(r) = n + 1
               PROVE  FlattenSeq(r) \in Data
    OBVIOUS
  <2>1. PICK p \in Seq(Data), b \in Data : r = Append(p, b) /\ Len(p) = n
    BY LastBlock
  <2>2. FlattenSeq(p) \in Data
    BY <1>2, <2>1
  <2>3. FlattenSeq(p) \o b \in Data
    BY <2>2, ConcatProperties DEF Data
  <2> QED BY <2>1, <2>3, FlatAppend
<1> HIDE DEF T
<1>3. Nat \subseteq T
  BY <1>1, <1>2, Induction
<1> QED BY <1>3, LenProperties DEF T

\* The bytes of some blocks and others.
LEMMA FlatConcat ==
    ASSUME NEW q \in Seq(Data), NEW r \in Seq(Data)
    PROVE  FlattenSeq(q \o r) = FlattenSeq(q) \o FlattenSeq(r)
<1> DEFINE T == {n \in Nat : \A s \in Seq(Data) : Len(s) = n =>
                    FlattenSeq(q \o s) = FlattenSeq(q) \o FlattenSeq(s)}
<1>1. 0 \in T
  <2>1. q \o <<>> = q
    BY ConcatEmptySeq
  <2>2. FlattenSeq(q) \o <<>> = FlattenSeq(q)
    BY FlatType, ConcatEmptySeq DEF Data
  <2> QED BY <2>1, <2>2, EmptySeq, FlatEmpty
<1>2. ASSUME NEW n \in Nat, n \in T
      PROVE  n + 1 \in T
  <2> SUFFICES ASSUME NEW s \in Seq(Data), Len(s) = n + 1
               PROVE  FlattenSeq(q \o s) = FlattenSeq(q) \o FlattenSeq(s)
    OBVIOUS
  <2>1. PICK p \in Seq(Data), b \in Data : s = Append(p, b) /\ Len(p) = n
    BY LastBlock
  <2>2. q \o Append(p, b) = Append(q \o p, b) /\ q \o p \in Seq(Data)
    <3>1. <<b>> \in Seq(Data)
      OBVIOUS
    <3>2. q \o p \in Seq(Data)
      BY ConcatProperties
    <3>3. (q \o p) \o <<b>> = q \o (p \o <<b>>)
      BY <3>1, ConcatAssociative
    <3> QED BY <3>2, <3>3, AppendIsConcat
  <2>3. FlattenSeq(Append(q \o p, b)) = FlattenSeq(q \o p) \o b
    BY <2>2, FlatAppend
  <2>4. FlattenSeq(q \o p) = FlattenSeq(q) \o FlattenSeq(p)
    BY <1>2, <2>1
  <2>5. (FlattenSeq(q) \o FlattenSeq(p)) \o b = FlattenSeq(q) \o (FlattenSeq(p) \o b)
    <3>1. FlattenSeq(q) \in Data /\ FlattenSeq(p) \in Data
      BY FlatType
    <3> QED BY ONLY <3>1, b \in Data, DataAssociative, Zenon
  <2> QED BY <2>1, <2>2, <2>3, <2>4, <2>5, FlatAppend
<1> HIDE DEF T
<1>3. Nat \subseteq T
  BY <1>1, <1>2, Induction
<1> QED BY <1>3, LenProperties DEF T

LEMMA FlatSingle ==
    ASSUME NEW b \in Data
    PROVE  FlattenSeq(<<b>>) = b
<1>1. <<>> \in Seq(Data) /\ Append(<<>>, b) = <<b>>
  BY EmptySeq
<1>2. FlattenSeq(Append(<<>>, b)) = FlattenSeq(<<>>) \o b
  BY <1>1, FlatAppend
<1>3. <<>> \o b = b
  BY ConcatEmptySeq DEF Data
<1> QED BY <1>1, <1>2, <1>3, FlatEmpty

-----------------------------------------------------------------------------
(* The loops *)

IsSums(f, n, q) ==
    f = [k \in 0 .. n |-> IF k = 0 THEN 0 ELSE f[k - 1] + Len(q[k])]

LEMMA SumsExist ==
    ASSUME NEW q, NEW n \in Nat
    PROVE  \E f : IsSums(f, n, q)
<1> DEFINE T == {m \in Nat : \E f : IsSums(f, m, q)}
<1>1. 0 \in T
  <2>1. IsSums([k \in 0 .. 0 |-> 0], 0, q)
    BY DEF IsSums
  <2> QED BY <2>1
<1>2. ASSUME NEW m \in Nat, m \in T
      PROVE  m + 1 \in T
  <2>1. PICK f : IsSums(f, m, q)
    BY <1>2
  <2> DEFINE g == [k \in 0 .. m + 1 |-> IF k = m + 1 THEN f[m] + Len(q[m + 1]) ELSE f[k]]
             h == [k \in 0 .. m + 1 |-> IF k = 0 THEN 0 ELSE g[k - 1] + Len(q[k])]
  <2>2. ASSUME NEW k \in 0 .. m + 1
        PROVE  g[k] = h[k]
    <3>1. CASE k = m + 1
      <4>1. m \in 0 .. m + 1 /\ m # m + 1 /\ k # 0 /\ k - 1 = m
        BY <3>1
      <4>2. g[m] = f[m]
        BY <4>1
      <4> QED BY <3>1, <4>1, <4>2
    <3>2. CASE k # m + 1
      <4>1. k \in 0 .. m
        BY <3>2
      <4>2. f[k] = IF k = 0 THEN 0 ELSE f[k - 1] + Len(q[k])
        BY <2>1, <4>1 DEF IsSums
      <4>3. CASE k = 0
        BY <3>2, <4>2, <4>3
      <4>4. CASE k # 0
        <5>1. k - 1 \in 0 .. m + 1 /\ k - 1 # m + 1
          BY <4>1, <4>4
        <5>2. g[k - 1] = f[k - 1]
          BY <5>1
        <5> QED BY <3>2, <4>2, <4>4, <5>2
      <4> QED BY <4>3, <4>4
    <3> QED BY <3>1, <3>2
  <2>3. g = h
    BY <2>2
  <2>4. IsSums(g, m + 1, q)
    <3>1. h = [k \in 0 .. m + 1 |-> IF k = 0 THEN 0 ELSE g[k - 1] + Len(q[k])]
      OBVIOUS
    <3> HIDE DEF g, h
    <3> QED BY <2>3, <3>1 DEF IsSums
  <2> QED BY <2>4
<1> HIDE DEF T
<1>3. Nat \subseteq T
  BY <1>1, <1>2, Induction
<1> QED BY <1>3 DEF T

LEMMA EndsFacts ==
    ASSUME NEW q \in Seq(Data)
    PROVE  /\ Ends(q)[0] = 0
           /\ \A k \in 1 .. Len(q) : Ends(q)[k] = Ends(q)[k - 1] + Len(q[k])
<1> DEFINE pos[k \in 0 .. Len(q)] == IF k = 0 THEN 0 ELSE pos[k - 1] + Len(q[k])
<1>1. Ends(q) = pos
  BY DEF Ends
<1>2. Len(q) \in Nat
  BY LenProperties
<1>3. \E f : IsSums(f, Len(q), q)
  BY <1>2, SumsExist
<1>4. IsSums(pos, Len(q), q)
  BY <1>3 DEF IsSums
<1> HIDE DEF pos
<1>5. 0 \in 0 .. Len(q) /\ \A k \in 1 .. Len(q) : k \in 0 .. Len(q) /\ k # 0
  BY <1>2
<1>6. pos[0] = 0 /\ \A k \in 1 .. Len(q) : pos[k] = pos[k - 1] + Len(q[k])
  BY <1>4, <1>5 DEF IsSums
<1> QED BY <1>1, <1>6

\* The loops add up the bytes of the blocks.
LEMMA EndsCount ==
    ASSUME NEW q \in Seq(Data), NEW k \in 0 .. Len(q)
    PROVE  Ends(q)[k] = Len(FlattenSeq(SubSeq(q, 1, k)))
<1>0. Len(q) \in Nat
  BY LenProperties
<1> DEFINE T == {n \in Nat : n <= Len(q) => Ends(q)[n] = Len(FlattenSeq(SubSeq(q, 1, n)))}
<1>1. 0 \in T
  <2>1. SubSeq(q, 1, 0) = <<>>
    BY SubSeqEmpty
  <2>2. Len(FlattenSeq(<<>>)) = 0
    BY FlatEmpty, EmptySeq
  <2> QED BY <2>1, <2>2, EndsFacts
<1>2. ASSUME NEW n \in Nat, n \in T
      PROVE  n + 1 \in T
  <2> SUFFICES ASSUME n + 1 <= Len(q)
               PROVE  Ends(q)[n + 1] = Len(FlattenSeq(SubSeq(q, 1, n + 1)))
    OBVIOUS
  <2>1. n + 1 \in 1 .. Len(q) /\ 1 \in 1 .. Len(q) /\ n + 1 \in 1 .. Len(q)
    BY <1>0
  <2>2. q[n + 1] \in Data
    BY <2>1, ElementOfSeq
  <2>3. SubSeq(q, 1, n) \in Seq(Data) /\ n <= Len(q)
    BY <1>0, PartFacts
  <2>4. SubSeq(q, 1, n + 1) = SubSeq(q, 1, n) \o <<q[n + 1]>>
    <3>1. SubSeq(q, 1, n + 1) = SubSeq(q, 1, n + 1 - 1) \o <<q[n + 1]>>
      BY <2>1, SubSeqRecursiveSecond
    <3>2. n + 1 - 1 = n
      OBVIOUS
    <3> QED BY <3>1, <3>2
  <2>5. FlattenSeq(SubSeq(q, 1, n + 1)) = FlattenSeq(SubSeq(q, 1, n)) \o q[n + 1]
    BY <2>2, <2>3, <2>4, AppendIsConcat, FlatAppend
  <2>6. Len(FlattenSeq(SubSeq(q, 1, n + 1)))
           = Len(FlattenSeq(SubSeq(q, 1, n))) + Len(q[n + 1])
    <3>1. FlattenSeq(SubSeq(q, 1, n)) \in Data
      BY <2>3, FlatType
    <3>2. Len(FlattenSeq(SubSeq(q, 1, n)) \o q[n + 1])
             = Len(FlattenSeq(SubSeq(q, 1, n))) + Len(q[n + 1])
      BY ONLY <2>2, <3>1, DataFacts, Zenon
    <3> QED BY <2>5, <3>2
  <2>7. Ends(q)[n + 1] = Ends(q)[n] + Len(q[n + 1])
    <3>1. n + 1 - 1 = n
      OBVIOUS
    <3> QED BY <2>1, <3>1, EndsFacts
  <2> QED BY <1>2, <2>3, <2>6, <2>7
<1> HIDE DEF T
<1>3. Nat \subseteq T
  BY <1>1, <1>2, Induction
<1>4. k \in Nat /\ k <= Len(q)
  BY <1>0
<1> QED BY <1>3, <1>4 DEF T

LEMMA EndsTotal ==
    ASSUME NEW q \in Seq(Data)
    PROVE  /\ \A k \in 0 .. Len(q) : Ends(q)[k] \in Nat
           /\ Ends(q)[Len(q)] = Len(FlattenSeq(q))
<1>0. Len(q) \in Nat
  BY LenProperties
<1>1. ASSUME NEW k \in 0 .. Len(q)
      PROVE  Ends(q)[k] \in Nat
  <2>1. SubSeq(q, 1, k) \in Seq(Data)
    BY <1>0, PartFacts
  <2>2. FlattenSeq(SubSeq(q, 1, k)) \in Data
    BY <2>1, FlatType
  <2> QED BY <2>2, EndsCount, DataFacts
<1>2. Ends(q)[Len(q)] = Len(FlattenSeq(SubSeq(q, 1, Len(q))))
  <2>1. Len(q) \in 0 .. Len(q)
    BY <1>0
  <2> QED BY <2>1, EndsCount
<1> QED BY <1>1, <1>2, SubSeqFull

\* The loops end, if the bytes are there.
LEMMA PassedFacts ==
    ASSUME NEW q \in Seq(Data), NEW n \in Nat, n <= Len(FlattenSeq(q))
    PROVE  /\ Passed(q, n) \in 0 .. Len(q)
           /\ n <= Ends(q)[Passed(q, n)]
           /\ Passed(q, n) > 0 => Ends(q)[Passed(q, n) - 1] < n
<1>0. Len(q) \in Nat
  BY LenProperties
<1> DEFINE T == {k \in 0 .. Len(q) : n <= Ends(q)[k]}
<1>1. T \in SUBSET Nat /\ T # {}
  <2>1. Len(q) \in 0 .. Len(q)
    BY <1>0
  <2>2. n <= Ends(q)[Len(q)]
    BY EndsTotal
  <2> QED BY <2>1, <2>2
<1>2. PICK x \in T : \A y \in T : x <= y
  BY <1>1, LeastElement
<1>3. x > 0 => Ends(q)[x - 1] < n
  <2> SUFFICES ASSUME x > 0 PROVE Ends(q)[x - 1] < n
    OBVIOUS
  <2>1. x - 1 \in 0 .. Len(q) /\ ~ (x <= x - 1)
    BY <1>0, <1>2
  <2>2. x - 1 \notin T
    BY <1>2, <2>1
  <2>3. Ends(q)[x - 1] \in Nat
    BY <2>1, EndsTotal
  <2> QED BY <2>1, <2>2, <2>3
<1>4. \E k \in 0 .. Len(q) : n <= Ends(q)[k] /\ (k > 0 => Ends(q)[k - 1] < n)
  BY <1>2, <1>3
<1> QED BY <1>4 DEF Passed

LEMMA BlocksAreData ==
    /\ Blocks \subseteq Data
    /\ Seq(Blocks) \subseteq Seq(Data)
BY SeqMonotonic DEF Blocks

LEMMA BlockFacts ==
    ASSUME NEW b \in Data
    PROVE  Len(b) \in Nat /\ (b \in Blocks <=> Len(b) > 0)
BY LenProperties, EmptySeq DEF Blocks, Data

\* Where n bytes from the front end: in a block, behind some and before others.
Before(q, n) == SubSeq(q, 1, Passed(q, n) - 1)
Left(q, n) == SubSeq(q, Passed(q, n) + 1, Len(q))
Cut(q, n) == n - Ends(q)[Passed(q, n) - 1]

LEMMA Whereabouts ==
    ASSUME NEW q \in Seq(Blocks), NEW n \in Nat, n > 0, n <= Len(FlattenSeq(q))
    PROVE  /\ Passed(q, n) \in 1 .. Len(q)
           /\ q[Passed(q, n)] \in Blocks
           /\ Before(q, n) \in Seq(Blocks)
           /\ Len(Before(q, n)) = Passed(q, n) - 1
           /\ Left(q, n) \in Seq(Blocks)
           /\ FlattenSeq(Before(q, n)) \in Data
           /\ FlattenSeq(Left(q, n)) \in Data
           /\ FlattenSeq(q) = FlattenSeq(Before(q, n)) \o (q[Passed(q, n)] \o FlattenSeq(Left(q, n)))
           /\ Len(FlattenSeq(Before(q, n))) = Ends(q)[Passed(q, n) - 1]
           /\ Ends(q)[Passed(q, n) - 1] \in Nat
           /\ Cut(q, n) \in 1 .. Len(q[Passed(q, n)])
           /\ n = Len(FlattenSeq(Before(q, n))) + Cut(q, n)
<1> DEFINE last == Passed(q, n)
           cut == Cut(q, n)
           before == Before(q, n)
           left == Left(q, n)
<1> USE DEF Before, Left, Cut
<1>0. Len(q) \in Nat /\ q \in Seq(Data)
  BY LenProperties, BlocksAreData
<1>1. /\ last \in 0 .. Len(q)
      /\ n <= Ends(q)[last]
      /\ last > 0 => Ends(q)[last - 1] < n
  BY <1>0, PassedFacts
<1>2. last # 0
  <2> SUFFICES ASSUME last = 0 PROVE FALSE
    OBVIOUS
  <2>1. Ends(q)[0] = 0
    BY <1>0, EndsFacts
  <2>2. n <= Ends(q)[0]
    BY <1>1
  <2> QED BY <2>1, <2>2
<1>3. last \in 1 .. Len(q) /\ last - 1 \in 0 .. Len(q) /\ last - 1 \in Nat /\ last - 1 <= Len(q)
  BY <1>0, <1>1, <1>2
<1>4. q[last] \in Blocks /\ q[last] \in Data /\ Len(q[last]) \in Nat
  BY <1>3, ElementOfSeq, BlocksAreData, BlockFacts
<1>5. Ends(q)[last] = Ends(q)[last - 1] + Len(q[last]) /\ Ends(q)[last - 1] \in Nat
  BY <1>0, <1>3, EndsFacts, EndsTotal
<1>6. cut \in 1 .. Len(q[last])
  <2> DEFINE e == Ends(q)[last - 1]
             l == Len(q[last])
  <2>1. e \in Nat /\ l \in Nat /\ n <= e + l /\ e < n /\ cut = n - e
    BY <1>1, <1>3, <1>4, <1>5
  <2> HIDE DEF e, l
  <2>2. cut \in 1 .. l
    BY <2>1
  <2> QED BY <2>2 DEF l
<1>7. before \in Seq(Blocks) /\ Len(before) = last - 1
  BY <1>3, PartFacts
<1>8. left \in Seq(Blocks) /\ SubSeq(q, 1, last) \o left = q
  <2>1. last \in Nat /\ last <= Len(q)
    BY <1>0, <1>3
  <2> QED BY <2>1, PartFacts
<1>9. SubSeq(q, 1, last) = before \o <<q[last]>>
  <2>1. 1 \in 1 .. Len(q)
    BY <1>0, <1>3
  <2> QED BY <1>3, <2>1, SubSeqRecursiveSecond
<1>10. before \in Seq(Data) /\ left \in Seq(Data) /\ <<q[last]>> \in Seq(Data)
  BY <1>4, <1>7, <1>8, BlocksAreData
<1>11. /\ FlattenSeq(before) \in Data
       /\ FlattenSeq(left) \in Data
  BY <1>10, FlatType
<1>12. FlattenSeq(q) = FlattenSeq(before) \o (q[last] \o FlattenSeq(left))
  <2>1. (before \o <<q[last]>>) \o left = before \o (<<q[last]>> \o left)
    <3> DEFINE mid == <<q[last]>>
    <3>1. mid \in Seq(Data)
      BY <1>10
    <3> HIDE DEF mid
    <3>2. (before \o mid) \o left = before \o (mid \o left)
      BY ONLY <1>10, <3>1, BlocksAssociative, Zenon
    <3> QED BY <3>2 DEF mid
  <2>2. <<q[last]>> \o left \in Seq(Data)
    BY <1>10, ConcatProperties
  <2>3. q = before \o (<<q[last]>> \o left)
    BY <1>8, <1>9, <2>1
  <2>4. FlattenSeq(before \o (<<q[last]>> \o left))
           = FlattenSeq(before) \o FlattenSeq(<<q[last]>> \o left)
    BY ONLY <1>10, <2>2, FlatConcat, Zenon
  <2>5. FlattenSeq(<<q[last]>> \o left) = q[last] \o FlattenSeq(left)
    BY <1>4, <1>10, FlatConcat, FlatSingle
  <2> QED BY ONLY <2>3, <2>4, <2>5, Zenon
<1>13. Len(FlattenSeq(before)) = Ends(q)[last - 1]
  BY <1>0, <1>3, EndsCount
<1>14. n = Len(FlattenSeq(before)) + cut
  BY <1>5, <1>13
<1> QED BY <1>3, <1>4, <1>5, <1>6, <1>7, <1>8, <1>11, <1>12, <1>13, <1>14

\* Splitting the blocks splits their bytes; what stays are blocks.
LEMMA SplitFacts ==
    ASSUME NEW q \in Seq(Blocks), NEW n \in Nat, n <= Len(FlattenSeq(q))
    PROVE  /\ Split(q, n).rest \in Seq(Blocks)
           /\ FlattenSeq(Split(q, n).taken) = SubSeq(FlattenSeq(q), 1, n)
           /\ FlattenSeq(Split(q, n).rest)
                 = SubSeq(FlattenSeq(q), n + 1, Len(FlattenSeq(q)))
           /\ Len(FlattenSeq(Split(q, n).rest)) = Len(FlattenSeq(q)) - n
<1> DEFINE bytes == FlattenSeq(q)
<1>0. q \in Seq(Data) /\ bytes \in Data /\ Len(bytes) \in Nat
  BY BlocksAreData, FlatType, DataFacts
<1>1. CASE n = 0
  <2>1. Split(q, n) = [taken |-> <<>>, rest |-> q]
    BY <1>1 DEF Split
  <2>2. SubSeq(bytes, 1, 0) = <<>>
    BY SubSeqEmpty
  <2>3. SubSeq(bytes, 1, Len(bytes)) = bytes
    BY <1>0, SubSeqFull DEF Data
  <2>4. n + 1 = 1 /\ Len(bytes) - n = Len(bytes)
    BY <1>0, <1>1
  <2>5. FlattenSeq(Split(q, n).taken) = SubSeq(bytes, 1, n)
    <3>1. Split(q, n).taken = <<>> /\ SubSeq(bytes, 1, n) = <<>>
      BY <1>1, <2>1, <2>2
    <3> QED BY <3>1, FlatEmpty
  <2>6. Split(q, n).rest = q
    BY <2>1
  <2> QED BY <2>3, <2>4, <2>5, <2>6
<1>2. CASE n # 0
  <2> DEFINE last == Passed(q, n)
             block == q[last]
             cut == Cut(q, n)
             before == Before(q, n)
             left == Left(q, n)
             A == SubSeq(block, 1, cut)
             B == SubSeq(block, cut + 1, Len(block))
  <2>1. /\ last \in 1 .. Len(q)
        /\ block \in Blocks
        /\ before \in Seq(Blocks)
        /\ left \in Seq(Blocks)
        /\ FlattenSeq(before) \in Data
        /\ FlattenSeq(left) \in Data
        /\ FlattenSeq(q) = FlattenSeq(before) \o (block \o FlattenSeq(left))
        /\ cut \in 1 .. Len(block)
        /\ n = Len(FlattenSeq(before)) + cut
    <3>1. n > 0
      BY <1>2
    <3> QED BY <3>1, Whereabouts
  <2>2. /\ Split(q, n).taken = Append(before, A)
        /\ Split(q, n).rest = IF cut = Len(block) THEN left ELSE <<B>> \o left
    BY <1>2 DEF Split, Before, Left, Cut
  <2> HIDE DEF last, block, cut, before, left
  <2>3. block \in Data /\ Len(block) \in Nat /\ before \in Seq(Data) /\ left \in Seq(Data)
    BY <2>1, BlocksAreData, BlockFacts
  <2>4. /\ A \in Data
        /\ B \in Data
        /\ Len(A) = cut
        /\ Len(B) = Len(block) - cut
        /\ block = A \o B
    <3>1. cut \in Nat /\ cut <= Len(block)
      BY <2>1, <2>3
    <3> QED BY <2>3, <3>1, PartFacts DEF Data
  <2> HIDE DEF A, B
  <2>5. FlattenSeq(Split(q, n).taken) = FlattenSeq(before) \o A
    BY <2>2, <2>3, <2>4, FlatAppend
  <2>6. Split(q, n).rest \in Seq(Blocks) /\ FlattenSeq(Split(q, n).rest) = B \o FlattenSeq(left)
    <3>1. CASE cut = Len(block)
      <4>1. B = <<>>
        BY <2>3, <2>4, <3>1, BlockFacts DEF Blocks
      <4>2. <<>> \o FlattenSeq(left) = FlattenSeq(left)
        BY <2>1, DataFacts
      <4> QED BY <2>1, <2>2, <3>1, <4>1, <4>2
    <3>2. CASE cut # Len(block)
      <4>1. B \in Blocks
        <5>1. Len(B) > 0
          BY <2>1, <2>3, <2>4, <3>2
        <5> QED BY <2>4, <5>1, BlockFacts
      <4>2. <<B>> \in Seq(Blocks) /\ <<B>> \in Seq(Data)
        BY <2>4, <4>1
      <4>3. <<B>> \o left \in Seq(Blocks)
        BY <2>1, <4>2, ConcatProperties
      <4>4. FlattenSeq(<<B>> \o left) = B \o FlattenSeq(left)
        BY <2>3, <2>4, <4>2, FlatConcat, FlatSingle
      <4> QED BY <2>2, <3>2, <4>3, <4>4
    <3> QED BY <3>1, <3>2
  <2>7. bytes = (FlattenSeq(before) \o A) \o (B \o FlattenSeq(left))
    <3>1. (A \o B) \o FlattenSeq(left) = A \o (B \o FlattenSeq(left))
      BY <2>1, <2>4, DataAssociative
    <3>2. B \o FlattenSeq(left) \in Data
      BY <2>1, <2>4, DataFacts
    <3>3. (FlattenSeq(before) \o A) \o (B \o FlattenSeq(left))
             = FlattenSeq(before) \o (A \o (B \o FlattenSeq(left)))
      BY <2>1, <2>4, <3>2, DataAssociative
    <3> QED BY <2>1, <2>4, <3>1, <3>3
  <2>8. /\ FlattenSeq(before) \o A \in Data
        /\ B \o FlattenSeq(left) \in Data
        /\ Len(FlattenSeq(before) \o A) = n
    <3>1. /\ FlattenSeq(before) \o A \in Data
          /\ Len(FlattenSeq(before) \o A) = Len(FlattenSeq(before)) + Len(A)
      BY <2>1, <2>4, DataFacts
    <3>2. B \o FlattenSeq(left) \in Data
      BY <2>1, <2>4, DataFacts
    <3> QED BY <2>1, <2>4, <3>1, <3>2
  <2> DEFINE a == FlattenSeq(before) \o A
             b == B \o FlattenSeq(left)
  <2> HIDE DEF bytes, a, b
  <2>9. a \in Data /\ b \in Data /\ Len(a) = n /\ bytes = a \o b
    BY <2>7, <2>8 DEF a, b
  <2>10. /\ SubSeq(bytes, 1, n) = a
         /\ SubSeq(bytes, n + 1, Len(bytes)) = b
         /\ Len(b) = Len(bytes) - n
    <3>1. /\ SubSeq(a \o b, 1, Len(a)) = a
          /\ SubSeq(a \o b, Len(a) + 1, Len(a \o b)) = b
          /\ Len(a) \in Nat
          /\ Len(b) \in Nat
          /\ Len(a \o b) = Len(a) + Len(b)
      <4>1. a \in Seq(Nat) /\ b \in Seq(Nat)
        BY <2>9 DEF Data
      <4> QED BY ONLY <4>1, CutConcat
    <3>2. Len(bytes) = n + Len(b) /\ Len(b) \in Nat
      BY <2>9, <3>1
    <3> QED BY <2>9, <3>1, <3>2
  <2> QED BY <2>5, <2>6, <2>10 DEF bytes, a, b
<1> QED BY <1>1, <1>2

\* The sums grow from block to block.
LEMMA EndsMonotonic ==
    ASSUME NEW q \in Seq(Data), NEW i \in 0 .. Len(q), NEW j \in i .. Len(q)
    PROVE  Ends(q)[i] <= Ends(q)[j]
<1>0. Len(q) \in Nat
  BY LenProperties
<1> DEFINE T == {n \in Nat : i <= n /\ n <= Len(q) => Ends(q)[i] <= Ends(q)[n]}
<1>1. 0 \in T
  <2>1. Ends(q)[0] <= Ends(q)[0]
    BY EndsFacts
  <2>2. i <= 0 => i = 0
    BY <1>0
  <2> QED BY <2>1, <2>2
<1>2. ASSUME NEW n \in Nat, n \in T
      PROVE  n + 1 \in T
  <2> SUFFICES ASSUME i <= n + 1, n + 1 <= Len(q)
               PROVE  Ends(q)[i] <= Ends(q)[n + 1]
    OBVIOUS
  <2>1. n + 1 \in 1 .. Len(q) /\ n \in 0 .. Len(q) /\ n + 1 \in 0 .. Len(q) /\ n + 1 - 1 = n
    BY <1>0
  <2>2. Ends(q)[i] \in Nat /\ Ends(q)[n] \in Nat /\ Ends(q)[n + 1] \in Nat
    BY <2>1, EndsTotal
  <2>3. CASE i = n + 1
    BY <2>2, <2>3
  <2>4. CASE i # n + 1
    <3>1. i <= n /\ n <= Len(q)
      BY <1>0, <2>4
    <3>2. Ends(q)[i] <= Ends(q)[n]
      BY <1>2, <3>1
    <3>3. Ends(q)[n + 1] = Ends(q)[n + 1 - 1] + Len(q[n + 1])
      BY <2>1, EndsFacts
    <3>4. Len(q[n + 1]) \in Nat
      BY <2>1, ElementOfSeq, BlockFacts
    <3> QED BY <2>1, <2>2, <3>2, <3>3, <3>4
  <2> QED BY <2>3, <2>4
<1> HIDE DEF T
<1>3. Nat \subseteq T
  BY <1>1, <1>2, Induction
<1>4. j \in Nat /\ i <= j /\ j <= Len(q)
  BY <1>0
<1> QED BY <1>3, <1>4 DEF T

\* Without an offset, a block is copied as far as its bytes are wanted.
LEMMA CopiedFacts ==
    ASSUME NEW b \in Data, NEW n \in Nat
    PROVE  Copied(b, n, 0) = SubSeq(b, 1, IF n < Len(b) THEN n ELSE Len(b))
<1> DEFINE upTo == IF 0 + n < Len(b) THEN n ELSE Len(b)
<1>1. Len(b) \in Nat
  BY BlockFacts
<1>2. /\ upTo \in Nat
      /\ upTo <= Len(b)
      /\ upTo <= n
      /\ ~ (upTo < 0)
      /\ upTo = IF n < Len(b) THEN n ELSE Len(b)
      /\ SmallerOf(0, n - (upTo - 0)) = 0
      /\ 0 + 1 = 1
  BY <1>1 DEF SmallerOf
<1>3. Copied(b, n, 0) = SubSeq(b, 0 + 1, upTo) \o Holes(SmallerOf(0, n - (upTo - 0)))
  BY <1>2 DEF Copied
<1>4. Holes(0) = <<>>
  <2>1. Holes(0) = [i \in 1 .. 0 |-> Hole]
    BY DEF Holes
  <2>2. Holes(0) \in [1 .. 0 -> Nat]
    <3>1. 1 .. 0 = {}
      OBVIOUS
    <3>2. [i \in {} |-> Hole] \in [{} -> Nat]
      OBVIOUS
    <3> QED BY <2>1, <3>1, <3>2
  <2>3. Holes(0) \in Seq(Nat) /\ Len(Holes(0)) = 0
    BY <2>1, <2>2, SeqDef
  <2> QED BY <2>3, EmptySeq
<1> HIDE DEF upTo
<1>5. SubSeq(b, 1, upTo) \in Data
  BY <1>2, PartFacts DEF Data
<1>6. SubSeq(b, 1, upTo) \o <<>> = SubSeq(b, 1, upTo)
  BY <1>5, DataFacts
<1> QED BY <1>2, <1>3, <1>4, <1>6

\* Peeking at the front returns the first bytes.
LEMMA PeekFacts ==
    ASSUME NEW q \in Seq(Blocks), NEW n \in Nat, n > 0, n <= Len(FlattenSeq(q))
    PROVE  Peek(q, n, 0) = SubSeq(FlattenSeq(q), 1, n)
<1> DEFINE last == Passed(q, n)
           before == Before(q, n)
           A == SubSeq(q[last], 1, Cut(q, n))
           copies == [i \in 1 .. last |-> Copied(q[i], n - Ends(q)[i - 1], 0)]
<1>0. q \in Seq(Data) /\ Len(q) \in Nat
  BY BlocksAreData, LenProperties
<1>1. /\ last \in 1 .. Len(q)
      /\ q[last] \in Blocks
      /\ before \in Seq(Blocks)
      /\ Len(before) = last - 1
      /\ Cut(q, n) \in 1 .. Len(q[last])
      /\ Ends(q)[last - 1] \in Nat
  BY Whereabouts
<1>2. q[last] \in Data /\ Len(q[last]) \in Nat /\ before \in Seq(Data)
  BY <1>1, BlocksAreData, BlockFacts
<1>3. A \in Data
  <2>1. Cut(q, n) \in Nat /\ Cut(q, n) <= Len(q[last])
    BY <1>1, <1>2
  <2> QED BY <1>2, <2>1, PartFacts DEF Data
<1>4. ASSUME NEW i \in 1 .. last - 1
      PROVE  Copied(q[i], n - Ends(q)[i - 1], 0) = Append(before, A)[i]
  <2>1. /\ i \in 1 .. Len(q)
        /\ i \in 0 .. Len(q)
        /\ i - 1 \in 0 .. Len(q)
        /\ last - 1 \in i .. Len(q)
        /\ i \in 1 .. Len(before)
        /\ last > 0
        /\ last - 1 \in Nat
        /\ last - 1 <= Len(q)
    BY <1>0, <1>1
  <2>2. Ends(q)[i] <= Ends(q)[last - 1]
    BY <1>0, <2>1, EndsMonotonic
  <2>3. Ends(q)[last - 1] < n
    BY <1>0, <2>1, PassedFacts
  <2>4. Ends(q)[i] = Ends(q)[i - 1] + Len(q[i]) /\ Ends(q)[i - 1] \in Nat /\ Ends(q)[i] \in Nat
    BY <1>0, <2>1, EndsFacts, EndsTotal
  <2>5. q[i] \in Data /\ Len(q[i]) \in Nat
    BY <1>0, <2>1, ElementOfSeq, BlockFacts
  <2> DEFINE m == n - Ends(q)[i - 1]
  <2>6. m \in Nat /\ ~ (m < Len(q[i]))
    <3> DEFINE a == Ends(q)[i - 1]
               b == Ends(q)[i]
               c == Ends(q)[last - 1]
               l == Len(q[i])
    <3>1. a \in Nat /\ b \in Nat /\ c \in Nat /\ l \in Nat /\ b <= c /\ c < n /\ b = a + l
      BY <1>1, <2>2, <2>3, <2>4, <2>5
    <3> HIDE DEF a, b, c, l
    <3>2. n - a \in Nat /\ ~ (n - a < l)
      BY <3>1
    <3> QED BY <3>2 DEF a, l
  <2> HIDE DEF m
  <2>7. Copied(q[i], m, 0) = q[i]
    BY <2>5, <2>6, CopiedFacts, SubSeqFull DEF Data
  <2>8. before[i] = q[i]
    BY <2>1, PartFacts DEF Before
  <2>9. Append(before, A)[i] = before[i]
    BY <1>2, <1>3, <2>1, AppendFacts
  <2> QED BY <2>7, <2>8, <2>9 DEF m
<1>5. Copied(q[last], n - Ends(q)[last - 1], 0) = Append(before, A)[last]
  <2>1. n - Ends(q)[last - 1] = Cut(q, n)
    BY DEF Cut
  <2>2. Cut(q, n) \in Nat /\ (IF Cut(q, n) < Len(q[last]) THEN Cut(q, n) ELSE Len(q[last])) = Cut(q, n)
    BY <1>1, <1>2
  <2>3. Copied(q[last], Cut(q, n), 0) = A
    BY <1>2, <2>2, CopiedFacts
  <2>4. Append(before, A)[Len(before) + 1] = A
    BY <1>2, <1>3, AppendFacts
  <2>5. Len(before) + 1 = last
    BY <1>1
  <2> QED BY <2>1, <2>3, <2>4, <2>5
<1>6. copies = Append(before, A)
  <2>1. Append(before, A) \in Seq(Data) /\ Len(Append(before, A)) = last
    <3>1. Append(before, A) \in Seq(Data) /\ Len(Append(before, A)) = Len(before) + 1
      BY <1>2, <1>3, AppendFacts
    <3> QED BY <1>1, <3>1
  <2>2. \A i \in 1 .. last : copies[i] = Append(before, A)[i]
    <3> TAKE i \in 1 .. last
    <3>1. i \in 1 .. last - 1 \/ i = last
      BY <1>0, <1>1
    <3> QED BY <1>4, <1>5, <3>1
  <2>3. Append(before, A) \in [1 .. last -> Data]
    BY <2>1, LenProperties
  <2> QED BY <2>2, <2>3
<1>7. Split(q, n).taken = Append(before, A)
  <2>1. n # 0
    OBVIOUS
  <2> QED BY <2>1 DEF Split, Before, Cut
<1>8. Peek(q, n, 0) = FlattenSeq(copies)
  BY DEF Peek
<1>9. FlattenSeq(Split(q, n).taken) = SubSeq(FlattenSeq(q), 1, n)
  BY SplitFacts
<1> HIDE DEF copies, A, before
<1> QED BY <1>6, <1>7, <1>8, <1>9

\* ByteAt finds the byte at a position, if there is one.
LEMMA FindFacts ==
    ASSUME NEW q \in Seq(Blocks), NEW p \in Nat, p <= Len(FlattenSeq(q))
    PROVE  Find(q, p) = SubSeq(FlattenSeq(q), p + 1,
                               IF p + 1 < Len(FlattenSeq(q)) THEN p + 1
                               ELSE Len(FlattenSeq(q)))
<1> DEFINE bytes == FlattenSeq(q)
           n == p + 1
<1>0. q \in Seq(Data) /\ bytes \in Data /\ Len(bytes) \in Nat
  BY BlocksAreData, FlatType, DataFacts
<1>1. CASE p = Len(bytes)
  <2>1. Find(q, p) = <<>>
    BY <1>0, <1>1 DEF Find
  <2>2. ~ (p + 1 < Len(bytes)) /\ p + 1 \in Int /\ Len(bytes) \in Int /\ Len(bytes) < p + 1
    BY <1>0, <1>1
  <2>3. SubSeq(bytes, p + 1, Len(bytes)) = <<>>
    BY <2>2, SubSeqEmpty
  <2> QED BY <2>1, <2>2, <2>3
<1>2. CASE p # Len(bytes)
  <2> DEFINE last == Passed(q, n)
             x == FlattenSeq(Before(q, n))
             y == q[last] \o FlattenSeq(Left(q, n))
  <2>1. n \in Nat /\ n > 0 /\ n <= Len(bytes) /\ p < Len(bytes) /\ ~ (p >= Len(bytes))
    BY <1>0, <1>2
  <2> HIDE DEF n
  <2>2. /\ q[last] \in Blocks
        /\ x \in Data
        /\ FlattenSeq(Left(q, n)) \in Data
        /\ bytes = x \o y
        /\ Cut(q, n) \in 1 .. Len(q[last])
        /\ n = Len(x) + Cut(q, n)
    BY <2>1, Whereabouts
  <2>3. q[last] \in Data /\ Len(q[last]) \in Nat /\ Len(x) \in Nat
    BY <2>2, BlocksAreData, BlockFacts
  <2>4. /\ y \in Data
        /\ Len(y) = Len(q[last]) + Len(FlattenSeq(Left(q, n)))
        /\ \A i \in 1 .. Len(q[last]) + Len(FlattenSeq(Left(q, n))) :
              y[i] = IF i <= Len(q[last]) THEN q[last][i] ELSE FlattenSeq(Left(q, n))[i - Len(q[last])]
        /\ Len(FlattenSeq(Left(q, n))) \in Nat
    BY <2>2, <2>3, ConcatProperties, LenProperties DEF Data
  <2>5. Cut(q, n) \in 1 .. Len(y) /\ y[Cut(q, n)] = q[last][Cut(q, n)]
    BY <2>2, <2>3, <2>4
  <2>6. bytes[n] = y[Cut(q, n)]
    <3> HIDE DEF y
    <3>1. \A i \in 1 .. Len(x) + Len(y) : (x \o y)[i] = IF i <= Len(x) THEN x[i] ELSE y[i - Len(x)]
      BY <2>2, <2>4, ConcatProperties DEF Data
    <3>2. n \in 1 .. Len(x) + Len(y) /\ ~ (n <= Len(x)) /\ n - Len(x) = Cut(q, n)
      <4>1. Len(y) \in Nat /\ Cut(q, n) \in Nat /\ Cut(q, n) > 0 /\ Cut(q, n) <= Len(y)
        BY <2>4, <2>5, BlockFacts
      <4> QED BY <2>2, <2>3, <4>1
    <3> QED BY <2>2, <3>1, <3>2
  <2>7. Find(q, p) = <<q[last][Cut(q, n)]>>
    <3>1. ~ (p >= Len(FlattenSeq(q)))
      BY <2>1
    <3>2. Find(q, p)
             = <<q[Passed(q, p + 1)][p - Ends(q)[Passed(q, p + 1) - 1] + 1]>>
      BY <3>1 DEF Find
    <3>3. Cut(q, n) = p - Ends(q)[Passed(q, p + 1) - 1] + 1
      <4>1. Ends(q)[last - 1] \in Nat
        BY <2>1, Whereabouts
      <4> HIDE DEF last
      <4>2. n - Ends(q)[last - 1] = p - Ends(q)[last - 1] + 1
        BY <4>1 DEF n
      <4> QED BY <4>2 DEF Cut, n, last
    <3>4. last = Passed(q, p + 1)
      BY DEF n
    <3> HIDE DEF last
    <3> QED BY ONLY <3>2, <3>3, <3>4
  <2>8. SubSeq(bytes, n, n) = <<bytes[n]>>
    <3>1. n \in 1 .. Len(bytes) /\ n \in n .. Len(bytes)
      BY <1>0, <2>1
    <3>2. SubSeq(bytes, n, n) = <<bytes[n]>> \o SubSeq(bytes, n + 1, n)
      BY <1>0, <3>1, SubSeqRecursiveFirst DEF Data
    <3>3. SubSeq(bytes, n + 1, n) = <<>>
      BY <2>1, SubSeqEmpty
    <3>4. bytes[n] \in Nat
      BY <1>0, <3>1, ElementOfSeq DEF Data
    <3>5. <<bytes[n]>> \in Seq(Nat)
      BY <3>4
    <3> QED BY <3>2, <3>3, <3>5, ConcatEmptySeq
  <2>9. (IF p + 1 < Len(bytes) THEN p + 1 ELSE Len(bytes)) = n
    BY <1>0, <2>1 DEF n
  <2> QED BY <2>5, <2>6, <2>7, <2>8, <2>9 DEF n
<1> QED BY <1>1, <1>2

-----------------------------------------------------------------------------
(* The invariant *)

Typed ==
    /\ blockqueue \in Seq(Blocks)
    /\ call \in [Callers -> Calls \cup {NoCall}]
    /\ made \in Nat

IInv == Typed /\ LengthIsExact

\* The bytes of the stream.
LEMMA StreamFacts ==
    ASSUME IInv
    PROVE  /\ blockqueue \in Seq(Data)
           /\ FlattenSeq(blockqueue) \in Data
           /\ FlattenSeq(blockqueue) \in Seq(Nat)
           /\ length = Len(FlattenSeq(blockqueue))
           /\ length \in Nat
           /\ length > 0 <=> FlattenSeq(blockqueue) # <<>>
<1>1. blockqueue \in Seq(Data) /\ length = Len(FlattenSeq(blockqueue))
  BY BlocksAreData DEF IInv, Typed, LengthIsExact
<1>2. FlattenSeq(blockqueue) \in Data
  BY <1>1, FlatType
<1> QED BY <1>1, <1>2, BlockFacts DEF Blocks, Data

\* The front block, and what the pops leave.
LEMMA FrontBlockFacts ==
    ASSUME IInv, blockqueue # <<>>
    PROVE  /\ Tail(blockqueue) \in Seq(Blocks)
           /\ FlattenSeq(Tail(blockqueue)) \in Seq(Nat)
           /\ Head(blockqueue) \in Seq(Nat)
           /\ Len(Head(blockqueue)) \in 1 .. length
           /\ FlattenSeq(blockqueue) = Head(blockqueue) \o FlattenSeq(Tail(blockqueue))
           /\ length - Len(Head(blockqueue)) = Len(FlattenSeq(Tail(blockqueue)))
<1> DEFINE b == Head(blockqueue)
           q == Tail(blockqueue)
<1>1. blockqueue \in Seq(Blocks)
  BY DEF IInv, Typed
<1>2. b \in Blocks /\ q \in Seq(Blocks)
  BY <1>1, HeadTailProperties
<1>3. blockqueue = <<b>> \o q
  <2>1. Len(blockqueue) \in Nat /\ Len(blockqueue) > 0
    BY <1>1, EmptySeq
  <2>2. 1 \in 1 .. Len(blockqueue) /\ Len(blockqueue) \in 1 .. Len(blockqueue)
    BY <2>1
  <2>3. SubSeq(blockqueue, 1, Len(blockqueue))
           = <<blockqueue[1]>> \o SubSeq(blockqueue, 1 + 1, Len(blockqueue))
    BY <1>1, <2>2, SubSeqRecursiveFirst
  <2>4. b = blockqueue[1] /\ q = SubSeq(blockqueue, 2, Len(blockqueue))
    BY <1>1, TailIsSubSeq
  <2> QED BY <1>1, <2>3, <2>4, SubSeqFull
<1> HIDE DEF b, q
<1>4. b \in Data /\ <<b>> \in Seq(Data) /\ q \in Seq(Data) /\ Len(b) \in Nat /\ Len(b) > 0
  BY <1>2, BlocksAreData, BlockFacts
<1>5. FlattenSeq(q) \in Data /\ Len(FlattenSeq(q)) \in Nat
  BY <1>4, FlatType, BlockFacts
<1>6. FlattenSeq(blockqueue) = b \o FlattenSeq(q)
  BY <1>3, <1>4, FlatConcat, FlatSingle
<1>7. length = Len(b) + Len(FlattenSeq(q))
  BY <1>4, <1>5, <1>6, StreamFacts, DataFacts
<1>8. Len(b) \in 1 .. length /\ length - Len(b) = Len(FlattenSeq(q))
  BY <1>4, <1>5, <1>7
<1> QED BY <1>2, <1>4, <1>5, <1>6, <1>8 DEF b, q, Data

\* When there are bytes there is a block.
LEMMA SomeBlock ==
    ASSUME IInv, length > 0
    PROVE  blockqueue # <<>>
BY StreamFacts, FlatEmpty

\* Cutting n bytes off the front.
LEMMA TakesBytes ==
    ASSUME IInv, NEW n \in Nat, n <= length
    PROVE  /\ Split(blockqueue, n).rest \in Seq(Blocks)
           /\ FlattenSeq(Split(blockqueue, n).taken) = SubSeq(FlattenSeq(blockqueue), 1, n)
           /\ FlattenSeq(Split(blockqueue, n).rest)
                 = SubSeq(FlattenSeq(blockqueue), n + 1, Len(FlattenSeq(blockqueue)))
           /\ Len(FlattenSeq(Split(blockqueue, n).rest)) = length - n
<1>1. blockqueue \in Seq(Blocks) /\ length = Len(FlattenSeq(blockqueue))
  BY DEF IInv, Typed, LengthIsExact
<1> QED BY <1>1, SplitFacts

\* A caller that is in a method is in one of the calls.
LEMMA CallFacts ==
    ASSUME IInv, NEW c \in Callers, call[c] # NoCall
    PROVE  /\ call[c] \in Calls
           /\ call[c].len \in Nat
           /\ call[c].offset \in Nat
           /\ call[c].op \notin {"PeekBytes", "ByteAt"} => call[c].offset = 0
           /\ call[c].op = "PeekBytes" => call[c].offset \in Offsets
           /\ call[c].op \in {"GetBytes", "GetBlock", "GetBlocks", "PeekBytes"} =>
                 call[c].len > 0
<1>1. call[c] \in Calls
  BY DEF IInv, Typed
<1>2. CASE call[c] \in {Request(op, len, 0) : op \in {"GetBytes", "GetBlock", "GetBlocks"},
                                              len \in Lengths}
  BY <1>1, <1>2, StreamAssumption DEF Request
<1>3. CASE call[c] \in {Request(op, 0, 0) : op \in {"GetFront", "Front", "ToBlock"}}
  BY <1>1, <1>3 DEF Request
<1>4. CASE call[c] \in {Request("PeekBytes", len, offset) : len \in Lengths, offset \in Offsets}
  BY <1>1, <1>4, StreamAssumption DEF Request
<1>5. CASE call[c] \in {Request("ByteAt", 1, position) : position \in Positions}
  BY <1>1, <1>5, StreamAssumption DEF Request
<1> QED BY <1>1, <1>2, <1>3, <1>4, <1>5 DEF Calls

\* A block that is pushed.
LEMMA PushedBlock ==
    ASSUME IInv, NEW n \in 1 .. MaxBlock
    PROVE  /\ Bytes(n) \in Blocks
           /\ Bytes(n) \in Data
           /\ Len(Bytes(n)) = n
           /\ n \in Nat
<1>1. n \in Nat /\ n > 0
  BY StreamAssumption
<1>2. Bytes(n) \in [1 .. n -> Nat] /\ DOMAIN Bytes(n) = 1 .. n
  BY <1>1 DEF Bytes, IInv, Typed
<1>3. Bytes(n) \in Seq(Nat) /\ Len(Bytes(n)) = n
  BY <1>1, <1>2, SeqDef
<1> QED BY <1>1, <1>3, BlockFacts DEF Data

-----------------------------------------------------------------------------
(* The steps, and what they are to a queue of bytes *)

LEMMA Begins == Init => IInv /\ Queue!Init
<1> SUFFICES ASSUME Init PROVE IInv /\ Queue!Init
  OBVIOUS
<1>1. blockqueue = <<>> /\ blockqueue \in Seq(Blocks) /\ Len(<<>>) = 0
  BY EmptySeq DEF Init
<1>2. IInv
  BY <1>1, FlatEmpty DEF Init, IInv, Typed, LengthIsExact
<1>3. Queue!Init
  BY <1>1, FlatEmpty DEF Init, Queue!Init
<1> QED BY <1>2, <1>3

\* The steps of the queue in which bytes come and go.
LEMMA ComeOrGo ==
    ASSUME UNCHANGED <<eos, call, result>>
    PROVE  /\ IsPrefix(FlattenSeq(blockqueue), FlattenSeq(blockqueue')) => Queue!Put
           /\ IsSuffix(FlattenSeq(blockqueue), FlattenSeq(blockqueue')) => Queue!Put
           /\ IsSuffix(FlattenSeq(blockqueue'), FlattenSeq(blockqueue)) => Queue!Drop
BY DEF Queue!Put, Queue!Drop, Queue!IsPrefix, Queue!IsSuffix, Queue!Reverse,
       IsPrefix, IsSuffix, Reverse

LEMMA PushesBack ==
    ASSUME IInv, NEW n \in 1 .. MaxBlock, PushBack(n)
    PROVE  IInv' /\ Queue!Put
<1>1. /\ blockqueue' = Append(blockqueue, Bytes(n))
      /\ length' = length + n
      /\ made' = made + n
      /\ UNCHANGED <<eos, call, result>>
  BY DEF PushBack, Push
<1>2. FlattenSeq(blockqueue') = FlattenSeq(blockqueue) \o Bytes(n)
  BY <1>1, StreamFacts, PushedBlock, FlatAppend
<1>3. blockqueue' \in Seq(Blocks)
  BY <1>1, PushedBlock, AppendFacts DEF IInv, Typed
<1>4. LengthIsExact'
  <2>1. Len(FlattenSeq(blockqueue) \o Bytes(n)) = Len(FlattenSeq(blockqueue)) + Len(Bytes(n))
    BY StreamFacts, PushedBlock, DataFacts
  <2> QED BY <1>1, <1>2, <2>1, StreamFacts, PushedBlock DEF LengthIsExact
<1>5. IInv'
  BY <1>1, <1>3, <1>4, PushedBlock DEF IInv, Typed
<1>6. IsPrefix(FlattenSeq(blockqueue), FlattenSeq(blockqueue'))
  BY <1>2, StreamFacts, PushedBlock, IsPrefixOfConcat DEF Data
<1> QED BY <1>1, <1>5, <1>6, ComeOrGo

LEMMA PushesFront ==
    ASSUME IInv, NEW n \in 1 .. MaxBlock, PushFront(n)
    PROVE  IInv' /\ Queue!Put
<1>1. /\ blockqueue' = <<Bytes(n)>> \o blockqueue
      /\ length' = length + n
      /\ made' = made + n
      /\ UNCHANGED <<eos, call, result>>
  BY DEF PushFront, Push
<1>2. FlattenSeq(blockqueue') = Bytes(n) \o FlattenSeq(blockqueue)
  <2>1. <<Bytes(n)>> \in Seq(Data)
    BY PushedBlock
  <2> QED BY <1>1, <2>1, StreamFacts, PushedBlock, FlatConcat, FlatSingle
<1>3. blockqueue' \in Seq(Blocks)
  <2>1. <<Bytes(n)>> \in Seq(Blocks)
    BY PushedBlock
  <2> QED BY <1>1, <2>1, ConcatProperties DEF IInv, Typed
<1>4. LengthIsExact'
  <2>1. Len(Bytes(n) \o FlattenSeq(blockqueue)) = Len(Bytes(n)) + Len(FlattenSeq(blockqueue))
    BY StreamFacts, PushedBlock, DataFacts
  <2> QED BY <1>1, <1>2, <2>1, StreamFacts, PushedBlock DEF LengthIsExact
<1>5. IInv'
  BY <1>1, <1>3, <1>4, PushedBlock DEF IInv, Typed
<1>6. IsSuffix(FlattenSeq(blockqueue), FlattenSeq(blockqueue'))
  BY <1>2, StreamFacts, PushedBlock, IsSuffixOfConcat DEF Data
<1> QED BY <1>1, <1>5, <1>6, ComeOrGo

LEMMA Pops ==
    ASSUME IInv, PopAndDeleteFront
    PROVE  IInv' /\ Queue!Drop
<1>1. /\ blockqueue # <<>>
      /\ length' = length - Len(Head(blockqueue))
      /\ blockqueue' = Tail(blockqueue)
      /\ UNCHANGED <<eos, call, result, made>>
  BY DEF PopAndDeleteFront, readers
<1>2. IInv'
  BY <1>1, FrontBlockFacts DEF IInv, Typed, LengthIsExact
<1>3. IsSuffix(FlattenSeq(blockqueue'), FlattenSeq(blockqueue))
  BY <1>1, FrontBlockFacts, IsSuffixOfConcat
<1> QED BY <1>1, <1>2, <1>3, ComeOrGo

\* What is left of the bytes is a suffix of them.
LEMMA RestIsSuffix ==
    ASSUME IInv, NEW n \in Nat, n <= length
    PROVE  IsSuffix(SubSeq(FlattenSeq(blockqueue), n + 1, Len(FlattenSeq(blockqueue))),
                    FlattenSeq(blockqueue))
<1> DEFINE s == FlattenSeq(blockqueue)
<1>1. s \in Seq(Nat) /\ n <= Len(s)
  BY StreamFacts
<1> HIDE DEF s
<1>2. /\ SubSeq(s, 1, n) \in Seq(Nat)
      /\ SubSeq(s, n + 1, Len(s)) \in Seq(Nat)
      /\ SubSeq(s, 1, n) \o SubSeq(s, n + 1, Len(s)) = s
  BY <1>1, PartFacts
<1>3. IsSuffix(SubSeq(s, n + 1, Len(s)), SubSeq(s, 1, n) \o SubSeq(s, n + 1, Len(s)))
  BY ONLY <1>2, IsSuffixOfConcat
<1> QED BY <1>2, <1>3 DEF s

LEMMA Erases ==
    ASSUME IInv, NEW n \in Lengths, EraseFront(n)
    PROVE  IInv' /\ Queue!Drop
<1> DEFINE len == SmallerOf(n, length)
<1>1. len \in Nat /\ len <= length
  BY StreamFacts, StreamAssumption DEF SmallerOf
<1>2. /\ blockqueue' = Split(blockqueue, len).rest
      /\ length' = length - len
      /\ UNCHANGED <<eos, call, result, made>>
  BY DEF EraseFront, readers
<1> HIDE DEF len
<1>3. IInv'
  BY <1>1, <1>2, TakesBytes DEF IInv, Typed, LengthIsExact
<1>4. IsSuffix(FlattenSeq(blockqueue'), FlattenSeq(blockqueue))
  BY <1>1, <1>2, TakesBytes, RestIsSuffix
<1> QED BY <1>2, <1>3, <1>4, ComeOrGo

LEMMA Clears ==
    ASSUME IInv, Clear
    PROVE  IInv' /\ Queue!Drop
<1>1. /\ blockqueue' = <<>>
      /\ length' = 0
      /\ UNCHANGED <<eos, call, result, made>>
  BY DEF Clear, readers
<1>2. IInv'
  BY <1>1, FlatEmpty, EmptySeq DEF IInv, Typed, LengthIsExact
<1>3. IsSuffix(<<>>, FlattenSeq(blockqueue))
  <2>1. FlattenSeq(blockqueue) \o <<>> = FlattenSeq(blockqueue) /\ <<>> \in Seq(Nat)
    BY StreamFacts, ConcatEmptySeq, EmptySeq
  <2>2. IsSuffix(<<>>, FlattenSeq(blockqueue) \o <<>>)
    BY <2>1, StreamFacts, IsSuffixOfConcat
  <2> QED BY <2>1, <2>2
<1> QED BY <1>1, <1>2, <1>3, FlatEmpty, ComeOrGo

LEMMA Announces ==
    ASSUME IInv, SetEOS
    PROVE  IInv' /\ Queue!End
BY DEF SetEOS, stream, IInv, Typed, LengthIsExact, Queue!End

LEMMA Enters ==
    ASSUME IInv, NEW c \in Callers, NEW q \in Calls, Enter(c, q)
    PROVE  IInv' /\ Queue!Call(c, q)
<1>1. IInv'
  BY DEF Enter, stream, IInv, Typed, LengthIsExact
<1>2. Queue!Call(c, q)
  BY DEF Enter, stream, Queue!Call
<1> QED BY <1>1, <1>2

\* A caller that falls asleep leaves the queue of bytes alone.
LEMMA FallsAsleep ==
    ASSUME IInv, NEW c \in Callers, Wait(c)
    PROVE  IInv' /\ UNCHANGED Queue!vars
<1>1. UNCHANGED <<blockqueue, length, eos, call, result, made>>
  BY DEF Wait, stream
<1>2. IInv'
  BY <1>1 DEF IInv, Typed, LengthIsExact
<1> QED BY <1>1, <1>2 DEF Queue!vars

LEMMA Stutters ==
    ASSUME IInv, UNCHANGED vars
    PROVE  IInv' /\ UNCHANGED Queue!vars
<1>1. UNCHANGED <<blockqueue, length, eos, call, result, made>>
  BY DEF vars, stream, readers
<1>2. IInv'
  BY <1>1 DEF IInv, Typed, LengthIsExact
<1> QED BY <1>1, <1>2 DEF Queue!vars

\* A call that does not have to wait finds bytes, a ByteAt the bytes before its
\* position.
LEMMA RunsFacts ==
    ASSUME IInv, NEW c \in Callers, NEW op, Runs(c, op)
    PROVE  /\ call[c] # NoCall
           /\ call[c].op = op
           /\ op = "ByteAt" => call[c].offset <= length
           /\ op # "ByteAt" => call[c].offset < length
<1>1. call[c] # NoCall /\ call[c].op = op /\ ~ Short(call[c])
  BY DEF Runs
<1>2. call[c].offset \in Nat /\ length \in Nat
  BY <1>1, CallFacts, StreamFacts
<1> QED BY <1>1, <1>2 DEF Short

\* A method that returns and leaves the blocks as they are.
LEMMA Returns ==
    ASSUME IInv, NEW c \in Callers, NEW s, Return(c, s)
    PROVE  /\ Queue!Return(c, s)
           /\ call' \in [Callers -> Calls \cup {NoCall}]
           /\ made' \in Nat
           /\ UNCHANGED stream => IInv' /\ FlattenSeq(blockqueue)' = FlattenSeq(blockqueue)
<1>1. Queue!Return(c, s)
  BY DEF Return, Queue!Return
<1>2. call' \in [Callers -> Calls \cup {NoCall}] /\ made' \in Nat
  BY DEF Return, IInv, Typed
<1>3. UNCHANGED stream => IInv' /\ FlattenSeq(blockqueue)' = FlattenSeq(blockqueue)
  BY <1>2 DEF stream, IInv, Typed, LengthIsExact
<1> QED BY <1>1, <1>2, <1>3

\* A method that takes n bytes returns the first n, and leaves the others.
LEMMA Takes ==
    ASSUME IInv, NEW c \in Callers, NEW n \in Nat, n <= length, Take(c, n)
    PROVE  /\ IInv'
           /\ Queue!Return(c, Queue!First(n))
           /\ FlattenSeq(blockqueue)' = Queue!After(n)
<1>1. /\ Return(c, FlattenSeq(Split(blockqueue, n).taken))
      /\ blockqueue' = Split(blockqueue, n).rest
      /\ length' = length - n
  BY DEF Take
<1>2. FlattenSeq(Split(blockqueue, n).taken) = Queue!First(n)
  BY TakesBytes DEF Queue!First
<1>3. Queue!Return(c, Queue!First(n)) /\ call' \in [Callers -> Calls \cup {NoCall}] /\ made' \in Nat
  BY <1>1, <1>2, Returns
<1>4. FlattenSeq(blockqueue') = Queue!After(n)
  BY <1>1, TakesBytes DEF Queue!After
<1>5. IInv'
  BY <1>1, <1>3, TakesBytes DEF IInv, Typed, LengthIsExact
<1> QED BY <1>3, <1>4, <1>5

LEMMA TakesSome ==
    ASSUME IInv, NEW c \in Callers, GetBytes(c)
    PROVE  IInv' /\ Queue!Serve(c)
<1> DEFINE n == SmallerOf(call[c].len, length)
<1>1. /\ call[c] # NoCall
      /\ call[c].op = "GetBytes"
      /\ call[c].offset \in Nat
      /\ call[c].offset < length
      /\ call[c].len \in Nat
  BY RunsFacts, CallFacts DEF GetBytes
<1>2. n \in Nat /\ n <= length /\ n = Queue!AtMost(call[c].len)
  BY <1>1, StreamFacts DEF SmallerOf, Queue!AtMost
<1>3. Take(c, n)
  BY DEF GetBytes
<1> HIDE DEF n
<1>4. IInv' /\ Queue!Return(c, Queue!First(n)) /\ FlattenSeq(blockqueue)' = Queue!After(n)
  BY <1>2, <1>3, Takes
<1>5. FlattenSeq(blockqueue) # <<>>
  BY <1>1, StreamFacts
<1>6. Queue!Get(c)
  BY <1>1, <1>2, <1>4, <1>5 DEF Queue!Get
<1> QED BY <1>1, <1>4, <1>6 DEF Queue!Serve

LEMMA TakesExactly ==
    ASSUME IInv, NEW c \in Callers, GetBlock(c)
    PROVE  IInv' /\ Queue!Serve(c)
<1>1. /\ call[c] # NoCall
      /\ call[c].op \in {"GetBlock", "GetBlocks"}
      /\ call[c].offset \in Nat
      /\ call[c].offset < length
      /\ call[c].len \in Nat
  <2>1. PICK op \in {"GetBlock", "GetBlocks"} : Runs(c, op)
    BY DEF GetBlock
  <2> QED BY <2>1, RunsFacts, CallFacts
<1>2. FlattenSeq(blockqueue) # <<>> /\ length = Len(FlattenSeq(blockqueue)) /\ length \in Nat
  BY <1>1, StreamFacts
<1>3. CASE length < call[c].len
  <2>1. Return(c, <<>>) /\ UNCHANGED stream
    BY <1>3 DEF GetBlock
  <2>2. IInv' /\ Queue!Return(c, <<>>) /\ FlattenSeq(blockqueue)' = FlattenSeq(blockqueue)
    BY <2>1, Returns
  <2>3. Queue!GetExactly(c)
    BY <1>1, <1>2, <1>3, <2>2 DEF Queue!GetExactly
  <2> QED BY <1>1, <2>2, <2>3 DEF Queue!Serve
<1>4. CASE ~ (length < call[c].len)
  <2>1. Take(c, call[c].len)
    BY <1>4 DEF GetBlock
  <2>2. /\ IInv'
        /\ Queue!Return(c, Queue!First(call[c].len))
        /\ FlattenSeq(blockqueue)' = Queue!After(call[c].len)
    BY <1>1, <1>2, <1>4, <2>1, Takes
  <2>3. Queue!GetExactly(c)
    BY <1>1, <1>2, <1>4, <2>2 DEF Queue!GetExactly
  <2> QED BY <1>1, <2>2, <2>3 DEF Queue!Serve
<1> QED BY <1>3, <1>4

LEMMA TakesAll ==
    ASSUME IInv, NEW c \in Callers, ToBlock(c)
    PROVE  IInv' /\ Queue!Serve(c)
<1>1. /\ call[c] # NoCall
      /\ call[c].op = "ToBlock"
      /\ call[c].offset \in Nat
      /\ call[c].offset < length
  BY RunsFacts, CallFacts DEF ToBlock
<1>2. /\ FlattenSeq(blockqueue) # <<>>
      /\ length = Len(FlattenSeq(blockqueue))
      /\ length \in Nat
      /\ FlattenSeq(blockqueue) \in Seq(Nat)
  BY <1>1, StreamFacts
<1>3. IInv' /\ Queue!Return(c, Queue!First(length)) /\ FlattenSeq(blockqueue)' = Queue!After(length)
  BY <1>2, Takes DEF ToBlock
<1>4. Queue!First(length) = FlattenSeq(blockqueue)
  BY <1>2, SubSeqFull DEF Queue!First
<1>5. Queue!After(length) = <<>>
  BY <1>2, SubSeqEmpty DEF Queue!After
<1>6. Queue!GetAll(c)
  BY <1>1, <1>2, <1>3, <1>4, <1>5 DEF Queue!GetAll
<1> QED BY <1>1, <1>3, <1>6 DEF Queue!Serve

\* The bytes of the front block are the first bytes, and the others follow.
LEMMA FrontIsFirst ==
    ASSUME IInv, blockqueue # <<>>
    PROVE  /\ Head(blockqueue) = Queue!First(Len(Head(blockqueue)))
           /\ FlattenSeq(Tail(blockqueue)) = Queue!After(Len(Head(blockqueue)))
           /\ Len(Head(blockqueue)) \in DOMAIN FlattenSeq(blockqueue)
<1> DEFINE b == Head(blockqueue)
           r == FlattenSeq(Tail(blockqueue))
<1>1. /\ b \in Seq(Nat)
      /\ r \in Seq(Nat)
      /\ FlattenSeq(blockqueue) = b \o r
      /\ Len(b) \in 1 .. length
  BY FrontBlockFacts
<1>2. /\ length = Len(FlattenSeq(blockqueue))
      /\ DOMAIN FlattenSeq(blockqueue) = 1 .. Len(FlattenSeq(blockqueue))
  BY StreamFacts
<1> HIDE DEF b, r
<1>3. SubSeq(b \o r, 1, Len(b)) = b /\ SubSeq(b \o r, Len(b) + 1, Len(b \o r)) = r
  BY <1>1, CutConcat
<1> QED BY <1>1, <1>2, <1>3 DEF b, r, Queue!First, Queue!After

LEMMA TakesFront ==
    ASSUME IInv, NEW c \in Callers, GetFront(c)
    PROVE  IInv' /\ Queue!Serve(c)
<1>1. /\ call[c] # NoCall
      /\ call[c].op = "GetFront"
      /\ call[c].offset \in Nat
      /\ call[c].offset < length
  BY RunsFacts, CallFacts DEF GetFront
<1>2. blockqueue # <<>>
  BY <1>1, SomeBlock, StreamFacts
<1>3. /\ Return(c, Head(blockqueue))
      /\ length' = length - Len(Head(blockqueue))
      /\ blockqueue' = Tail(blockqueue)
  BY DEF GetFront
<1>4. /\ Queue!Return(c, Head(blockqueue))
      /\ call' \in [Callers -> Calls \cup {NoCall}]
      /\ made' \in Nat
  BY <1>3, Returns
<1>5. IInv'
  BY <1>2, <1>3, <1>4, FrontBlockFacts DEF IInv, Typed, LengthIsExact
<1>6. FlattenSeq(blockqueue)' = Queue!After(Len(Head(blockqueue)))
  BY <1>2, <1>3, FrontIsFirst
<1>7. Queue!GetSome(c)
  BY <1>1, <1>2, <1>4, <1>6, FrontIsFirst DEF Queue!GetSome
<1> QED BY <1>1, <1>5, <1>7 DEF Queue!Serve

LEMMA ShowsFront ==
    ASSUME IInv, NEW c \in Callers, FrontBlock(c)
    PROVE  IInv' /\ Queue!Serve(c)
<1>1. /\ call[c] # NoCall
      /\ call[c].op = "Front"
      /\ call[c].offset \in Nat
      /\ call[c].offset < length
  BY RunsFacts, CallFacts DEF FrontBlock
<1>2. blockqueue # <<>>
  BY <1>1, SomeBlock, StreamFacts
<1>3. Return(c, Head(blockqueue)) /\ UNCHANGED stream
  BY DEF FrontBlock
<1>4. /\ Queue!Return(c, Head(blockqueue))
      /\ IInv'
      /\ FlattenSeq(blockqueue)' = FlattenSeq(blockqueue)
  BY <1>3, Returns
<1>5. Queue!GetSome(c)
  BY <1>1, <1>2, <1>4, FrontIsFirst DEF Queue!GetSome
<1> QED BY <1>1, <1>4, <1>5 DEF Queue!Serve

\* The invariant survives a Peek at any offset; without an offset it returns
\* what a queue of bytes does.
LEMMA Peeks ==
    ASSUME IInv, NEW c \in Callers, PeekBytes(c)
    PROVE  IInv' /\ (Offsets \subseteq {0} => Queue!Serve(c))
<1> DEFINE n == Queue!AtMost(call[c].len)
<1>1. /\ call[c] # NoCall
      /\ call[c].op = "PeekBytes"
      /\ call[c].offset \in Nat
      /\ call[c].offset < length
      /\ call[c].len \in Nat
      /\ call[c].len > 0
      /\ call[c].offset \in Offsets
  BY RunsFacts, CallFacts DEF PeekBytes
<1>2. PICK s : Return(c, s) /\ UNCHANGED stream
  BY DEF PeekBytes
<1>3. IInv' /\ FlattenSeq(blockqueue)' = FlattenSeq(blockqueue)
  BY <1>2, Returns
<1>4. ASSUME Offsets \subseteq {0}
      PROVE  Queue!Serve(c)
  <2>1. call[c].offset = 0
    BY <1>1, <1>4
  <2>2. length = Len(FlattenSeq(blockqueue)) /\ length \in Nat
    BY StreamFacts
  <2>3. n \in Nat /\ n > 0 /\ n <= length
    BY <1>1, <2>1, <2>2 DEF Queue!AtMost
  <2>4. SmallerOf(SmallerOf(call[c].len, length), length - 0) = n
    BY <1>1, <2>2 DEF SmallerOf, Queue!AtMost
  <2>5. Return(c, Peek(blockqueue, n, 0))
    BY <2>1, <2>4 DEF PeekBytes
  <2>6. Peek(blockqueue, n, 0) = SubSeq(FlattenSeq(blockqueue), 1, n)
    BY <2>2, <2>3, PeekFacts DEF IInv, Typed
  <2>7. Queue!Return(c, SubSeq(FlattenSeq(blockqueue), 1, n))
    BY <2>5, <2>6, Returns
  <2>8. call[c].offset + 1 = 1 /\ call[c].offset + call[c].len = call[c].len
    BY <1>1, <2>1
  <2> HIDE DEF n
  <2>9. Queue!Return(c, SubSeq(FlattenSeq(blockqueue), call[c].offset + 1,
                               Queue!AtMost(call[c].offset + call[c].len)))
    BY <2>7, <2>8 DEF n
  <2>10. Queue!Peek(c)
    BY <1>1, <1>3, <2>2, <2>9 DEF Queue!Peek
  <2> QED BY <1>1, <2>10 DEF Queue!Serve
<1> QED BY <1>3, <1>4

LEMMA FindsByte ==
    ASSUME IInv, NEW c \in Callers, ByteAt(c)
    PROVE  IInv' /\ Queue!Serve(c)
<1>1. /\ call[c] # NoCall
      /\ call[c].op = "ByteAt"
      /\ call[c].offset \in Nat
      /\ call[c].offset <= length
  BY RunsFacts, CallFacts DEF ByteAt
<1>2. length = Len(FlattenSeq(blockqueue))
  BY StreamFacts
<1>3. Return(c, Find(blockqueue, call[c].offset)) /\ UNCHANGED stream
  BY DEF ByteAt
<1>4. Find(blockqueue, call[c].offset)
         = SubSeq(FlattenSeq(blockqueue), call[c].offset + 1, Queue!AtMost(call[c].offset + 1))
  BY <1>1, <1>2, FindFacts DEF Queue!AtMost, IInv, Typed
<1>5. /\ Queue!Return(c, Find(blockqueue, call[c].offset))
      /\ IInv'
      /\ FlattenSeq(blockqueue)' = FlattenSeq(blockqueue)
  BY <1>3, Returns
<1>6. Queue!ByteAt(c)
  BY <1>1, <1>2, <1>4, <1>5 DEF Queue!ByteAt
<1> QED BY <1>1, <1>5, <1>6 DEF Queue!Serve

LEMMA GivesUp ==
    ASSUME IInv, NEW c \in Callers, GiveUp(c)
    PROVE  IInv' /\ Queue!Serve(c)
<1>1. /\ call[c] # NoCall
      /\ Short(call[c])
      /\ eos
      /\ Return(c, <<>>)
      /\ UNCHANGED stream
  BY DEF GiveUp
<1>2. /\ call[c].offset \in Nat
      /\ length = Len(FlattenSeq(blockqueue))
      /\ length \in Nat
  BY <1>1, CallFacts, StreamFacts
<1>3. call[c].offset >= Len(FlattenSeq(blockqueue))
  BY <1>1, <1>2 DEF Short
<1>4. /\ Queue!Return(c, <<>>)
      /\ IInv'
      /\ FlattenSeq(blockqueue)' = FlattenSeq(blockqueue)
  BY <1>1, Returns
<1>5. Queue!GiveUp(c)
  BY <1>1, <1>3, <1>4 DEF Queue!GiveUp
<1> QED BY <1>1, <1>4, <1>5 DEF Queue!Serve

-----------------------------------------------------------------------------
(* The theorems *)

\* A step of the stream is a step of the queue of bytes, or none of it.
LEMMA Steps ==
    ASSUME IInv, [Next]_vars
    PROVE  IInv' /\ (Offsets \subseteq {0} => [Queue!Next]_(Queue!vars))
<1>1. CASE \E n \in 1 .. MaxBlock : PushBack(n) \/ PushFront(n)
  BY <1>1, PushesBack, PushesFront DEF Queue!Next
<1>2. CASE PopAndDeleteFront
  BY <1>2, Pops DEF Queue!Next
<1>3. CASE \E n \in Lengths : EraseFront(n)
  BY <1>3, Erases DEF Queue!Next
<1>4. CASE Clear
  BY <1>4, Clears DEF Queue!Next
<1>5. CASE SetEOS
  BY <1>5, Announces DEF Queue!Next
<1>6. ASSUME NEW c \in Callers, Proceed(c)
      PROVE  IInv' /\ (Offsets \subseteq {0} => [Queue!Next]_(Queue!vars))
  <2>1. CASE Wait(c)
    BY <2>1, FallsAsleep
  <2>2. CASE GetBytes(c) \/ GetBlock(c) \/ ToBlock(c) \/ GetFront(c) \/ FrontBlock(c)
    BY <2>2, TakesSome, TakesExactly, TakesAll, TakesFront, ShowsFront DEF Queue!Next
  <2>3. CASE PeekBytes(c)
    BY <2>3, Peeks DEF Queue!Next
  <2>4. CASE ByteAt(c) \/ GiveUp(c)
    BY <2>4, FindsByte, GivesUp DEF Queue!Next
  <2> QED BY <1>6, <2>1, <2>2, <2>3, <2>4 DEF Proceed
<1>7. ASSUME NEW c \in Callers, NEW q \in Calls, Enter(c, q)
      PROVE  IInv' /\ (Offsets \subseteq {0} => [Queue!Next]_(Queue!vars))
  BY <1>7, Enters DEF Queue!Next
<1>8. CASE UNCHANGED vars
  BY <1>8, Stutters
<1> QED BY <1>1, <1>2, <1>3, <1>4, <1>5, <1>6, <1>7, <1>8 DEF Next

LEMMA Invariance == Spec => []IInv
<1>1. Init => IInv
  BY Begins
<1>2. IInv /\ [Next]_vars => IInv'
  BY Steps
<1> QED BY <1>1, <1>2, PTL DEF Spec

\* The count that every method of the monitor decides by, and that bounds the
\* loops over the blocks (BlockStream.cpp 121, 157, 258), is always the number
\* of bytes in the blocks: whatever is pushed, cut, popped or erased.
THEOREM CountIsExact == Spec => []LengthIsExact
<1>1. IInv => LengthIsExact
  BY DEF IInv
<1> QED BY <1>1, Invariance, PTL

\* For any number of callers and any blocks, the methods of the monitor return
\* what a queue of bytes returns, and leave it the bytes that they did not take:
\* each step of the stream is a step of ByteQueue or stutters.  The hypothesis
\* is that PeekBytes skips nothing: AbstractChunk.cpp 90 passes an offset on, but
\* nobody in the repository gives it one, and with an offset the code copies
\* other bytes (BlockStream.cpp 162).
THEOREM StreamIsByteQueue ==
    ASSUME Offsets \subseteq {0}
    PROVE  Spec => IsByteQueue
<1>1. Init => Queue!Init
  BY Begins
<1>2. IInv /\ [Next]_vars => [Queue!Next]_(Queue!vars)
  BY Steps
<1> QED BY <1>1, <1>2, Invariance, PTL DEF Spec, IsByteQueue, Queue!Spec
=============================================================================
