------------------------- MODULE ContentServerProofs ------------------------
(***************************************************************************)
(* Proofs about ContentServer for every number of frames, rate and length  *)
(* of a segment: type correctness, how long segments are, that they follow *)
(* each other through the sampled frames, and that the bandwidth is that   *)
(* of the largest segment.                                                 *)
(*                                                                         *)
(* The place of a segment needs the counts to be what the script computed  *)
(* from the directory (Counting), and the start of the next segment to be  *)
(* the end of all before it (Position).  That the directory holds the      *)
(* frames that the segments span needs what it holds at each turn of the   *)
(* sampling loop (Sampling): the digits of a number are never among those  *)
(* of a smaller one, so the files that are there already do not match.     *)
(***************************************************************************)
EXTENDS ContentServer, FiniteSetTheorems, TLAPS

-----------------------------------------------------------------------------
(* Arithmetic *)

LEMMA DivBounds ==
    ASSUME NEW a \in Nat, NEW b \in Nat \ {0}
    PROVE  /\ a \div b \in Nat
           /\ b * (a \div b) <= a
           /\ a < b * (a \div b) + b
  OBVIOUS

LEMMA ProductNat ==
    ASSUME NEW a \in Nat, NEW b \in Nat
    PROVE  a * b \in Nat
  OBVIOUS

LEMMA ProductMonotonic ==
    ASSUME NEW a \in Nat, NEW b \in Nat, NEW c \in Nat, a <= b
    PROVE  a * c <= b * c
  OBVIOUS

LEMMA ProductCancels ==
    ASSUME NEW a \in Nat, NEW b \in Nat, NEW c \in Nat, a * c < b * c
    PROVE  a < b
  OBVIOUS

LEMMA NextMultiple ==
    ASSUME NEW a \in Nat, NEW b \in Nat
    PROVE  (a + 1) * b = a * b + b
  OBVIOUS

\* Cutting n things into pieces of at least N: there are n \div N pieces, and
\* each has from N to 2N - 1 things, with fewer things left over than pieces.
LEMMA CutBounds ==
    ASSUME NEW n \in Nat, NEW N \in Nat \ {0}, n \div N > 0
    PROVE  /\ n \div (n \div N) \in N .. 2 * N - 1
           /\ (n \div N) * (n \div (n \div N)) <= n
           /\ n - (n \div N) * (n \div (n \div N)) < n \div N
<1> DEFINE s == n \div N
           c == n \div s
<1>1. s \in Nat \ {0} /\ N * s <= n /\ n < N * s + N
  BY DivBounds
<1>2. c \in Nat /\ s * c <= n /\ n < s * c + s
  <2> HIDE DEF s
  <2> QED
    BY <1>1, DivBounds
<1> HIDE DEF s, c
<1>3. N <= c
  <2> SUFFICES N < c + 1
    BY <1>2
  <2>1. (c + 1) * s = s * c + s /\ N * s < (c + 1) * s
    BY <1>1, <1>2, ProductNat, NextMultiple
  <2> QED
    BY <1>1, <1>2, <2>1, ProductCancels
<1>4. c < 2 * N
  <2>1. N * 1 <= N * s /\ N * 1 = N
    BY <1>1, ProductMonotonic
  <2>2. c * s < (2 * N) * s
    <3>1. (2 * N) * s = N * s + N * s /\ c * s = s * c
      BY <1>1, <1>2
    <3> QED
      BY <1>1, <1>2, <2>1, <3>1, ProductNat
  <2> QED
    BY <1>1, <1>2, <2>2, ProductCancels
<1> QED
  BY <1>1, <1>2, <1>3, <1>4 DEF s, c

-----------------------------------------------------------------------------
(* The invariant *)

\* The counts that lines 78, 79 and 83 computed, from then on.
Counting ==
    IF step \in {"sample", "count"}
    THEN NUM_OF_SEG = 0 /\ FRAME_COUNT = 0 /\ starts = <<>>
    ELSE /\ NUM_OF_SEG = NUM_OF_FRAMES \div FRAME_PER_SEG
         /\ FRAME_COUNT = FramesIn(NUM_OF_SEG, NUM_OF_FRAMES)
         /\ Len(starts) <= NUM_OF_SEG

\* The next segment starts where the last one ends.
Position ==
    /\ START_FRAME = first + Len(starts) * FRAME_COUNT
    /\ \A i \in 1 .. Len(starts) : starts[i] = first + (i - 1) * FRAME_COUNT

\* Frame k of the sampled ones is k sampling terms behind the first.
Place(n) == first + (n - first) * term

\* With unambiguous names, the directory holds the frames that were sampled
\* before this turn of the loop, under the next numbers from START_FRAME.
Sampling ==
    Unambiguous =>
        /\ first <= idx
        /\ f_idx = Place(idx)
        /\ DOMAIN target_d = {<<"", n>> : n \in first .. idx - 1}
        /\ \A n \in first .. idx - 1 : target_d[<<"", n>>] = Place(n)
        /\ Cardinality(DOMAIN target_d) = idx - first
        /\ step \notin {"sample", "count"} => NUM_OF_FRAMES = idx - first

IInv ==
    /\ TypeOK
    /\ IsFiniteSet(frames) /\ IsFiniteSet(DOMAIN target_d)
    /\ Counting
    /\ Position
    /\ Sampling

-----------------------------------------------------------------------------
(* Digits *)

\* The digits of a number are not among those of a smaller one.
LEMMA ContainsOnlyUp ==
    ASSUME NEW n \in Nat, NEW i \in Nat, Contains(n, i)
    PROVE  i <= n
<1>1. PICK low \in {1, 10, 100, 1000}, width \in {10, 100, 1000, 10000} :
          (n \div low) % width = i
  BY DEF Contains
<1>2. low \in Nat \ {0} /\ width \in Nat \ {0}
  OBVIOUS
<1>3. n \div low \in Nat /\ n \div low <= n
  <2>1. n \div low \in Nat /\ low * (n \div low) <= n
    BY <1>2, DivBounds
  <2>2. 1 * (n \div low) <= low * (n \div low) /\ 1 * (n \div low) = n \div low
    BY <1>2, <2>1, ProductMonotonic
  <2> QED
    BY <1>2, <2>1, <2>2, ProductNat
<1>4. \A a \in Nat : \A b \in Nat \ {0} : a % b \in Nat /\ a % b <= a
  OBVIOUS
<1> DEFINE d == n \div low
<1>5. d % width <= d
  <2> HIDE DEF d
  <2> QED
    BY <1>2, <1>3, <1>4 DEF d
<1> QED
  BY <1>1, <1>3, <1>5

-----------------------------------------------------------------------------
(* The directory *)

Copies == {<<prefix, n>> : n \in {m \in frames : Contains(m, f_idx)}}

\* cp adds frame files under their own names.
LEMMA CopiedFiles ==
    ASSUME TypeOK, IsFiniteSet(frames), IsFiniteSet(DOMAIN target_d)
    PROVE  /\ DOMAIN Copied = DOMAIN target_d \cup Copies
           /\ DOMAIN Copied \subseteq Names
           /\ IsFiniteSet(DOMAIN Copied)
           /\ Copied \in [DOMAIN Copied -> frames]
           /\ \A name \in DOMAIN Copied : name \notin Copies => Copied[name] = target_d[name]
           /\ \A n \in Nat : <<prefix, n>> \in Copies => Copied[<<prefix, n>>] = n
<1> DEFINE S == {m \in frames : Contains(m, f_idx)}
<1>1. Copied = [name \in DOMAIN target_d \cup Copies |->
                   IF name \in Copies THEN name[2] ELSE target_d[name]]
  BY DEF Copied, Copies
<1>2. S \subseteq frames /\ frames \subseteq Nat /\ prefix \in Prefixes
  BY ServerAssumption DEF TypeOK
<1>3. IsFiniteSet(Copies)
  <2> DEFINE f == [m \in S |-> <<prefix, m>>]
  <2>1. IsFiniteSet(S)
    BY <1>2, FS_Subset
  <2>2. f \in Surjection(S, Copies)
    BY DEF Surjection, Copies
  <2> QED
    BY <2>1, <2>2, FS_Surjection
<1>4. \A name \in Copies : name \in Names /\ name[2] \in frames
  BY <1>2 DEF Copies, Names
<1>5. DOMAIN Copied = DOMAIN target_d \cup Copies
  BY <1>1
<1>6. DOMAIN Copied \subseteq Names
  BY <1>4, <1>5 DEF TypeOK
<1>7. IsFiniteSet(DOMAIN Copied)
  BY <1>3, <1>5, FS_Union
<1>8. Copied \in [DOMAIN Copied -> frames]
  <2>1. ASSUME NEW name \in DOMAIN target_d \cup Copies
        PROVE  (IF name \in Copies THEN name[2] ELSE target_d[name]) \in frames
    BY <1>4 DEF TypeOK
  <2> QED
    BY <1>1, <2>1
<1>9. \A name \in DOMAIN Copied : name \notin Copies => Copied[name] = target_d[name]
  BY <1>1
<1>10. \A n \in Nat : <<prefix, n>> \in Copies => Copied[<<prefix, n>>] = n
  BY <1>1
<1> QED
  BY <1>5, <1>6, <1>7, <1>8, <1>9, <1>10

\* With unambiguous names, only the file just copied can match, and what was
\* there before stays as it is.
LEMMA OnlyTheCopyMatches ==
    ASSUME IInv, Unambiguous, f_idx < first + Cardinality(frames)
    PROVE  /\ first <= idx /\ idx <= f_idx
           /\ Copies \subseteq {<<prefix, f_idx>>}
           /\ Matching \subseteq Copies
           /\ Copies \subseteq Matching
           /\ <<prefix, f_idx>> \notin DOMAIN target_d
           /\ prefix # ""
<1> USE DEF IInv
<1>1. /\ first <= idx /\ f_idx = Place(idx)
      /\ DOMAIN target_d = {<<"", n>> : n \in first .. idx - 1}
      /\ prefix # ""
  BY DEF Sampling, Unambiguous
<1>2. first <= idx
  BY <1>1
<1>3. /\ first \in Nat /\ idx \in Nat /\ f_idx \in Nat /\ term \in Nat /\ 1 <= term
      /\ Cardinality(frames) \in Nat
  <2>1. /\ first \in Nat /\ idx \in Nat /\ f_idx \in Nat /\ term \in 1 .. MaxRate
        /\ IsFiniteSet(frames)
    BY DEF TypeOK
  <2>2. Cardinality(frames) \in Nat
    BY <2>1, FS_CardinalityType
  <2> QED
    BY <2>1, <2>2, ServerAssumption
<1>4. idx <= f_idx
  <2>1. idx - first \in Nat /\ 1 * (idx - first) <= term * (idx - first)
    BY <1>2, <1>3, ProductMonotonic
  <2>2. 1 * (idx - first) = idx - first /\ term * (idx - first) = (idx - first) * term
    BY <1>3, <2>1
  <2>3. f_idx = first + (idx - first) * term
    BY <1>1 DEF Place
  <2>4. (idx - first) * term \in Nat
    BY <1>3, <2>1, ProductNat
  <2> DEFINE p == (idx - first) * term
  <2>5. idx - first <= p /\ f_idx = first + p /\ p \in Nat
    BY <2>1, <2>2, <2>3, <2>4
  <2> HIDE DEF p
  <2> QED
    BY <1>3, <2>5
<1>5. f_idx \in first .. first + Cardinality(frames)
  BY <1>2, <1>3, <1>4
<1>6. \A n \in frames : Contains(n, f_idx) => n = f_idx
  BY <1>5 DEF Unambiguous
<1>7. Copies \subseteq {<<prefix, f_idx>>}
  BY <1>6 DEF Copies
<1>8. ASSUME NEW name \in DOMAIN target_d PROVE ~ Contains(name[2], f_idx)
  <2>1. PICK n \in first .. idx - 1 : name = <<"", n>>
    BY <1>1
  <2>2. name[2] = n
    BY <2>1
  <2>3. n \in Nat /\ n < f_idx
    BY <1>3, <1>4
  <2> QED
    BY <1>3, <2>2, <2>3, ContainsOnlyUp
<1>9. Matching \subseteq Copies
  BY <1>8, CopiedFiles DEF Matching
<1>10. Copies \subseteq Matching
  <2>1. \A name \in Copies : Contains(name[2], f_idx)
    BY DEF Copies
  <2> QED
    BY <2>1, CopiedFiles DEF Matching
<1>11. <<prefix, f_idx>> \notin DOMAIN target_d
  BY <1>1
<1> QED
  BY <1>1, <1>4, <1>7, <1>9, <1>10, <1>11

-----------------------------------------------------------------------------
(* The invariant is inductive *)

LEMMA FramesFinite ==
    ASSUME frames \subseteq first .. first + MaxFrames, first \in Nat
    PROVE  IsFiniteSet(frames)
<1>1. IsFiniteSet(first .. first + MaxFrames)
  BY ServerAssumption, FS_Interval
<1> QED
  BY <1>1, FS_Subset

LEMMA InvInit ==
    ASSUME Init
    PROVE  IInv
<1>1. term \in 1 .. MaxRate
  <2>1. PICK fps \in Rates : term = MaxRate \div fps
    BY DEF Init
  <2>2. fps \in Nat \ {0} /\ fps <= MaxRate /\ MaxRate \in Nat
    BY ServerAssumption
  <2>3. term \in Nat /\ fps * term <= MaxRate /\ MaxRate < fps * term + fps
    BY <2>1, <2>2, DivBounds
  <2>4. term # 0
    BY <2>2, <2>3
  <2>5. 1 * term <= fps * term /\ 1 * term = term
    BY <2>2, <2>3, ProductMonotonic
  <2> QED
    BY <2>2, <2>3, <2>4, <2>5, ProductNat
<1>2. first \in Nat \ {0} /\ frames \subseteq first .. first + MaxFrames
  <2>1. first \in Nat \ {0}
    BY ServerAssumption DEF Init
  <2>2. PICK n \in 0 .. MaxFrames, gap \in first .. first + MaxFrames :
            frames = (first .. first + n - 1) \ {gap}
    BY DEF Init
  <2> QED
    BY <2>1, <2>2, ServerAssumption
<1>3. DOMAIN target_d = {} /\ target_d \in [DOMAIN target_d -> frames]
  BY DEF Init
<1>4. TypeOK
  BY <1>1, <1>2, <1>3, ServerAssumption DEF Init, TypeOK, Steps
<1>5. IsFiniteSet(frames) /\ IsFiniteSet(DOMAIN target_d)
      /\ Cardinality(DOMAIN target_d) = 0
  BY <1>2, <1>3, FramesFinite, FS_EmptySet
<1>6. Counting
  BY DEF Init, Counting
<1>7. Position
  BY <1>2 DEF Init, Position
<1>8. Sampling
  <2>1. first .. idx - 1 = {} /\ idx = first /\ f_idx = first /\ step = "sample"
    BY <1>2 DEF Init
  <2>2. f_idx = Place(idx)
    BY <1>1, <1>2, <2>1, ServerAssumption DEF Place
  <2>3. {<<"", n>> : n \in first .. idx - 1} = {}
    BY <2>1
  <2>4. first <= idx /\ idx - first = 0
    BY <1>2, <2>1
  <2> QED
    BY <1>3, <1>5, <2>1, <2>2, <2>3, <2>4 DEF Sampling
<1> QED
  BY <1>4, <1>5, <1>6, <1>7, <1>8 DEF IInv

\* The loop over the segments appends one start to those that there are.
LEMMA AppendStart ==
    ASSUME TypeOK, starts' = Append(starts, START_FRAME)
    PROVE  /\ Len(starts) \in Nat
           /\ starts' \in Seq(Nat)
           /\ Len(starts') = Len(starts) + 1
           /\ \A i \in 1 .. Len(starts) : starts'[i] = starts[i]
           /\ starts'[Len(starts) + 1] = START_FRAME
  BY DEF TypeOK

\* One turn of the sampling loop.
LEMMA InvSampleFrame ==
    ASSUME IInv, SampleFrame
    PROVE  IInv'
<1> USE DEF IInv
<1> DEFINE new == <<"", idx>>
<1>1. PICK name \in Matching :
          /\ Matching = {name}
          /\ name # new
          /\ target_d' = [x \in (DOMAIN Copied \ {name}) \cup {new} |->
                            IF x = new THEN Copied[name] ELSE Copied[x]]
  BY DEF SampleFrame, Renamable, NewNumber
<1>2. /\ f_idx' = f_idx + term /\ idx' = idx + 1
      /\ step = "sample" /\ f_idx < first + Cardinality(frames)
      /\ UNCHANGED <<step, run, first, prefix, frames, term, NUM_OF_FRAMES, NUM_OF_SEG,
                     FRAME_COUNT, START_FRAME, starts, file, BANDWIDTH, urls>>
  BY DEF SampleFrame, inputs, counts, encoding
<1>3. /\ first \in Nat /\ idx \in Nat /\ f_idx \in Nat /\ term \in Nat
      /\ idx' \in Nat /\ f_idx' \in Nat
  <2>1. first \in Nat /\ idx \in Nat /\ f_idx \in Nat /\ term \in 1 .. MaxRate
    BY DEF TypeOK
  <2> QED
    BY <1>2, <2>1, ServerAssumption
<1>4. name \in DOMAIN Copied
  BY DEF Matching
<1>5. DOMAIN target_d' = (DOMAIN Copied \ {name}) \cup {new}
  BY <1>1
<1>6. IsFiniteSet(DOMAIN target_d')
  <2>1. IsFiniteSet(DOMAIN Copied \ {name})
    BY CopiedFiles, FS_RemoveElement
  <2> HIDE DEF new
  <2> QED
    BY <1>5, <2>1, FS_AddElement
<1>7. DOMAIN target_d' \subseteq Names
  <2>1. new \in Names
    BY <1>3 DEF Names, Prefixes
  <2> QED
    BY <1>5, <2>1, CopiedFiles
<1>8. target_d' \in [DOMAIN target_d' -> frames]
  <2>1. Copied \in [DOMAIN Copied -> frames]
    BY CopiedFiles
  <2> HIDE DEF new
  <2> QED
    BY <1>1, <1>4, <1>5, <2>1
<1>9. TypeOK'
  BY <1>2, <1>3, <1>7, <1>8 DEF TypeOK
<1>10. Counting' /\ Position'
  BY <1>2 DEF Counting, Position
<1>11. Sampling'
  <2> SUFFICES ASSUME Unambiguous
               PROVE  /\ first <= idx'
                      /\ f_idx' = Place(idx')
                      /\ DOMAIN target_d' = {<<"", n>> : n \in first .. idx' - 1}
                      /\ \A n \in first .. idx' - 1 : target_d'[<<"", n>>] = Place(n)
                      /\ Cardinality(DOMAIN target_d') = idx' - first
    BY <1>2 DEF Sampling, Unambiguous, Place
  <2>1. /\ first <= idx /\ f_idx = Place(idx)
        /\ DOMAIN target_d = {<<"", n>> : n \in first .. idx - 1}
        /\ \A n \in first .. idx - 1 : target_d[<<"", n>>] = Place(n)
        /\ Cardinality(DOMAIN target_d) = idx - first
    BY DEF Sampling
  <2>2. /\ Copies \subseteq {<<prefix, f_idx>>}
        /\ Matching \subseteq Copies
        /\ <<prefix, f_idx>> \notin DOMAIN target_d
    BY <1>2, OnlyTheCopyMatches
  <2>3. name = <<prefix, f_idx>> /\ Copies = {name}
    BY <2>2
  <2>4. DOMAIN Copied \ {name} = DOMAIN target_d
    BY <2>2, <2>3, CopiedFiles
  <2>5. DOMAIN target_d' = DOMAIN target_d \cup {new}
    BY <1>5, <2>4
  <2>6. new \notin DOMAIN target_d
    <3>1. idx \notin first .. idx - 1
      BY <1>3
    <3> QED
      BY <2>1, <3>1
  <2>7. first <= idx /\ idx' = idx + 1
    BY <1>2, <2>1
  <2>8. first .. idx' - 1 = (first .. idx - 1) \cup {idx}
    BY <1>3, <2>7
  <2>9. DOMAIN target_d' = {<<"", n>> : n \in first .. idx' - 1}
    BY <2>1, <2>5, <2>8
  <2>10. Cardinality(DOMAIN target_d') = idx' - first
    <3>1. Cardinality(DOMAIN target_d') = Cardinality(DOMAIN target_d) + 1
      <4> HIDE DEF new
      <4> QED
        BY <2>5, <2>6, FS_AddElement
    <3>2. Cardinality(DOMAIN target_d) = idx - first
      BY <2>1
    <3> QED
      BY <1>3, <2>7, <3>1, <3>2
  <2>11. Place(idx') = Place(idx) + term
    <3>1. idx' - first = (idx - first) + 1 /\ idx - first \in Nat
      BY <1>3, <2>7
    <3>2. ((idx - first) + 1) * term = (idx - first) * term + term
          /\ (idx - first) * term \in Nat
      BY <1>3, <3>1, NextMultiple, ProductNat
    <3> DEFINE p == (idx - first) * term
    <3>3. Place(idx) = first + p /\ Place(idx') = first + ((idx - first) + 1) * term
      BY <3>1 DEF Place
    <3>4. Place(idx') = first + (p + term) /\ p \in Nat
      BY <3>2, <3>3
    <3> HIDE DEF p
    <3> QED
      BY <1>3, <3>3, <3>4
  <2>12. Copied[name] = Place(idx)
    BY <1>3, <2>1, <2>3, CopiedFiles
  <2>13. ASSUME NEW n \in first .. idx - 1
         PROVE  target_d'[<<"", n>>] = Place(n)
    <3>1. <<"", n>> \in DOMAIN target_d
      BY <2>1
    <3>2. <<"", n>> # new /\ <<"", n>> \in DOMAIN Copied \ {name}
      BY <2>4, <2>6, <3>1
    <3>3. target_d'[<<"", n>>] = Copied[<<"", n>>]
      BY <1>1, <3>2
    <3>4. Copied[<<"", n>>] = target_d[<<"", n>>]
      BY <2>3, <3>2, CopiedFiles
    <3> QED
      BY <2>1, <3>3, <3>4
  <2>14. target_d'[<<"", idx>>] = Place(idx)
    BY <1>1, <2>12
  <2>15. \A n \in first .. idx' - 1 : target_d'[<<"", n>>] = Place(n)
    BY <2>8, <2>13, <2>14
  <2>16. first <= idx' /\ f_idx' = Place(idx')
    <3>1. f_idx = Place(idx)
      BY <2>1
    <3> QED
      BY <1>2, <1>3, <2>7, <2>11, <3>1
  <2> QED
    BY <2>9, <2>10, <2>15, <2>16
<1> QED
  BY <1>2, <1>6, <1>9, <1>10, <1>11

\* mv fails, and the copies stay.
LEMMA InvBreakSampling ==
    ASSUME IInv, BreakSampling
    PROVE  IInv'
<1> USE DEF IInv
<1>1. /\ target_d' = Copied /\ step' = "count" /\ step = "sample"
      /\ f_idx < first + Cardinality(frames) /\ ~ Renamable
      /\ UNCHANGED <<run, first, prefix, frames, term, f_idx, idx, NUM_OF_FRAMES, NUM_OF_SEG,
                     FRAME_COUNT, START_FRAME, starts, file, BANDWIDTH, urls>>
  BY DEF BreakSampling, inputs, counts, encoding
<1>2. /\ IsFiniteSet(DOMAIN target_d') /\ DOMAIN target_d' \subseteq Names
      /\ target_d' \in [DOMAIN target_d' -> frames]
  BY <1>1, CopiedFiles
<1>3. TypeOK'
  BY <1>1, <1>2 DEF TypeOK, Steps
<1>4. Counting' /\ Position'
  BY <1>1 DEF Counting, Position
<1>5. Sampling'
  <2>1. ASSUME Unambiguous PROVE target_d' = target_d
    <3>1. /\ Copies \subseteq {<<prefix, f_idx>>} /\ Copies = Matching /\ prefix # ""
      BY <1>1, <2>1, OnlyTheCopyMatches
    <3>2. Copies = {}
      <4> SUFFICES ASSUME Matching = {<<prefix, f_idx>>} PROVE FALSE
        BY <3>1
      <4>1. <<prefix, f_idx>> # <<"", idx>>
        BY <3>1
      <4> QED
        BY <1>1, <4>1 DEF Renamable
    <3>3. DOMAIN Copied = DOMAIN target_d
          /\ \A name \in DOMAIN target_d : Copied[name] = target_d[name]
      BY <3>2, CopiedFiles
    <3>4. Copied \in [DOMAIN target_d -> frames] /\ target_d \in [DOMAIN target_d -> frames]
      BY <3>3, CopiedFiles DEF TypeOK
    <3> QED
      BY <1>1, <3>3, <3>4
  <2> QED
    BY <1>1, <2>1 DEF Sampling, Unambiguous, Place
<1> QED
  BY <1>1, <1>2, <1>3, <1>4, <1>5

LEMMA InvNext ==
    ASSUME IInv, [Next]_vars
    PROVE  IInv'
<1> USE DEF IInv
<1> USE ServerAssumption
<1>1. CASE SampleFrame
  BY <1>1, InvSampleFrame
<1>2. CASE BreakSampling
  BY <1>2, InvBreakSampling
<1>3. CASE EndSampling
  <2>1. step = "sample" /\ step' = "count"
        /\ UNCHANGED <<run, inputs, sampling, counts, encoding, urls>>
    BY <1>3 DEF EndSampling
  <2> QED
    BY <2>1 DEF TypeOK, Counting, Position, Sampling, Unambiguous, Place, Steps,
                inputs, sampling, counts, encoding
<1>4. CASE CountSegments
  <2>1. /\ step = "count" /\ step' = "encode"
        /\ NUM_OF_FRAMES' = Cardinality(DOMAIN target_d)
        /\ NUM_OF_SEG' = NUM_OF_FRAMES' \div FRAME_PER_SEG
        /\ FRAME_COUNT' = FramesIn(NUM_OF_SEG', NUM_OF_FRAMES')
        /\ UNCHANGED <<run, inputs, sampling, encoding, urls>>
    BY <1>4 DEF CountSegments, SegmentsOf
  <2>2. NUM_OF_FRAMES' \in Nat
    BY <2>1, FS_CardinalityType
  <2>3. NUM_OF_SEG' \in Nat
    BY <2>1, <2>2, DivBounds
  <2>4. FRAME_COUNT' \in Nat
    BY <2>1, <2>2, <2>3, DivBounds DEF FramesIn
  <2>5. TypeOK'
    BY <2>1, <2>2, <2>3, <2>4 DEF TypeOK, Steps, inputs, sampling, encoding
  <2>6. starts = <<>> /\ starts' = <<>> /\ START_FRAME' = START_FRAME /\ FRAME_COUNT = 0
    BY <2>1 DEF Counting, encoding
  <2>7. Counting'
    BY <2>1, <2>3, <2>6 DEF Counting
  <2>8. Position'
    BY <2>1, <2>4, <2>6 DEF Position, TypeOK, inputs
  <2>9. Sampling'
    BY <2>1 DEF Sampling, Unambiguous, Place, inputs, sampling
  <2>10. IsFiniteSet(frames') /\ IsFiniteSet(DOMAIN target_d')
    BY <2>1 DEF inputs, sampling
  <2> QED
    BY <2>5, <2>7, <2>8, <2>9, <2>10
<1>5. CASE EncodeSegment
  <2>1. /\ starts' = Append(starts, START_FRAME)
        /\ START_FRAME' = START_FRAME + FRAME_COUNT
        /\ UNCHANGED <<step, run, inputs, sampling, counts, urls>>
        /\ step = "encode" /\ Len(starts) < NUM_OF_SEG
    BY <1>5 DEF EncodeSegment
  <2>2. PICK size \in [Qualities -> {NoFile} \cup 1 .. MaxSize] :
            /\ file' = [q \in Qualities |-> Append(file[q], size[q])]
            /\ BANDWIDTH' = [q \in Qualities |-> Peak(size[q], BANDWIDTH[q])]
    BY <1>5 DEF EncodeSegment
  <2>3. file' \in [Qualities -> Seq({NoFile} \cup 1 .. MaxSize)]
    <3> DEFINE Sizes == {NoFile} \cup 1 .. MaxSize
    <3>1. file \in [Qualities -> Seq(Sizes)] /\ size \in [Qualities -> Sizes]
      BY DEF TypeOK
    <3> HIDE DEF Sizes
    <3>2. \A q \in Qualities : Append(file[q], size[q]) \in Seq(Sizes)
      BY <3>1
    <3> QED
      BY <2>2, <3>2 DEF Sizes
  <2>4. BANDWIDTH' \in [Qualities -> 0 .. MaxSize]
    <3>1. ASSUME NEW q \in Qualities
          PROVE  Peak(size[q], BANDWIDTH[q]) \in 0 .. MaxSize
      BY DEF TypeOK, Peak, NoFile
    <3> QED
      BY <2>2, <3>1
  <2>5. TypeOK'
    <3>1. starts' \in Seq(Nat) /\ START_FRAME' \in Nat
      BY <2>1, AppendStart DEF TypeOK
    <3>2. UNCHANGED <<step, run, first, prefix, frames, term, f_idx, idx, target_d,
                      NUM_OF_FRAMES, NUM_OF_SEG, FRAME_COUNT, urls>>
      BY <2>1 DEF inputs, sampling, counts
    <3> QED
      BY <2>3, <2>4, <3>1, <3>2 DEF TypeOK
  <2>6. Counting'
    BY <2>1, AppendStart DEF Counting, TypeOK, counts
  <2>7. Sampling' /\ IsFiniteSet(frames') /\ IsFiniteSet(DOMAIN target_d')
    BY <2>1 DEF Sampling, Unambiguous, Place, inputs, sampling, counts
  <2>8. Position'
    <3> DEFINE k == Len(starts)
    <3>1. k \in Nat /\ Len(starts') = k + 1 /\ FRAME_COUNT' = FRAME_COUNT
          /\ FRAME_COUNT \in Nat
      BY <2>1, AppendStart DEF counts, TypeOK
    <3> HIDE DEF k
    <3>2. (k + 1) * FRAME_COUNT = k * FRAME_COUNT + FRAME_COUNT
          /\ k * FRAME_COUNT \in Nat
      BY <3>1, NextMultiple, ProductNat
    <3>3. first \in Nat /\ first' = first
      BY <2>1 DEF inputs, TypeOK
    <3>4. START_FRAME = first + k * FRAME_COUNT
      BY DEF Position, k
    <3>5. START_FRAME' = first + Len(starts') * FRAME_COUNT'
      BY <2>1, <3>1, <3>2, <3>3, <3>4
    <3>6. ASSUME NEW i \in 1 .. k + 1
          PROVE  starts'[i] = first + (i - 1) * FRAME_COUNT
      <4>1. CASE i = k + 1
        BY <2>1, <3>1, <3>4, <4>1, AppendStart DEF k
      <4>2. CASE i \in 1 .. k
        BY <2>1, <3>1, <4>2, AppendStart DEF Position, k
      <4> QED
        BY <3>1, <4>1, <4>2
    <3> QED
      BY <3>1, <3>3, <3>5, <3>6 DEF Position
  <2> QED
    BY <2>5, <2>6, <2>7, <2>8
<1>6. CASE EndEncoding
  <2>1. step = "encode" /\ step' = "mpd"
        /\ UNCHANGED <<run, inputs, sampling, counts, encoding, urls>>
    BY <1>6 DEF EndEncoding
  <2> QED
    BY <2>1 DEF TypeOK, Counting, Position, Sampling, Unambiguous, Place, Steps,
                inputs, sampling, counts, encoding
<1>7. CASE GenerateMPD
  <2>1. step = "mpd" /\ step' = "done" /\ urls' = [q \in Qualities |-> 0 .. NUM_OF_SEG - 1]
        /\ UNCHANGED <<run, inputs, sampling, counts, encoding>>
    BY <1>7 DEF GenerateMPD
  <2>2. urls' \in [Qualities -> SUBSET Nat]
    BY <2>1 DEF TypeOK
  <2> QED
    BY <2>1, <2>2 DEF TypeOK, Counting, Position, Sampling, Unambiguous, Place, Steps,
                      inputs, sampling, counts, encoding
<1>8. CASE Rerun
  <2>1. /\ run' = run + 1 /\ step' = "sample"
        /\ f_idx' = first /\ idx' = first
        /\ NUM_OF_FRAMES' = 0 /\ NUM_OF_SEG' = 0 /\ FRAME_COUNT' = 0
        /\ START_FRAME' = first /\ starts' = <<>>
        /\ file' = [q \in Qualities |-> <<>>]
        /\ BANDWIDTH' = [q \in Qualities |-> 0]
        /\ urls' = [q \in Qualities |-> {}]
        /\ UNCHANGED <<first, prefix, frames, term, target_d>>
    BY <1>8 DEF Rerun, inputs
  <2>2. first \in Nat /\ run' \in Nat \ {0} /\ run' # 1
    BY <2>1 DEF TypeOK
  <2>3. TypeOK'
    BY <2>1, <2>2 DEF TypeOK, Steps
  <2>4. Counting' /\ Position'
    BY <2>1, <2>2 DEF Counting, Position
  <2>5. Sampling'
    BY <2>2 DEF Sampling, Unambiguous
  <2> QED
    BY <2>1, <2>3, <2>4, <2>5
<1>9. CASE UNCHANGED vars
  BY <1>9 DEF vars, TypeOK, Counting, Position, Sampling, Unambiguous, Place,
              inputs, sampling, counts, encoding
<1> QED
  BY <1>1, <1>2, <1>3, <1>4, <1>5, <1>6, <1>7, <1>8, <1>9 DEF Next

-----------------------------------------------------------------------------
(* Theorems *)

\* Every variable of createContent.sh keeps its type, and every file of the
\* sampling directory holds one of the frames.
THEOREM TypeCorrect == Spec => []TypeOK
<1>1. Init => IInv
  BY InvInit
<1>2. IInv /\ [Next]_vars => IInv'
  BY InvNext
<1>3. IInv => TypeOK
  BY DEF IInv
<1> QED
  BY <1>1, <1>2, <1>3, PTL DEF Spec

\* For every number of frames and every FRAME_PER_SEG, a segment is at least
\* that long and less than twice as long.
THEOREM SegmentsAreShort == Spec => []SegmentLength
<1>1. Init => IInv
  BY InvInit
<1>2. IInv /\ [Next]_vars => IInv'
  BY InvNext
<1>3. IInv => SegmentLength
  <2> SUFFICES ASSUME IInv, step \notin {"sample", "count"}, NUM_OF_SEG > 0
               PROVE  FRAME_COUNT \in FRAME_PER_SEG .. 2 * FRAME_PER_SEG - 1
    BY DEF SegmentLength
  <2>1. NUM_OF_SEG = NUM_OF_FRAMES \div FRAME_PER_SEG
        /\ FRAME_COUNT = NUM_OF_FRAMES \div NUM_OF_SEG
    BY DEF IInv, TypeOK, Counting, FramesIn
  <2> QED
    BY <2>1, CutBounds, ServerAssumption DEF IInv, TypeOK
<1> QED
  BY <1>1, <1>2, <1>3, PTL DEF Spec

\* Segments follow each other without gap or overlap through the numbers of the
\* frames that line 78 counts, with less than a frame per segment left over at
\* the end; where the names are unambiguous, each of these numbers is a file of
\* the directory and holds the frame that belongs there.
THEOREM SegmentsFollow == Spec => []SegmentsTile
<1>1. Init => IInv
  BY InvInit
<1>2. IInv /\ [Next]_vars => IInv'
  BY InvNext
<1>3. IInv => SegmentsTile
  <2> SUFFICES ASSUME IInv PROVE SegmentsTile
    OBVIOUS
  <2>1. NUM_OF_FRAMES \in Nat /\ NUM_OF_SEG \in Nat /\ FRAME_COUNT \in Nat
        /\ FRAME_PER_SEG \in Nat \ {0} /\ first \in Nat
        /\ DOMAIN starts = 1 .. Len(starts) /\ Len(starts) \in Nat
    BY ServerAssumption DEF IInv, TypeOK
  <2>2. ASSUME step \notin {"sample", "count"}, NUM_OF_SEG > 0
        PROVE  NUM_OF_SEG * FRAME_COUNT <= NUM_OF_FRAMES
               /\ NUM_OF_FRAMES - NUM_OF_SEG * FRAME_COUNT < NUM_OF_SEG
    <3>1. NUM_OF_SEG = NUM_OF_FRAMES \div FRAME_PER_SEG
          /\ FRAME_COUNT = NUM_OF_FRAMES \div NUM_OF_SEG
      BY <2>2 DEF IInv, TypeOK, Counting, FramesIn
    <3> QED
      BY <2>1, <2>2, <3>1, CutBounds
  <2>3. ASSUME NEW i \in DOMAIN starts
        PROVE  /\ starts[i] = first + (i - 1) * FRAME_COUNT
               /\ starts[i] + FRAME_COUNT <= first + NUM_OF_FRAMES
    <3>1. starts[i] = first + (i - 1) * FRAME_COUNT
      BY <2>1, <2>3 DEF IInv, Position
    <3>2. step \notin {"sample", "count"} /\ i <= NUM_OF_SEG /\ i - 1 \in Nat
      BY <2>1, <2>3 DEF IInv, Counting
    <3>3. i * FRAME_COUNT = (i - 1) * FRAME_COUNT + FRAME_COUNT
          /\ (i - 1) * FRAME_COUNT \in Nat
      <4>1. (i - 1) + 1 = i
        BY <2>1
      <4> QED
        BY <2>1, <3>2, <4>1, NextMultiple, ProductNat
    <3>4. i * FRAME_COUNT <= NUM_OF_SEG * FRAME_COUNT
          /\ NUM_OF_SEG * FRAME_COUNT \in Nat
      BY <2>1, <3>2, ProductMonotonic, ProductNat
    <3>5. NUM_OF_SEG * FRAME_COUNT <= NUM_OF_FRAMES
      <4>1. NUM_OF_SEG > 0
        BY <2>1, <3>2
      <4> QED
        BY <2>2, <3>2, <4>1
    <3>6. i * FRAME_COUNT <= NUM_OF_FRAMES
      <4>1. i * FRAME_COUNT \in Nat
        BY <2>1, ProductNat
      <4> QED
        BY <2>1, <3>4, <3>5, <4>1
    <3>7. starts[i] + FRAME_COUNT = first + i * FRAME_COUNT
      BY <2>1, <3>1, <3>3
    <3> QED
      BY <2>1, <3>1, <3>3, <3>6, <3>7
  <2>4. ASSUME step = "done"
        PROVE  LET left == NUM_OF_FRAMES - NUM_OF_SEG * FRAME_COUNT
               IN  IF NUM_OF_SEG = 0 THEN left < FRAME_PER_SEG ELSE left < NUM_OF_SEG
    <3>1. CASE NUM_OF_SEG = 0
      <4>1. NUM_OF_FRAMES \div FRAME_PER_SEG = 0 /\ FRAME_COUNT = 0
        BY <2>4, <3>1 DEF IInv, Counting, FramesIn
      <4>2. NUM_OF_FRAMES < FRAME_PER_SEG * 0 + FRAME_PER_SEG
        BY <2>1, <4>1, DivBounds
      <4> QED
        BY <2>1, <3>1, <4>1, <4>2
    <3>2. CASE NUM_OF_SEG # 0
      BY <2>1, <2>2, <2>4, <3>2
    <3> QED
      BY <3>1, <3>2
  <2>5. ASSUME Unambiguous, NEW i \in DOMAIN starts,
               NEW n \in starts[i] .. starts[i] + FRAME_COUNT - 1
        PROVE  /\ <<"", n>> \in DOMAIN target_d
               /\ target_d[<<"", n>>] = first + (n - first) * term
    <3>1. /\ DOMAIN target_d = {<<"", k>> : k \in first .. idx - 1}
          /\ \A k \in first .. idx - 1 : target_d[<<"", k>>] = first + (k - first) * term
          /\ first <= idx
      BY <2>5 DEF IInv, Sampling, Place
    <3>2. NUM_OF_FRAMES = idx - first
      <4>1. step \notin {"sample", "count"}
        BY <2>1, <2>5 DEF IInv, Counting
      <4> QED
        BY <2>5, <4>1 DEF IInv, Sampling
    <3>3. /\ starts[i] = first + (i - 1) * FRAME_COUNT
          /\ starts[i] + FRAME_COUNT <= first + NUM_OF_FRAMES
      BY <2>3
    <3>4. (i - 1) * FRAME_COUNT \in Nat
      <4>1. i - 1 \in Nat
        BY <2>1
      <4> QED
        BY <2>1, <4>1, ProductNat
    <3> DEFINE p == (i - 1) * FRAME_COUNT
    <3>5. /\ starts[i] = first + p /\ p \in Nat /\ first + p + FRAME_COUNT <= idx
          /\ idx \in Nat
      BY <2>1, <3>2, <3>3, <3>4 DEF IInv, TypeOK
    <3> HIDE DEF p
    <3>6. n \in first .. idx - 1
      BY <2>1, <3>5
    <3> QED
      BY <3>1, <3>6
  <2> QED
    BY <2>3, <2>4, <2>5 DEF SegmentsTile
<1> QED
  BY <1>1, <1>2, <1>3, PTL DEF Spec

\* The bandwidth of each quality is the size of its largest segment file.
THEOREM BandwidthCorrect == Spec => []BandwidthIsPeak
<1>1. Init => IInv /\ BandwidthIsPeak
  BY InvInit DEF Init, BandwidthIsPeak
<1>2. IInv /\ BandwidthIsPeak /\ [Next]_vars => IInv' /\ BandwidthIsPeak'
  <2> SUFFICES ASSUME IInv, BandwidthIsPeak, [Next]_vars
               PROVE  IInv' /\ BandwidthIsPeak'
    OBVIOUS
  <2>1. IInv'
    BY InvNext
  <2>2. ASSUME EncodeSegment PROVE BandwidthIsPeak'
    <3>1. PICK size \in [Qualities -> {NoFile} \cup 1 .. MaxSize] :
              /\ file' = [q \in Qualities |-> Append(file[q], size[q])]
              /\ BANDWIDTH' = [q \in Qualities |-> Peak(size[q], BANDWIDTH[q])]
      BY <2>2 DEF EncodeSegment
    <3> SUFFICES ASSUME NEW q \in Qualities
                 PROVE  /\ \A i \in DOMAIN file'[q] : file'[q][i] <= BANDWIDTH'[q]
                        /\ BANDWIDTH'[q] \in
                              {0} \cup {file'[q][i] : i \in DOMAIN file'[q]}
      BY DEF BandwidthIsPeak
    <3> DEFINE f == file[q]
               b == BANDWIDTH[q]
               s == size[q]
    <3>2. /\ f \in Seq({NoFile} \cup 1 .. MaxSize)
          /\ b \in 0 .. MaxSize
          /\ s \in {NoFile} \cup 1 .. MaxSize
          /\ NoFile = -1
          /\ MaxSize \in Nat
      BY ServerAssumption DEF IInv, TypeOK, NoFile
    <3>3. (\A i \in DOMAIN f : f[i] <= b) /\ b \in {0} \cup {f[i] : i \in DOMAIN f}
      BY DEF BandwidthIsPeak
    <3>4. file'[q] = Append(f, s) /\ BANDWIDTH'[q] = IF s > b THEN s ELSE b
      BY <3>1 DEF Peak
    <3> HIDE DEF f, b, s
    <3> DEFINE g == Append(f, s)
               k == Len(f) + 1
    <3>5. /\ DOMAIN g = 1 .. k /\ DOMAIN f = 1 .. Len(f) /\ Len(f) \in Nat
          /\ g[k] = s
          /\ \A i \in DOMAIN f : g[i] = f[i] /\ i \in DOMAIN g
          /\ \A i \in DOMAIN g : i = k \/ i \in DOMAIN f
          /\ \A i \in DOMAIN f : f[i] \in {NoFile} \cup 1 .. MaxSize
      BY <3>2
    <3> HIDE DEF g
    <3>6. ASSUME NEW i \in DOMAIN g
          PROVE  g[i] <= BANDWIDTH'[q]
      <4>1. CASE i = k
        BY <3>2, <3>4, <3>5, <4>1
      <4>2. CASE i \in DOMAIN f
        BY <3>2, <3>3, <3>4, <3>5, <4>2
      <4> QED
        BY <3>5, <3>6, <4>1, <4>2
    <3>7. BANDWIDTH'[q] \in {0} \cup {g[i] : i \in DOMAIN g}
      <4>1. CASE s > b
        BY <3>4, <3>5, <4>1
      <4>2. CASE ~ (s > b)
        BY <3>3, <3>4, <3>5, <4>2
      <4> QED
        BY <4>1, <4>2
    <3> QED
      BY <3>4, <3>6, <3>7 DEF g
  <2>3. ASSUME Rerun PROVE BandwidthIsPeak'
    BY <2>3 DEF Rerun, BandwidthIsPeak
  <2>4. ASSUME ~ EncodeSegment, ~ Rerun PROVE BandwidthIsPeak'
    <3>1. UNCHANGED <<file, BANDWIDTH>>
      BY <2>4 DEF Next, SampleFrame, BreakSampling, EndSampling, CountSegments,
                  EndEncoding, GenerateMPD, vars, encoding
    <3> QED
      BY <3>1 DEF BandwidthIsPeak
  <2> QED
    BY <2>1, <2>2, <2>3, <2>4
<1> QED
  BY <1>1, <1>2, PTL DEF Spec
=============================================================================
