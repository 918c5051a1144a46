---------------------- MODULE PersistentConnectionProofs ---------------------
(***************************************************************************)
(* Proofs about PersistentConnection for any chunks, any sizes of their    *)
(* bodies and any length of a receive, with a server that may close at any *)
(* time, aborts and peeks: each chunk gets its own bytes, and all of them. *)
(*                                                                         *)
(* Both rest on what is on the wire.  The tokens are consecutive (Wire),   *)
(* the first one is the one that the front of the queue needs next, and    *)
(* while the connection is open the last one ends the response to the last *)
(* request that was answered.  None of this survives a request that is     *)
(* overtaken or a header without its length: Stream says it of regular     *)
(* states, and a step out of an irregular state never leads to a regular   *)
(* one.                                                                    *)
(***************************************************************************)
EXTENDS PersistentConnection, SequenceTheorems, WellFoundedInduction, TLAPS

-----------------------------------------------------------------------------
(* The invariant *)

Tokens == Chunks \X Nat

Typed ==
    /\ schedule \in [Chunks -> {"idle", "sent", "failed", "scheduled"}]
    /\ chunkQueue \in Seq(Chunks)
    /\ parsed \in [Chunks -> BOOLEAN]
    /\ bytesLeft \in [Chunks -> Nat]
    /\ contentLength \in Nat
    /\ lock \in Chunks \cup {None}
    /\ call \in [Chunks -> {"Read", "Peek"}]
    /\ reader \in [Chunks -> InCall \cup {"off", "out", "aborted", "stuck", "ended", "done"}]
    /\ got \in [Chunks -> Seq(Tokens)]
    /\ requests \in Seq(Chunks)
    /\ wire \in Seq(Tokens)
    /\ open \in BOOLEAN
    /\ asked \in Seq(Chunks)
    /\ finished \in Seq(Chunks)
    /\ missed \in SUBSET Chunks

\* Every chunk is asked for, pushed and popped at most once.
Once ==
    /\ \A i \in 1 .. Len(asked) : schedule[asked[i]] \in {"sent", "scheduled"}
    /\ \A i, j \in 1 .. Len(asked) : asked[i] = asked[j] => i = j
    /\ \A i \in 1 .. Len(chunkQueue) :
          /\ schedule[chunkQueue[i]] = "scheduled"
          /\ reader[chunkQueue[i]] \notin {"wake", "done"}
    /\ \A i, j \in 1 .. Len(chunkQueue) : chunkQueue[i] = chunkQueue[j] => i = j
    /\ \A i \in 1 .. Len(finished) : reader[finished[i]] \in {"wake", "done"}
    /\ \A c \in Chunks : reader[c] # "off" => schedule[c] = "scheduled"

\* The chunk that is or was read is the front of the queue.
AtFront(c) == Len(chunkQueue) > 0 /\ c = chunkQueue[1]

Turns ==
    \A c \in Chunks :
        /\ schedule[c] = "scheduled" /\ reader[c] \notin {"wake", "done"} =>
              \E j \in 1 .. Len(chunkQueue) : chunkQueue[j] = c
        /\ reader[c] \in {"parse", "recv", "pop", "stuck"} => AtFront(c)
        /\ parsed[c] => AtFront(c) \/ \E i \in 1 .. Len(finished) : finished[i] = c
        /\ reader[c] \in {"recv", "pop"} => parsed[c]
        /\ reader[c] = "pop" => bytesLeft[c] = 0
        /\ Len(got[c]) > 0 => parsed[c]

\* Regular, chunk by chunk.
Ordered ==
    /\ Len(finished) + Len(chunkQueue) <= Len(asked)
    /\ \A i \in 1 .. Len(finished) : asked[i] = finished[i]
    /\ \A i \in 1 .. Len(chunkQueue) : asked[Len(finished) + i] = chunkQueue[i]
    /\ \A c \in Chunks : parsed[c] => c \notin Unsized

\* What was read of a chunk, and what is left of it.
Own ==
    /\ \A c \in Chunks :
          /\ Len(got[c]) <= Size[c]
          /\ \A i \in 1 .. Len(got[c]) : got[c][i] = <<c, i>>
    /\ \A i \in 1 .. Len(finished) :
          \/ Len(got[finished[i]]) = Size[finished[i]]
          \/ ~ open /\ Len(got[finished[i]]) = 0
    /\ \A c \in Chunks : AtFront(c) /\ parsed[c] =>
          \/ bytesLeft[c] + Len(got[c]) = Size[c]
          \/ ~ open /\ Len(wire) = 0 /\ Len(got[c]) = 0

\* The token u comes directly after the token t.
Follows(t, u) ==
    \/ t[2] < Size[t[1]] /\ u = <<t[1], t[2] + 1>>
    \/ /\ t[2] = Size[t[1]]
       /\ u[2] = 0
       /\ \E j \in 1 .. Len(asked) - 1 : asked[j] = t[1] /\ asked[j + 1] = u[1]

\* Number of the chunk whose response comes next or is being read, and how many
\* tokens of it were taken.
Turn == Len(finished) + 1
Taken == IF Turn <= Len(asked) /\ parsed[asked[Turn]]
         THEN Len(got[asked[Turn]]) + 1 ELSE 0

Wire ==
    /\ \A i \in 1 .. Len(wire) - 1 : Follows(wire[i], wire[i + 1])
    /\ Len(wire) > 0 =>
          /\ Turn <= Len(asked)
          /\ Taken <= Size[asked[Turn]] => wire[1] = <<asked[Turn], Taken>>
          /\ Taken > Size[asked[Turn]] =>
                Turn < Len(asked) /\ wire[1] = <<asked[Turn + 1], 0>>

\* The number of requests that were answered.
Answered == Len(asked) - Len(requests)

Server ==
    open =>
    /\ Answered >= 0
    /\ \A i \in 1 .. Len(requests) : requests[i] = asked[Answered + i]
    /\ Len(wire) > 0 =>
          Answered > 0 /\ wire[Len(wire)] = <<asked[Answered], Size[asked[Answered]]>>
    /\ Len(wire) = 0 =>
          \/ Answered = Len(finished) /\ Taken = 0
          \/ Answered = Turn /\ Taken = Size[asked[Turn]] + 1

Stream == Own /\ Wire /\ Server

IInv == Typed /\ Once /\ Turns /\ (Ordered => Stream)
-----------------------------------------------------------------------------
(* Sequences and induction *)

LEMMA LeastElement ==
    ASSUME NEW T \in SUBSET Nat, T # {}
    PROVE  \E x \in T : \A y \in T : x <= y
<1> DEFINE R == OpToRel(<, Nat)
<1>1. IsWellFoundedOn(R, Nat)
  BY NatLessThanWellFounded
<1>2. \A x, y \in Nat : <<y, x>> \in R <=> y < x
  BY DEF OpToRel
<1> HIDE DEF R
<1>3. PICK x \in T : \A y \in T : ~ (<<y, x>> \in R)
  BY <1>1, WFMin
<1>4. \A y \in T : ~ (y < x)
  BY <1>2, <1>3
<1>5. \A y \in T : x <= y
  BY <1>4
<1> QED
  BY <1>5

\* Induction over a set of numbers.
LEMMA Induction ==
    ASSUME NEW T, 0 \in T, \A n \in Nat : n \in T => n + 1 \in T
    PROVE  Nat \subseteq T
<1> SUFFICES ASSUME Nat \ T # {} PROVE FALSE
  OBVIOUS
<1>1. PICK x \in Nat \ T : \A y \in Nat \ T : x <= y
  BY LeastElement
<1>2. x - 1 \in Nat /\ x - 1 \in T
  BY <1>1
<1>3. (x - 1) + 1 \in T
  BY <1>2
<1> QED
  BY <1>1, <1>3

LEMMA AppendFacts ==
    ASSUME NEW S, NEW s \in Seq(S), NEW x \in S
    PROVE  /\ Append(s, x) \in Seq(S)
           /\ Len(s) \in Nat
           /\ Len(Append(s, x)) = Len(s) + 1
           /\ \A i \in 1 .. Len(s) : Append(s, x)[i] = s[i]
           /\ \A i \in 1 .. Len(Append(s, x)) :
                 i \notin 1 .. Len(s) => i = Len(s) + 1 /\ Append(s, x)[i] = x
<1>1. /\ Append(s, x) \in Seq(S)
      /\ Len(s) \in Nat
      /\ Len(Append(s, x)) = Len(s) + 1
      /\ \A i \in 1 .. Len(s) : Append(s, x)[i] = s[i]
      /\ Append(s, x)[Len(s) + 1] = x
  BY AppendProperties, LenProperties
<1>2. ASSUME NEW i \in 1 .. Len(s) + 1, i \notin 1 .. Len(s)
      PROVE  i = Len(s) + 1
  BY <1>1, <1>2
<1> QED
  BY <1>1, <1>2

LEMMA BodyFacts ==
    ASSUME NEW c \in Chunks
    PROVE  /\ Size[c] \in Nat
           /\ Body(c) \in Seq(Tokens)
           /\ Len(Body(c)) = Size[c]
           /\ \A i \in 1 .. Size[c] : Body(c)[i] = <<c, i>>
<1>1. Size[c] \in Nat
  BY ConnectionAssumption
<1>2. \A i \in 1 .. Size[c] : <<c, i>> \in Tokens
  BY <1>1 DEF Tokens
<1>3. Body(c) \in [1 .. Size[c] -> Tokens]
  BY <1>2 DEF Body
<1>4. Body(c) \in Seq(Tokens)
  BY <1>1, <1>3, SeqDef
<1>5. DOMAIN Body(c) = 1 .. Size[c] /\ DOMAIN Body(c) = 1 .. Len(Body(c))
  BY <1>3, <1>4, LenProperties
<1>6. Len(Body(c)) = Size[c]
  BY <1>1, <1>4, <1>5, LenProperties
<1> QED
  BY <1>1, <1>4, <1>6 DEF Body

LEMMA PrefixFacts ==
    ASSUME NEW S, NEW s \in Seq(S), NEW t \in Seq(S)
    PROVE  IsPrefix(s, t) <=>
               Len(s) <= Len(t) /\ \A i \in 1 .. Len(s) : t[i] = s[i]
<1>1. Len(s) \in Nat /\ Len(t) \in Nat
  BY LenProperties
<1>2. SubSeq(s, 1, Len(s)) = s
  BY SubSeqFull
<1>3. ASSUME Len(s) <= Len(t)
      PROVE  /\ SubSeq(t, 1, Len(s)) \in Seq(S)
             /\ Len(SubSeq(t, 1, Len(s))) = Len(s)
             /\ \A i \in 1 .. Len(s) : SubSeq(t, 1, Len(s))[i] = t[i]
  BY <1>1, <1>3
<1>4. ASSUME Len(s) <= Len(t)
      PROVE  s = SubSeq(t, 1, Len(s)) <=> \A i \in 1 .. Len(s) : t[i] = s[i]
  <2>1. ASSUME s = SubSeq(t, 1, Len(s))
        PROVE  \A i \in 1 .. Len(s) : t[i] = s[i]
    BY <1>3, <1>4, <2>1
  <2>2. ASSUME \A i \in 1 .. Len(s) : t[i] = s[i]
        PROVE  s = SubSeq(t, 1, Len(s))
    <3>1. \A i \in 1 .. Len(s) : s[i] = SubSeq(t, 1, Len(s))[i]
      BY <1>3, <1>4, <2>2
    <3> QED
      BY <1>3, <1>4, <3>1, SeqEqual
  <2> QED
    BY <2>1, <2>2
<1> QED
  BY <1>1, <1>2, <1>4 DEF IsPrefix

\* In a state of the right types, Regular is Ordered.
LEMMA RegularIsOrdered ==
    ASSUME Typed
    PROVE  Regular <=> Ordered
<1>1. /\ finished \in Seq(Chunks) /\ chunkQueue \in Seq(Chunks) /\ asked \in Seq(Chunks)
      /\ Len(finished) \in Nat /\ Len(chunkQueue) \in Nat /\ Len(asked) \in Nat
  BY LenProperties DEF Typed
<1> DEFINE s == finished \o chunkQueue
<1>2. /\ s \in Seq(Chunks)
      /\ Len(s) = Len(finished) + Len(chunkQueue)
      /\ \A i \in 1 .. Len(finished) + Len(chunkQueue) :
            s[i] = IF i <= Len(finished) THEN finished[i] ELSE chunkQueue[i - Len(finished)]
  BY <1>1, ConcatProperties
<1> HIDE DEF s
<1>3. IsPrefix(s, asked) <=> Len(s) <= Len(asked) /\ \A i \in 1 .. Len(s) : asked[i] = s[i]
  <2>1. s \in Seq(Chunks) /\ asked \in Seq(Chunks)
    BY <1>1, <1>2
  <2> QED
    BY ONLY <2>1, PrefixFacts, Zenon
<1>4. ASSUME \A i \in 1 .. Len(s) : asked[i] = s[i]
      PROVE  /\ \A i \in 1 .. Len(finished) : asked[i] = finished[i]
             /\ \A i \in 1 .. Len(chunkQueue) : asked[Len(finished) + i] = chunkQueue[i]
  <2>1. ASSUME NEW i \in 1 .. Len(finished)
        PROVE  asked[i] = finished[i]
    BY <1>1, <1>2, <1>4
  <2>2. ASSUME NEW i \in 1 .. Len(chunkQueue)
        PROVE  asked[Len(finished) + i] = chunkQueue[i]
    <3>1. /\ Len(finished) + i \in 1 .. Len(s)
          /\ ~ (Len(finished) + i <= Len(finished))
          /\ (Len(finished) + i) - Len(finished) = i
      BY <1>1, <1>2
    <3> QED
      BY <1>2, <1>4, <3>1
  <2> QED
    BY <2>1, <2>2
<1>5. ASSUME \A i \in 1 .. Len(finished) : asked[i] = finished[i],
             \A i \in 1 .. Len(chunkQueue) : asked[Len(finished) + i] = chunkQueue[i]
      PROVE  \A i \in 1 .. Len(s) : asked[i] = s[i]
  <2> SUFFICES ASSUME NEW i \in 1 .. Len(s)
               PROVE  asked[i] = s[i]
    OBVIOUS
  <2>1. CASE i <= Len(finished)
    BY <1>1, <1>2, <1>5, <2>1
  <2>2. CASE ~ (i <= Len(finished))
    <3>1. i - Len(finished) \in 1 .. Len(chunkQueue) /\ Len(finished) + (i - Len(finished)) = i
      BY <1>1, <1>2, <2>2
    <3>2. asked[Len(finished) + (i - Len(finished))] = chunkQueue[i - Len(finished)]
      BY <1>5, <3>1
    <3> QED
      BY <1>2, <2>2, <3>1, <3>2
  <2> QED
    BY <2>1, <2>2
<1> QED
  BY <1>2, <1>3, <1>4, <1>5 DEF Regular, Ordered, s

-----------------------------------------------------------------------------
(* The threads move on *)

LEMMA Initially == Init => IInv
<1> SUFFICES ASSUME Init PROVE IInv
  OBVIOUS
<1> USE ConnectionAssumption DEF Init
<1>1. Typed
  BY DEF Typed, InCall, Tokens
<1>2. Len(asked) = 0 /\ Len(chunkQueue) = 0 /\ Len(finished) = 0 /\ Len(wire) = 0
      /\ Len(requests) = 0 /\ \A c \in Chunks : Len(got[c]) = 0
  OBVIOUS
<1>3. Once
  BY <1>2 DEF Once
<1>4. Turns
  BY <1>2 DEF Turns, AtFront
<1>5. Own
  BY <1>2 DEF Own, AtFront
<1>6. Wire /\ Server
  BY <1>2 DEF Wire, Server, Answered, Turn, Taken
<1> QED
  BY <1>1, <1>3, <1>4, <1>5, <1>6 DEF IInv, Stream

\* What the threads and the server share.
data == <<schedule, chunkQueue, chunkVars, got, net, asked, finished>>

\* Ordered and Stream are about the data only.
LEMMA DataOnly ==
    ASSUME UNCHANGED data
    PROVE  (Ordered => Stream)' <=> (Ordered => Stream)
BY DEF data, chunkVars, net, Ordered, Stream, Own, Wire, Server, Follows, Turn, Taken,
       Answered, AtFront

\* A thread moves on without touching the data, and without a pop or a broadcast.
LEMMA Moves ==
    ASSUME IInv, UNCHANGED data, NEW c \in Chunks, NEW from, NEW to, NEW owner,
           Goto(c, from, to, owner), owner \in Chunks \cup {None},
           call' \in [Chunks -> {"Read", "Peek"}], missed' = missed,
           schedule[c] = "scheduled",
           from \notin {"wake", "done"},
           to \in {"out", "lock", "decided", "asleep", "parse", "recv", "pop", "aborted",
                   "stuck", "ended"},
           to \in {"parse", "recv", "pop", "stuck"} => AtFront(c),
           to \in {"recv", "pop"} => parsed[c],
           to = "pop" => bytesLeft[c] = 0
    PROVE  IInv'
<1>1. Typed /\ Once /\ Turns /\ (Ordered => Stream)
  BY DEF IInv
<1>2. /\ schedule' = schedule /\ chunkQueue' = chunkQueue /\ parsed' = parsed
      /\ bytesLeft' = bytesLeft /\ contentLength' = contentLength /\ got' = got
      /\ requests' = requests /\ wire' = wire /\ open' = open /\ asked' = asked
      /\ finished' = finished
  BY DEF data, chunkVars, net
<1>3. /\ reader[c] = from
      /\ reader' = [reader EXCEPT ![c] = to]
      /\ lock' = owner
  BY DEF Goto
<1>4. reader \in [Chunks -> InCall \cup {"off", "out", "aborted", "stuck", "ended", "done"}]
  BY <1>1 DEF Typed
<1>5. \A d \in Chunks : reader'[d] = IF d = c THEN to ELSE reader[d]
  BY <1>3, <1>4
<1>6. Typed'
  BY <1>1, <1>2, <1>3 DEF Typed, InCall
<1>7. /\ \A i \in 1 .. Len(chunkQueue) : chunkQueue[i] \in Chunks
      /\ \A i \in 1 .. Len(finished) : finished[i] \in Chunks
  BY <1>1, ElementOfSeq DEF Typed
<1>8. Once'
  BY <1>1, <1>2, <1>3, <1>5, <1>7 DEF Once
<1>9. Turns'
  <2> SUFFICES ASSUME NEW d \in Chunks
               PROVE  (/\ schedule[d] = "scheduled" /\ reader[d] \notin {"wake", "done"} =>
                             \E j \in 1 .. Len(chunkQueue) : chunkQueue[j] = d
                       /\ reader[d] \in {"parse", "recv", "pop", "stuck"} => AtFront(d)
                       /\ parsed[d] => AtFront(d) \/ \E i \in 1 .. Len(finished) : finished[i] = d
                       /\ reader[d] \in {"recv", "pop"} => parsed[d]
                       /\ reader[d] = "pop" => bytesLeft[d] = 0
                       /\ Len(got[d]) > 0 => parsed[d])'
    BY DEF Turns
  <2>1. AtFront(d)' <=> AtFront(d)
    BY <1>2 DEF AtFront
  <2>2. reader'[d] = IF d = c THEN to ELSE reader[d]
    BY <1>5
  <2>3. CASE d = c
    BY <1>1, <1>2, <1>3, <2>1, <2>2, <2>3 DEF Turns
  <2>4. CASE d # c
    BY <1>1, <1>2, <2>1, <2>2, <2>4 DEF Turns
  <2> QED
    BY <2>3, <2>4
<1>10. (Ordered => Stream)'
  BY <1>1, DataOnly
<1> QED
  BY <1>6, <1>8, <1>9, <1>10 DEF IInv

LEMMA Started ==
    ASSUME IInv, NEW c \in Chunks, reader[c] # "off"
    PROVE  schedule[c] = "scheduled"
BY DEF IInv, Once

LEMMA StartReaderStep ==
    ASSUME IInv, NEW c \in Chunks, StartReader(c)
    PROVE  IInv'
<1>1. Goto(c, "off", "out", lock) /\ schedule[c] = "scheduled"
  BY DEF StartReader
<1>2. UNCHANGED data /\ missed' = missed /\ call' = call
  BY DEF StartReader, data
<1>3. call' \in [Chunks -> {"Read", "Peek"}] /\ lock \in Chunks \cup {None}
  BY <1>2 DEF IInv, Typed
<1> QED
  BY <1>1, <1>2, <1>3, Moves

LEMMA CallStep ==
    ASSUME IInv, NEW c \in Chunks, CallRead(c) \/ CallPeek(c)
    PROVE  IInv'
<1>1. Goto(c, "out", "lock", lock)
  BY DEF CallRead, CallPeek
<1>2. UNCHANGED data /\ missed' = missed
  BY DEF CallRead, CallPeek, data
<1>3. call' \in [Chunks -> {"Read", "Peek"}] /\ lock \in Chunks \cup {None}
  BY DEF CallRead, CallPeek, IInv, Typed
<1>4. schedule[c] = "scheduled"
  BY <1>1, Started DEF Goto
<1> QED
  BY <1>1, <1>2, <1>3, <1>4, Moves

LEMMA AbortReaderStep ==
    ASSUME IInv, NEW c \in Chunks, AbortReader(c)
    PROVE  IInv'
<1>1. Goto(c, "out", "aborted", lock)
  BY DEF AbortReader
<1>2. UNCHANGED data /\ missed' = missed /\ call' = call
  BY DEF AbortReader, data
<1>3. call' \in [Chunks -> {"Read", "Peek"}] /\ lock \in Chunks \cup {None}
  BY <1>2 DEF IInv, Typed
<1>4. schedule[c] = "scheduled"
  BY <1>1, Started DEF Goto
<1> QED
  BY <1>1, <1>2, <1>3, <1>4, Moves

\* A thread that found its chunk at the front has it there: the queue is not
\* empty, since the chunk was pushed and is not finished.
LEMMA LookStep ==
    ASSUME IInv, NEW c \in Chunks, Look(c)
    PROVE  IInv'
<1>1. PICK to \in {"decided", "parse", "out", "stuck"}, owner \in {c, None} :
         Goto(c, "lock", to, owner)
         /\ (to \in {"parse", "stuck"} => Head(chunkQueue) = c)
  BY DEF Look
<1>2. UNCHANGED data /\ missed' = missed /\ call' = call
  BY DEF Look, data
<1>3. call' \in [Chunks -> {"Read", "Peek"}]
  BY <1>2 DEF IInv, Typed
<1>4. schedule[c] = "scheduled" /\ reader[c] = "lock"
  BY <1>1, Started DEF Goto
<1>5. Head(chunkQueue) = c => AtFront(c)
  <2> PICK j \in 1 .. Len(chunkQueue) : chunkQueue[j] = c
    BY <1>4 DEF IInv, Turns
  <2>1. chunkQueue \in Seq(Chunks) /\ Len(chunkQueue) > 0
    BY LenProperties DEF IInv, Typed
  <2>2. Head(chunkQueue) = chunkQueue[1]
    BY <2>1
  <2> QED
    BY <2>1, <2>2 DEF AtFront
<1> QED
  BY <1>1, <1>2, <1>3, <1>4, <1>5, Moves

LEMMA SleepStep ==
    ASSUME IInv, NEW c \in Chunks, Sleep(c)
    PROVE  IInv'
<1>1. Goto(c, "decided", "asleep", None)
  BY DEF Sleep
<1>2. UNCHANGED data /\ missed' = missed /\ call' = call
  BY DEF Sleep, data
<1>3. call' \in [Chunks -> {"Read", "Peek"}]
  BY <1>2 DEF IInv, Typed
<1>4. schedule[c] = "scheduled"
  BY <1>1, Started DEF Goto
<1> QED
  BY <1>1, <1>2, <1>3, <1>4, Moves

LEMMA CheckLeftStep ==
    ASSUME IInv, NEW c \in Chunks, CheckLeft(c)
    PROVE  IInv'
<1>1. PICK to \in {"pop", "recv"}, owner \in {lock, None} :
         Goto(c, "parse", to, owner) /\ (to = "pop" => bytesLeft[c] = 0)
  BY DEF CheckLeft
<1>2. UNCHANGED data /\ missed' = missed /\ call' = call /\ parsed[c]
  BY DEF CheckLeft, data
<1>3. call' \in [Chunks -> {"Read", "Peek"}] /\ owner \in Chunks \cup {None}
  BY <1>2 DEF IInv, Typed
<1>4. schedule[c] = "scheduled" /\ AtFront(c)
  BY <1>1, Started DEF Goto, IInv, Turns
<1> QED
  BY <1>1, <1>2, <1>3, <1>4, Moves

LEMMA WakeStep ==
    ASSUME IInv, NEW c \in Chunks, Wake(c)
    PROVE  IInv'
<1>1. Typed /\ Once /\ Turns /\ (Ordered => Stream)
  BY DEF IInv
<1>2. /\ reader[c] = "wake"
      /\ reader' = [d \in Chunks |-> IF d = c THEN "done"
                                     ELSE IF reader[d] = "asleep" THEN "lock"
                                     ELSE reader[d]]
      /\ missed' \in SUBSET Chunks
      /\ UNCHANGED data /\ lock' = lock /\ call' = call
  BY DEF Wake, data
<1>3. /\ schedule' = schedule /\ chunkQueue' = chunkQueue /\ parsed' = parsed
      /\ bytesLeft' = bytesLeft /\ contentLength' = contentLength /\ got' = got
      /\ requests' = requests /\ wire' = wire /\ open' = open /\ asked' = asked
      /\ finished' = finished
  BY <1>2 DEF data, chunkVars, net
<1>4. reader \in [Chunks -> InCall \cup {"off", "out", "aborted", "stuck", "ended", "done"}]
  BY <1>1 DEF Typed
<1>5. ASSUME NEW d \in Chunks
      PROVE  /\ reader'[d] \in InCall \cup {"off", "out", "aborted", "stuck", "ended", "done"}
             /\ reader'[d] \in {"wake", "done"} <=> reader[d] \in {"wake", "done"}
             /\ reader'[d] = "off" <=> reader[d] = "off"
             /\ reader'[d] \in {"parse", "recv", "pop", "stuck"} => reader'[d] = reader[d]
  BY <1>2, <1>4 DEF InCall
<1>6. Typed'
  BY <1>1, <1>2, <1>3, <1>5 DEF Typed
<1>7. /\ \A i \in 1 .. Len(chunkQueue) : chunkQueue[i] \in Chunks
      /\ \A i \in 1 .. Len(finished) : finished[i] \in Chunks
  BY <1>1, ElementOfSeq DEF Typed
<1>8. Once'
  BY <1>1, <1>3, <1>5, <1>7 DEF Once
<1>9. Turns'
  BY <1>1, <1>3, <1>5 DEF Turns, AtFront
<1>10. (Ordered => Stream)'
  BY <1>1, <1>2, DataOnly
<1> QED
  BY <1>6, <1>8, <1>9, <1>10 DEF IInv

-----------------------------------------------------------------------------
(* Requests and answers *)

\* Positions in a sequence of n elements, and in one of m or of n - k.
LEMMA Neighbours ==
    \A n, m \in Nat : n <= m => \A i \in 1 .. n - 1 :
        i \in 1 .. n /\ i + 1 \in 1 .. n /\ i \in 1 .. m - 1
OBVIOUS

LEMMA ShiftedNeighbours ==
    \A n, k \in Nat : k <= n => \A i \in 1 .. (n - k) - 1 :
        /\ i \in 1 .. n - k /\ i + 1 \in 1 .. n - k
        /\ k + i \in 1 .. n - 1 /\ k + (i + 1) = (k + i) + 1
OBVIOUS

LEMMA LastTaken ==
    \A n \in Nat : \A k \in 1 .. n : n - k > 0 =>
        k \in 1 .. n - 1 /\ k + 1 \in 1 .. n /\ 1 \in 1 .. n - k
OBVIOUS

LEMMA Lengths ==
    ASSUME Typed
    PROVE  /\ Len(asked) \in Nat /\ Len(chunkQueue) \in Nat /\ Len(finished) \in Nat
           /\ Len(requests) \in Nat /\ Len(wire) \in Nat
           /\ Turn \in Nat /\ Turn > 0 /\ Answered \in Int
           /\ \A c \in Chunks : Len(got[c]) \in Nat /\ Size[c] \in Nat
           /\ \A i \in 1 .. Len(asked) : asked[i] \in Chunks
           /\ \A i \in 1 .. Len(chunkQueue) : chunkQueue[i] \in Chunks
           /\ \A i \in 1 .. Len(finished) : finished[i] \in Chunks
           /\ \A i \in 1 .. Len(requests) : requests[i] \in Chunks
           /\ \A i \in 1 .. Len(wire) : wire[i] \in Tokens
<1>1. /\ asked \in Seq(Chunks)
      /\ chunkQueue \in Seq(Chunks)
      /\ finished \in Seq(Chunks)
      /\ requests \in Seq(Chunks)
      /\ wire \in Seq(Tokens)
      /\ \A c \in Chunks : got[c] \in Seq(Tokens)
  BY DEF Typed
<1>2. /\ Len(asked) \in Nat /\ Len(chunkQueue) \in Nat /\ Len(finished) \in Nat
      /\ Len(requests) \in Nat /\ Len(wire) \in Nat
  BY <1>1, LenProperties
<1>3. Turn \in Nat /\ Turn > 0 /\ Answered \in Int
  BY <1>2 DEF Turn, Answered
<1>4. \A c \in Chunks : Len(got[c]) \in Nat /\ Size[c] \in Nat
  BY <1>1, ConnectionAssumption, LenProperties
<1>5. /\ \A i \in 1 .. Len(asked) : asked[i] \in Chunks
      /\ \A i \in 1 .. Len(chunkQueue) : chunkQueue[i] \in Chunks
      /\ \A i \in 1 .. Len(finished) : finished[i] \in Chunks
  BY <1>1, ElementOfSeq
<1>6. /\ \A i \in 1 .. Len(requests) : requests[i] \in Chunks
      /\ \A i \in 1 .. Len(wire) : wire[i] \in Tokens
  BY <1>1, ElementOfSeq
<1> QED
  BY <1>2, <1>3, <1>4, <1>5, <1>6

\* No chunk behind the one whose turn it is has been touched.
LEMMA Untouched ==
    ASSUME IInv, Ordered, NEW i \in 1 .. Len(asked), i > Turn
    PROVE  ~ parsed[asked[i]]
<1>1. Typed /\ Once /\ Turns
  BY DEF IInv
<1>2. /\ Len(finished) \in Nat /\ Len(chunkQueue) \in Nat /\ Len(asked) \in Nat
      /\ asked[i] \in Chunks
  BY <1>1, Lengths
<1>3. \A k \in 1 .. Len(finished) : asked[k] = finished[k] /\ k \in 1 .. Len(asked) /\ k # i
  BY <1>2 DEF Ordered, Turn
<1>4. Len(chunkQueue) > 0 =>
         chunkQueue[1] = asked[Turn] /\ Turn \in 1 .. Len(asked) /\ Turn # i
  BY <1>2 DEF Ordered, Turn
<1>5. \A k \in 1 .. Len(finished) : finished[k] # asked[i]
  BY <1>1, <1>3 DEF Once
<1>6. ~ AtFront(asked[i])
  BY <1>1, <1>4 DEF Once, AtFront
<1> QED
  BY <1>1, <1>2, <1>5, <1>6 DEF Turns

\* The header of a response comes after the end of the response before it.
LEMMA NextResponse ==
    ASSUME NEW j \in 1 .. Len(asked) - 1
    PROVE  Follows(<<asked[j], Size[asked[j]]>>, <<asked[j + 1], 0>>)
<1> DEFINE t == <<asked[j], Size[asked[j]]>>
           u == <<asked[j + 1], 0>>
<1>1. t[1] = asked[j] /\ t[2] = Size[t[1]] /\ u[1] = asked[j + 1] /\ u[2] = 0
  OBVIOUS
<1> HIDE DEF t, u
<1>2. Follows(t, u)
  BY <1>1 DEF Follows
<1> QED
  BY <1>2 DEF t, u

LEMMA SendDataStep ==
    ASSUME IInv, NEW c \in Chunks, SendData(c)
    PROVE  IInv'
<1>1. Typed /\ Once /\ Turns /\ (Ordered => Stream)
  BY DEF IInv
<1>2. /\ schedule[c] = "idle"
      /\ schedule \in [Chunks -> {"idle", "sent", "failed", "scheduled"}]
      /\ chunkQueue' = chunkQueue /\ parsed' = parsed
      /\ bytesLeft' = bytesLeft /\ contentLength' = contentLength /\ got' = got
      /\ wire' = wire /\ open' = open /\ finished' = finished
      /\ lock' = lock /\ call' = call /\ reader' = reader /\ missed' = missed
  BY <1>1 DEF SendData, chunkVars, readVars, Typed
<1>3. PICK to \in {"sent", "failed"} : schedule' = [schedule EXCEPT ![c] = to]
      /\ (to = "failed" => asked' = asked /\ requests' = requests)
      /\ (to = "sent" => asked' = Append(asked, c) /\ requests' = Append(requests, c))
  BY DEF SendData
<1>4. \A d \in Chunks : schedule'[d] = IF d = c THEN to ELSE schedule[d]
  BY <1>2, <1>3
<1>5. /\ Len(asked) \in Nat /\ Len(chunkQueue) \in Nat /\ Len(finished) \in Nat
      /\ Len(requests) \in Nat /\ Len(wire) \in Nat
      /\ Turn \in Nat /\ Turn > 0 /\ Answered \in Int
      /\ \A i \in 1 .. Len(asked) : asked[i] \in Chunks
      /\ \A i \in 1 .. Len(chunkQueue) : chunkQueue[i] \in Chunks
      /\ \A i \in 1 .. Len(finished) : finished[i] \in Chunks
  BY <1>1, Lengths
<1>6. /\ \A i \in 1 .. Len(asked) : asked[i] # c
      /\ \A i \in 1 .. Len(chunkQueue) : chunkQueue[i] # c
      /\ \A i \in 1 .. Len(finished) : finished[i] # c
      /\ reader[c] = "off"
      /\ ~ parsed[c]
  BY <1>1, <1>2, <1>5 DEF Once, Turns, AtFront
<1>7. /\ asked' \in Seq(Chunks) /\ requests' \in Seq(Chunks)
      /\ Len(asked') \in Nat
      /\ Len(asked) <= Len(asked')
      /\ Len(asked') - Len(requests') = Answered
      /\ \A i \in 1 .. Len(asked) : asked'[i] = asked[i] /\ i \in 1 .. Len(asked')
      /\ \A i \in 1 .. Len(asked') : i \notin 1 .. Len(asked) =>
            i = Len(asked) + 1 /\ asked'[i] = c /\ to = "sent"
      /\ \A i \in 1 .. Len(requests) : requests'[i] = requests[i]
      /\ \A i \in 1 .. Len(requests') : i \notin 1 .. Len(requests) =>
            i = Len(requests) + 1 /\ requests'[i] = c
            /\ Len(asked) + 1 \in 1 .. Len(asked')
  <2>1. CASE to = "failed"
    BY <1>1, <1>3, <1>5, <2>1 DEF Typed, Answered
  <2>2. CASE to = "sent"
    <3>1. asked \in Seq(Chunks) /\ requests \in Seq(Chunks)
      BY <1>1 DEF Typed
    <3>2. asked' = Append(asked, c) /\ requests' = Append(requests, c)
      BY <1>3, <2>2
    <3>3. /\ asked' \in Seq(Chunks) /\ Len(asked') = Len(asked) + 1
          /\ \A i \in 1 .. Len(asked) : asked'[i] = asked[i]
          /\ \A i \in 1 .. Len(asked') :
                i \notin 1 .. Len(asked) => i = Len(asked) + 1 /\ asked'[i] = c
      BY <3>1, <3>2, AppendFacts
    <3>4. /\ requests' \in Seq(Chunks) /\ Len(requests') = Len(requests) + 1
          /\ \A i \in 1 .. Len(requests) : requests'[i] = requests[i]
          /\ \A i \in 1 .. Len(requests') :
                i \notin 1 .. Len(requests) => i = Len(requests) + 1 /\ requests'[i] = c
      BY <3>1, <3>2, AppendFacts
    <3>5. Len(asked') - Len(requests') = Answered
      BY <1>5, <3>3, <3>4 DEF Answered
    <3>6. Len(asked) + 1 \in 1 .. Len(asked') /\ 1 .. Len(asked) \subseteq 1 .. Len(asked')
      BY <1>5, <3>3
    <3> QED
      BY <1>5, <2>2, <3>3, <3>4, <3>5, <3>6
  <2> QED
    BY <1>3, <2>1, <2>2
<1>8. Typed'
  BY <1>1, <1>2, <1>3, <1>7 DEF Typed
<1>9. Once'
  <2>1. ASSUME NEW i \in 1 .. Len(asked')
        PROVE  schedule'[asked'[i]] \in {"sent", "scheduled"}
    BY <1>1, <1>4, <1>5, <1>6, <1>7 DEF Once
  <2>2. ASSUME NEW i \in 1 .. Len(asked'), NEW j \in 1 .. Len(asked'), asked'[i] = asked'[j]
        PROVE  i = j
    <3>1. CASE i \in 1 .. Len(asked) /\ j \in 1 .. Len(asked)
      BY <1>1, <1>7, <2>2, <3>1 DEF Once
    <3>2. CASE i \in 1 .. Len(asked) /\ j \notin 1 .. Len(asked)
      BY <1>6, <1>7, <2>2, <3>2
    <3>3. CASE i \notin 1 .. Len(asked) /\ j \in 1 .. Len(asked)
      BY <1>6, <1>7, <2>2, <3>3
    <3>4. CASE i \notin 1 .. Len(asked) /\ j \notin 1 .. Len(asked)
      BY <1>7, <3>4
    <3> QED
      BY <3>1, <3>2, <3>3, <3>4
  <2>3. ASSUME NEW i \in 1 .. Len(chunkQueue')
        PROVE  /\ schedule'[chunkQueue'[i]] = "scheduled"
               /\ reader'[chunkQueue'[i]] \notin {"wake", "done"}
    BY <1>1, <1>2, <1>4, <1>5, <1>6 DEF Once
  <2>4. /\ \A i, j \in 1 .. Len(chunkQueue') : chunkQueue'[i] = chunkQueue'[j] => i = j
        /\ \A i \in 1 .. Len(finished') : reader'[finished'[i]] \in {"wake", "done"}
    BY <1>1, <1>2 DEF Once
  <2>5. \A d \in Chunks : reader'[d] # "off" => schedule'[d] = "scheduled"
    BY <1>1, <1>2, <1>4, <1>6 DEF Once
  <2> QED
    BY <2>1, <2>2, <2>3, <2>4, <2>5 DEF Once
<1>10. Turns'
  BY <1>1, <1>2, <1>4, <1>6 DEF Turns, AtFront
<1>11. ASSUME Ordered'
       PROVE  Ordered
  <2>1. Len(finished) + Len(chunkQueue) <= Len(asked)
    <3> SUFFICES ASSUME Len(finished) + Len(chunkQueue) = Len(asked) + 1
                 PROVE  FALSE
      BY <1>2, <1>5, <1>7, <1>11 DEF Ordered
    <3>1. asked'[Len(asked) + 1] = c
      BY <1>2, <1>5, <1>7, <1>11 DEF Ordered
    <3>2. CASE Len(chunkQueue) = 0
      BY <1>2, <1>5, <1>6, <1>11, <3>1, <3>2 DEF Ordered
    <3>3. CASE Len(chunkQueue) > 0
      <4>1. asked'[Len(finished) + Len(chunkQueue)] = chunkQueue[Len(chunkQueue)]
        BY <1>2, <1>5, <1>11, <3>3 DEF Ordered
      <4> QED
        BY <1>5, <1>6, <3>1, <3>3, <4>1
    <3> QED
      BY <1>5, <3>2, <3>3
  <2>2. /\ 1 .. Len(finished) \subseteq 1 .. Len(asked)
        /\ \A i \in 1 .. Len(chunkQueue) : Len(finished) + i \in 1 .. Len(asked)
    BY <1>5, <2>1
  <2>3. /\ \A i \in 1 .. Len(finished) : asked'[i] = finished[i]
        /\ \A i \in 1 .. Len(chunkQueue) : asked'[Len(finished) + i] = chunkQueue[i]
        /\ \A d \in Chunks : parsed[d] => d \notin Unsized
    BY <1>2, <1>11 DEF Ordered
  <2>4. /\ \A i \in 1 .. Len(finished) : asked[i] = finished[i]
        /\ \A i \in 1 .. Len(chunkQueue) : asked[Len(finished) + i] = chunkQueue[i]
    BY <1>7, <2>2, <2>3
  <2> QED
    BY <2>1, <2>3, <2>4 DEF Ordered
<1>12. ASSUME Ordered'
       PROVE  Stream'
  <2>1. Ordered /\ Own /\ Wire /\ Server
    BY <1>1, <1>11, <1>12 DEF Stream
  <2>2. Own'
    BY <1>2, <2>1 DEF Own, AtFront
  <2>3. Turn' = Turn /\ Taken' = Taken
    BY <1>2, <1>5, <1>6, <1>7 DEF Turn, Taken
  <2>4. \A t, u \in Tokens : Follows(t, u) => Follows(t, u)'
    <3> SUFFICES ASSUME NEW t \in Tokens, NEW u \in Tokens, Follows(t, u)
                 PROVE  Follows(t, u)'
      OBVIOUS
    <3>1. ASSUME NEW j \in 1 .. Len(asked) - 1
          PROVE  /\ j \in 1 .. Len(asked') - 1
                 /\ asked'[j] = asked[j] /\ asked'[j + 1] = asked[j + 1]
      <4>1. Len(asked) \in Nat /\ Len(asked') \in Nat /\ Len(asked) <= Len(asked')
        BY <1>5, <1>7
      <4>2. j \in 1 .. Len(asked) /\ j + 1 \in 1 .. Len(asked) /\ j \in 1 .. Len(asked') - 1
        BY ONLY <3>1, <4>1, Neighbours, Zenon
      <4> QED
        BY <1>7, <4>2
    <3> QED
      BY <3>1 DEF Follows
  <2>5. \A i \in 1 .. Len(wire) : wire[i] \in Tokens
    BY <1>1, Lengths
  <2>6. Wire'
    <3>1. \A i \in 1 .. Len(wire) - 1 : Follows(wire[i], wire[i + 1])'
      <4> SUFFICES ASSUME NEW i \in 1 .. Len(wire) - 1
                   PROVE  Follows(wire[i], wire[i + 1])'
        BY <1>2
      <4>1. wire[i] \in Tokens /\ wire[i + 1] \in Tokens
        BY <1>5, <2>5
      <4>2. Follows(wire[i], wire[i + 1])
        BY <2>1 DEF Wire
      <4> QED
        BY <1>2, <2>4, <4>1, <4>2 DEF Follows
    <3> QED
      BY <1>2, <1>5, <1>7, <2>1, <2>3, <3>1 DEF Wire
  <2>7. Server'
    <3> SUFFICES ASSUME open PROVE Server'
      BY <1>2 DEF Server
    <3>1. Answered' = Answered /\ Answered >= 0
      BY <1>7, <2>1 DEF Answered, Server
    <3>2. ASSUME NEW i \in 1 .. Len(requests')
          PROVE  requests'[i] = asked'[Answered + i]
      <4>1. CASE i \in 1 .. Len(requests)
        <5>1. Answered + i \in 1 .. Len(asked) /\ requests[i] = asked[Answered + i]
          BY <1>5, <2>1, <3>1, <4>1 DEF Server, Answered
        <5> QED
          BY <1>7, <4>1, <5>1
      <4>2. CASE i \notin 1 .. Len(requests)
        <5>1. i = Len(requests) + 1
          BY <1>7, <4>2
        <5>2. Answered + i = Len(asked) + 1
          BY <1>5, <5>1 DEF Answered
        <5> QED
          BY <1>5, <1>7, <4>2, <5>2
      <4> QED
        BY <4>1, <4>2
    <3>3. Answered <= Len(asked)
      BY <1>5 DEF Answered
    <3>4. Answered = Turn => Turn \in 1 .. Len(asked)
      BY <1>5, <3>3
    <3> QED
      BY <1>2, <1>5, <1>7, <2>1, <2>3, <3>1, <3>2, <3>3, <3>4 DEF Server
  <2> QED
    BY <2>2, <2>6, <2>7 DEF Stream
<1> QED
  BY <1>8, <1>9, <1>10, <1>12 DEF IInv

LEMMA PushChunkStep ==
    ASSUME IInv, NEW c \in Chunks, PushChunk(c)
    PROVE  IInv'
<1>1. Typed /\ Once /\ Turns /\ (Ordered => Stream)
  BY DEF IInv
<1>2. /\ schedule[c] = "sent"
      /\ schedule' = [schedule EXCEPT ![c] = "scheduled"]
      /\ schedule \in [Chunks -> {"idle", "sent", "failed", "scheduled"}]
      /\ chunkQueue' = Append(chunkQueue, c) /\ chunkQueue \in Seq(Chunks)
      /\ parsed' = parsed
      /\ bytesLeft' = bytesLeft /\ contentLength' = contentLength /\ got' = got
      /\ wire' = wire /\ open' = open /\ finished' = finished
      /\ asked' = asked /\ requests' = requests
      /\ lock' = lock /\ call' = call /\ reader' = reader /\ missed' = missed
  BY <1>1 DEF PushChunk, chunkVars, readVars, net, Typed
<1>3. \A d \in Chunks : schedule'[d] = IF d = c THEN "scheduled" ELSE schedule[d]
  BY <1>2
<1>4. /\ Len(asked) \in Nat /\ Len(chunkQueue) \in Nat /\ Len(finished) \in Nat
      /\ \A i \in 1 .. Len(asked) : asked[i] \in Chunks
      /\ \A i \in 1 .. Len(chunkQueue) : chunkQueue[i] \in Chunks
      /\ \A i \in 1 .. Len(finished) : finished[i] \in Chunks
  BY <1>1, Lengths
<1>5. /\ \A i \in 1 .. Len(chunkQueue) : chunkQueue[i] # c
      /\ \A i \in 1 .. Len(finished) : finished[i] # c
      /\ reader[c] = "off"
  BY <1>1, <1>2, <1>4 DEF Once
<1>6. ~ parsed[c]
  BY <1>1, <1>4, <1>5 DEF Turns, AtFront
<1>7. /\ chunkQueue' \in Seq(Chunks)
      /\ Len(chunkQueue') = Len(chunkQueue) + 1
      /\ \A i \in 1 .. Len(chunkQueue) : chunkQueue'[i] = chunkQueue[i]
      /\ \A i \in 1 .. Len(chunkQueue') :
            i \notin 1 .. Len(chunkQueue) =>
               i = Len(chunkQueue) + 1 /\ chunkQueue'[i] = c
  BY <1>2, AppendFacts
<1>8. /\ 1 .. Len(chunkQueue) \subseteq 1 .. Len(chunkQueue')
      /\ Len(chunkQueue) + 1 \in 1 .. Len(chunkQueue')
      /\ Len(chunkQueue) + 1 \notin 1 .. Len(chunkQueue)
  BY <1>4, <1>7
<1>9. Typed'
  BY <1>1, <1>2, <1>7 DEF Typed
<1>10. Once'
  <2>1. ASSUME NEW i \in 1 .. Len(chunkQueue')
        PROVE  /\ schedule'[chunkQueue'[i]] = "scheduled"
               /\ reader'[chunkQueue'[i]] \notin {"wake", "done"}
    <3>1. CASE i \in 1 .. Len(chunkQueue)
      BY <1>1, <1>2, <1>3, <1>4, <1>7, <3>1 DEF Once
    <3>2. CASE i \notin 1 .. Len(chunkQueue)
      BY <1>2, <1>3, <1>5, <1>7, <3>2
    <3> QED
      BY <3>1, <3>2
  <2>2. ASSUME NEW i \in 1 .. Len(chunkQueue'), NEW j \in 1 .. Len(chunkQueue'),
               chunkQueue'[i] = chunkQueue'[j]
        PROVE  i = j
    <3>1. CASE i \in 1 .. Len(chunkQueue) /\ j \in 1 .. Len(chunkQueue)
      BY <1>1, <1>7, <2>2, <3>1 DEF Once
    <3>2. CASE i \in 1 .. Len(chunkQueue) /\ j \notin 1 .. Len(chunkQueue)
      BY <1>5, <1>7, <2>2, <3>2
    <3>3. CASE i \notin 1 .. Len(chunkQueue) /\ j \in 1 .. Len(chunkQueue)
      BY <1>5, <1>7, <2>2, <3>3
    <3>4. CASE i \notin 1 .. Len(chunkQueue) /\ j \notin 1 .. Len(chunkQueue)
      BY <1>7, <3>4
    <3> QED
      BY <3>1, <3>2, <3>3, <3>4
  <2>3. \A i \in 1 .. Len(asked) : schedule'[asked[i]] \in {"sent", "scheduled"}
    BY <1>1, <1>3, <1>4 DEF Once
  <2>4. \A d \in Chunks : reader[d] # "off" => schedule'[d] = "scheduled"
    BY <1>1, <1>3 DEF Once
  <2> QED
    BY <1>1, <1>2, <2>1, <2>2, <2>3, <2>4 DEF Once
<1>11. \A d \in Chunks : AtFront(d) => AtFront(d)'
  BY <1>4, <1>7 DEF AtFront
<1>12. \A d \in Chunks : AtFront(d)' => AtFront(d) \/ d = c
  BY <1>4, <1>7, <1>8 DEF AtFront
<1>13. Turns'
  <2> SUFFICES ASSUME NEW d \in Chunks
               PROVE  /\ schedule'[d] = "scheduled" /\ reader[d] \notin {"wake", "done"} =>
                            \E j \in 1 .. Len(chunkQueue') : chunkQueue'[j] = d
                      /\ reader[d] \in {"parse", "recv", "pop", "stuck"} => AtFront(d)
                      /\ parsed[d] => AtFront(d) \/ \E i \in 1 .. Len(finished) : finished[i] = d
                      /\ reader[d] \in {"recv", "pop"} => parsed[d]
                      /\ reader[d] = "pop" => bytesLeft[d] = 0
                      /\ Len(got[d]) > 0 => parsed[d]
    BY <1>2, <1>11 DEF Turns
  <2>1. schedule'[d] = "scheduled" /\ reader[d] \notin {"wake", "done"} =>
            \E j \in 1 .. Len(chunkQueue') : chunkQueue'[j] = d
    BY <1>1, <1>3, <1>7, <1>8 DEF Turns
  <2> QED
    BY <1>1, <2>1 DEF Turns
<1>14. ASSUME Ordered'
       PROVE  Ordered
  BY <1>2, <1>4, <1>7, <1>8, <1>14 DEF Ordered
<1>15. ASSUME Ordered'
       PROVE  Stream'
  <2>1. Own /\ Wire /\ Server
    BY <1>1, <1>14, <1>15 DEF Stream
  <2>2. Own'
    BY <1>2, <1>6, <1>12, <2>1 DEF Own
  <2>3. Wire' /\ Server'
    BY <1>2, <2>1 DEF Wire, Server, Follows, Turn, Taken, Answered
  <2> QED
    BY <2>2, <2>3 DEF Stream
<1> QED
  BY <1>9, <1>10, <1>13, <1>15 DEF IInv

\* A step of the server.
LEMMA ServerStep ==
    ASSUME IInv, requests' \in Seq(Chunks), wire' \in Seq(Tokens), open' \in BOOLEAN,
           Ordered => Stream',
           UNCHANGED <<schedule, chunkQueue, chunkVars, readVars, asked, finished>>
    PROVE  IInv'
<1>1. Typed /\ Once /\ Turns /\ (Ordered => Stream)
  BY DEF IInv
<1>2. Typed'
  BY <1>1 DEF Typed, chunkVars, readVars
<1>3. Once' /\ Turns'
  BY <1>1 DEF Once, Turns, AtFront, chunkVars, readVars
<1>4. Ordered' => Ordered
  BY DEF Ordered, chunkVars, readVars
<1> QED
  BY <1>2, <1>3, <1>4 DEF IInv

LEMMA CloseStep ==
    ASSUME IInv, Close
    PROVE  IInv'
<1>1. Typed /\ (Ordered => Stream)
  BY DEF IInv
<1>2. /\ open /\ open' = FALSE /\ requests' = <<>>
      /\ UNCHANGED <<schedule, chunkQueue, chunkVars, readVars, asked, finished>>
  BY DEF Close
<1>3. PICK k \in 0 .. Len(wire) : wire' = SubSeq(wire, 1, k)
  BY DEF Close
<1>4. /\ wire \in Seq(Tokens)
      /\ Len(wire) \in Nat
      /\ wire' \in Seq(Tokens)
      /\ Len(wire') = k
      /\ \A i \in 1 .. k : wire'[i] = wire[i]
  BY <1>1, <1>3, Lengths DEF Typed
<1>5. ASSUME Ordered
      PROVE  Stream'
  <2>1. Own /\ Wire
    BY <1>1, <1>5 DEF Stream
  <2>2. Own'
    BY <1>2, <2>1 DEF Own, AtFront, chunkVars, readVars
  <2>3. \A i \in 1 .. k - 1 : i \in 1 .. Len(wire) - 1 /\ i \in 1 .. k /\ i + 1 \in 1 .. k
    BY <1>4
  <2>4. \A i \in 1 .. k - 1 : Follows(wire'[i], wire'[i + 1])
    BY <1>4, <2>1, <2>3 DEF Wire
  <2>5. \A i \in 1 .. k - 1 : Follows(wire[i], wire[i + 1])'
    BY <1>2, <2>4 DEF Follows
  <2>6. Turn' = Turn /\ Taken' = Taken
    BY <1>2 DEF Turn, Taken, chunkVars, readVars
  <2>7. Wire'
    BY <1>2, <1>4, <2>1, <2>5, <2>6 DEF Wire
  <2>8. Server'
    BY <1>2 DEF Server
  <2> QED
    BY <2>2, <2>7, <2>8 DEF Stream
<1>6. requests' \in Seq(Chunks)
  BY <1>2
<1> QED
  BY <1>2, <1>4, <1>5, <1>6, ServerStep

LEMMA AnswerStep ==
    ASSUME IInv, Answer
    PROVE  IInv'
<1>1. Typed /\ (Ordered => Stream)
  BY DEF IInv
<1> DEFINE r == Head(requests)
           m == Len(wire)
<1>2. /\ open /\ open' = open /\ requests' = Tail(requests) /\ requests # <<>>
      /\ wire' = wire \o <<Header(r)>> \o Body(r)
      /\ UNCHANGED <<schedule, chunkQueue, chunkVars, readVars, asked, finished>>
  BY DEF Answer
<1>3. /\ requests \in Seq(Chunks) /\ wire \in Seq(Tokens)
      /\ Len(requests) \in Nat /\ m \in Nat /\ Len(asked) \in Nat
      /\ Len(finished) \in Nat /\ Turn \in Nat /\ Turn > 0
  BY <1>1, Lengths DEF Typed
<1>4. /\ Len(requests) > 0 /\ r \in Chunks /\ r = requests[1]
      /\ requests' \in Seq(Chunks)
      /\ Len(requests') = Len(requests) - 1
      /\ \A i \in 1 .. Len(requests') : requests'[i] = requests[i + 1]
  BY <1>2, <1>3
<1> HIDE DEF r
<1>5. /\ Size[r] \in Nat
      /\ Body(r) \in Seq(Tokens)
      /\ Len(Body(r)) = Size[r]
      /\ \A i \in 1 .. Size[r] : Body(r)[i] = <<r, i>>
  BY <1>4, BodyFacts
<1>6. /\ wire' \in Seq(Tokens)
      /\ Len(wire') = m + 1 + Size[r]
      /\ \A i \in 1 .. m : wire'[i] = wire[i]
      /\ \A i \in 0 .. Size[r] : wire'[m + 1 + i] = <<r, i>>
  <2> DEFINE h == wire \o <<Header(r)>>
  <2>1. <<Header(r)>> \in Seq(Tokens) /\ Len(<<Header(r)>>) = 1 /\ <<Header(r)>>[1] = <<r, 0>>
    BY <1>4 DEF Header, Tokens
  <2>2. /\ h \in Seq(Tokens) /\ Len(h) = m + 1
        /\ \A i \in 1 .. m + 1 : h[i] = IF i <= m THEN wire[i] ELSE <<Header(r)>>[i - m]
    BY <1>3, <2>1, ConcatProperties
  <2>3. wire' = h \o Body(r)
    BY <1>2
  <2> HIDE DEF h
  <2>4. /\ wire' \in Seq(Tokens) /\ Len(wire') = m + 1 + Size[r]
        /\ \A i \in 1 .. m + 1 + Size[r] :
              wire'[i] = IF i <= m + 1 THEN h[i] ELSE Body(r)[i - (m + 1)]
    <3>1. /\ wire' \in Seq(Tokens) /\ Len(wire') = Len(h) + Len(Body(r))
          /\ \A i \in 1 .. Len(h) + Len(Body(r)) :
                wire'[i] = IF i <= Len(h) THEN h[i] ELSE Body(r)[i - Len(h)]
      BY <1>5, <2>2, <2>3, ConcatProperties
    <3> QED
      BY <1>3, <1>5, <2>2, <3>1
  <2>5. \A i \in 1 .. m : wire'[i] = wire[i]
    BY <1>3, <1>5, <2>2, <2>4
  <2>6. ASSUME NEW i \in 0 .. Size[r]
        PROVE  wire'[m + 1 + i] = <<r, i>>
    <3>1. CASE i = 0
      <4>1. wire'[m + 1] = h[m + 1] /\ h[m + 1] = <<Header(r)>>[(m + 1) - m] /\ (m + 1) - m = 1
        BY <1>3, <1>5, <2>2, <2>4
      <4> QED
        BY <1>3, <2>1, <3>1, <4>1
    <3>2. CASE i > 0
      <4>1. (m + 1 + i) - (m + 1) = i /\ ~ (m + 1 + i <= m + 1) /\ i \in 1 .. Size[r]
            /\ m + 1 + i \in 1 .. m + 1 + Size[r]
        BY <1>3, <1>5, <3>2
      <4> QED
        BY <1>5, <2>4, <4>1
    <3> QED
      BY <1>5, <3>1, <3>2
  <2> QED
    BY <2>4, <2>5, <2>6
<1>7. ASSUME Ordered
      PROVE  Stream'
  <2>1. Own /\ Wire /\ Server
    BY <1>1, <1>7 DEF Stream
  <2>2. Own'
    BY <1>2, <2>1 DEF Own, AtFront, chunkVars, readVars
  <2>3. Turn' = Turn /\ Taken' = Taken /\ asked' = asked /\ finished' = finished
    BY <1>2 DEF Turn, Taken, chunkVars, readVars
  <2>4. /\ Answered \in Nat /\ Answered + 1 \in 1 .. Len(asked)
        /\ r = asked[Answered + 1]
        /\ Answered' = Answered + 1
    BY <1>2, <1>3, <1>4, <2>1, <2>3 DEF Server, Answered
  <2>5. ASSUME NEW i \in 1 .. Len(wire') - 1
        PROVE  Follows(wire'[i], wire'[i + 1])
    <3>1. CASE i < m
      <4>1. i \in 1 .. m - 1 /\ i \in 1 .. m /\ i + 1 \in 1 .. m
        BY <1>3, <3>1
      <4> QED
        BY <1>6, <2>1, <4>1 DEF Wire
    <3>2. CASE i = m
      <4>1. /\ Answered > 0 /\ wire'[i] = <<asked[Answered], Size[asked[Answered]]>>
            /\ wire'[i + 1] = <<asked[Answered + 1], 0>>
        <5>1. m > 0 /\ wire'[i] = wire[m]
          BY <1>3, <1>6, <3>2
        <5>2. Answered > 0 /\ wire[m] = <<asked[Answered], Size[asked[Answered]]>>
          BY <1>2, <2>1, <5>1 DEF Server
        <5>3. 0 \in 0 .. Size[r] /\ m + 1 + 0 = m + 1
          BY <1>3, <1>5
        <5>4. wire'[m + 1] = <<r, 0>>
          BY <1>6, <5>3
        <5> QED
          BY <2>4, <3>2, <5>1, <5>2, <5>4
      <4>2. Answered \in 1 .. Len(asked) - 1
        BY <1>3, <2>4, <4>1
      <4> QED
        BY <4>1, <4>2, NextResponse
    <3>3. CASE i > m
      <4>1. PICK k \in Nat : i = m + 1 + k
        <5>1. i - (m + 1) \in Nat /\ i = m + 1 + (i - (m + 1))
          BY <1>3, <3>3
        <5> QED
          BY <5>1
      <4>2. k \in 0 .. Size[r] /\ k + 1 \in 0 .. Size[r] /\ i + 1 = m + 1 + (k + 1)
        BY <1>3, <1>5, <1>6, <4>1
      <4>3. wire'[i] = <<r, k>> /\ wire'[i + 1] = <<r, k + 1>> /\ k < Size[r]
        BY <1>5, <1>6, <4>1, <4>2
      <4> QED
        BY <4>3 DEF Follows
    <3> QED
      BY <1>3, <3>1, <3>2, <3>3
  <2>6. Wire'
    <3>1. \A i \in 1 .. Len(wire') - 1 : Follows(wire[i], wire[i + 1])'
      BY <2>3, <2>5 DEF Follows
    <3>2. CASE m > 0
      <4>1. wire'[1] = wire[1]
        BY <1>3, <1>6, <3>2
      <4> QED
        BY <2>1, <2>3, <3>1, <3>2, <4>1 DEF Wire
    <3>3. CASE m = 0
      <4>1. wire'[1] = <<asked[Answered + 1], 0>>
        BY <1>3, <1>5, <1>6, <2>4, <3>3
      <4>2. CASE Answered = Len(finished) /\ Taken = 0
        <5>1. Turn = Answered + 1 /\ Turn <= Len(asked) /\ Size[asked[Turn]] \in Nat
          BY <1>3, <1>5, <2>4, <4>2 DEF Turn
        <5>2. wire'[1] = <<asked[Turn], Taken>> /\ ~ (Taken > Size[asked[Turn]])
          BY <4>1, <4>2, <5>1
        <5> QED
          BY <2>3, <3>1, <5>1, <5>2 DEF Wire
      <4>3. CASE Answered = Turn /\ Taken = Size[asked[Turn]] + 1
        <5>1. Turn \in 1 .. Len(asked) /\ Turn < Len(asked)
          BY <1>3, <2>4, <4>3
        <5>2. Size[asked[Turn]] \in Nat
          BY <1>1, <5>1, Lengths
        <5>3. wire'[1] = <<asked[Turn + 1], 0>> /\ ~ (Taken <= Size[asked[Turn]])
          BY <4>1, <4>3, <5>2
        <5> QED
          BY <2>3, <3>1, <5>1, <5>3 DEF Wire
      <4> QED
        BY <1>2, <2>1, <3>3, <4>2, <4>3 DEF Server
    <3> QED
      BY <1>3, <3>2, <3>3
  <2>7. Server'
    <3>1. ASSUME NEW i \in 1 .. Len(requests')
          PROVE  requests'[i] = asked[Answered + 1 + i]
      <4>1. i + 1 \in 1 .. Len(requests) /\ Answered + (i + 1) = Answered + 1 + i
        <5>1. Len(requests') = Len(requests) - 1 /\ Len(requests) \in Nat /\ Answered \in Nat
          BY <1>3, <1>4, <2>4
        <5> QED
          BY <5>1
      <4> QED
        BY <1>2, <1>4, <2>1, <4>1 DEF Server
    <3>2. wire'[Len(wire')] = <<asked[Answered + 1], Size[asked[Answered + 1]]>>
      <4>1. /\ Size[r] \in 0 .. Size[r]
            /\ Len(wire') = m + 1 + Size[r]
        BY <1>5, <1>6
      <4> QED
        BY <1>6, <2>4, <4>1
    <3>3. Len(wire') > 0
      BY <1>3, <1>5, <1>6
    <3> QED
      BY <2>3, <2>4, <3>1, <3>2, <3>3 DEF Server
  <2> QED
    BY <2>2, <2>6, <2>7 DEF Stream
<1> QED
  BY <1>2, <1>4, <1>6, <1>7, ServerStep

-----------------------------------------------------------------------------
(* Reading the response *)

\* The token after the k-th byte of the chunk whose turn it is.
LEMMA AfterToken ==
    ASSUME Typed, Once, Turn <= Len(asked), NEW k \in 0 .. Size[asked[Turn]],
           NEW u \in Tokens, Follows(<<asked[Turn], k>>, u)
    PROVE  /\ k + 1 <= Size[asked[Turn]] => u = <<asked[Turn], k + 1>>
           /\ k + 1 > Size[asked[Turn]] =>
                 Turn < Len(asked) /\ u = <<asked[Turn + 1], 0>>
<1> DEFINE t == <<asked[Turn], k>>
<1>1. t[1] = asked[Turn] /\ t[2] = k /\ u = <<u[1], u[2]>>
  BY DEF Tokens
<1>2. Follows(t, u)
  OBVIOUS
<1> HIDE DEF t
<1>3. /\ Turn \in 1 .. Len(asked) /\ Len(asked) \in Nat /\ Size[asked[Turn]] \in Nat
  BY Lengths
<1>4. CASE t[2] < Size[t[1]] /\ u = <<t[1], t[2] + 1>>
  BY <1>1, <1>3, <1>4
<1>5. ASSUME t[2] = Size[t[1]], u[2] = 0,
             NEW j \in 1 .. Len(asked) - 1, asked[j] = t[1], asked[j + 1] = u[1]
      PROVE  /\ k + 1 > Size[asked[Turn]] /\ ~ (k + 1 <= Size[asked[Turn]])
             /\ Turn < Len(asked) /\ u = <<asked[Turn + 1], 0>>
  <2>1. j = Turn
    BY <1>1, <1>3, <1>5 DEF Once
  <2> QED
    BY <1>1, <1>3, <1>5, <2>1
<1> QED
  BY <1>2, <1>4, <1>5 DEF Follows

LEMMA RestFacts ==
    ASSUME Typed, NEW k \in 1 .. Len(wire), wire' = SubSeq(wire, k + 1, Len(wire))
    PROVE  /\ wire' \in Seq(Tokens)
           /\ Len(wire') = Len(wire) - k
           /\ \A i \in 1 .. Len(wire') : wire'[i] = wire[k + i] /\ k + i \in 1 .. Len(wire)
<1>1. wire \in Seq(Tokens) /\ Len(wire) \in Nat
  BY Lengths DEF Typed
<1>2. /\ wire' \in Seq(Tokens)
      /\ Len(wire') = Len(wire) - k
      /\ \A i \in 1 .. Len(wire) - k : wire'[i] = wire[k + i]
  BY <1>1
<1>3. \A i \in 1 .. Len(wire) - k : k + i \in 1 .. Len(wire)
  BY <1>1
<1> QED
  BY <1>2, <1>3

\* The wire without its first k tokens, the last of which belongs to the chunk
\* whose turn it is.
LEMMA Advance ==
    ASSUME IInv, Ordered, UNCHANGED <<asked, finished, requests, open>>,
           Turn <= Len(asked),
           NEW k \in 1 .. Len(wire), wire' = SubSeq(wire, k + 1, Len(wire)),
           NEW l \in 0 .. Size[asked[Turn]], wire[k] = <<asked[Turn], l>>,
           Taken' = l + 1
    PROVE  Wire' /\ Server'
<1>1. Typed /\ Once /\ Wire /\ Server
  BY DEF IInv, Stream
<1>2. /\ Len(wire) \in Nat /\ Len(asked) \in Nat /\ Turn \in 1 .. Len(asked)
      /\ Turn \in Nat /\ Size[asked[Turn]] \in Nat /\ Len(requests) \in Nat
      /\ \A i \in 1 .. Len(wire) : wire[i] \in Tokens
  BY <1>1, Lengths
<1>3. /\ Len(wire') = Len(wire) - k
      /\ \A i \in 1 .. Len(wire') : wire'[i] = wire[k + i] /\ k + i \in 1 .. Len(wire)
  BY <1>1, RestFacts
<1>4. Turn' = Turn /\ Answered' = Answered
  BY DEF Turn, Answered
<1>5. \A i \in 1 .. Len(wire') - 1 : Follows(wire[i], wire[i + 1])'
  <2> SUFFICES ASSUME NEW i \in 1 .. Len(wire') - 1
               PROVE  Follows(wire'[i], wire'[i + 1])
    BY DEF Follows
  <2>1. i \in 1 .. Len(wire') /\ i + 1 \in 1 .. Len(wire') /\ k + i \in 1 .. Len(wire) - 1
        /\ k + (i + 1) = (k + i) + 1
    <3>1. Len(wire) \in Nat /\ k \in Nat /\ k <= Len(wire) /\ Len(wire') = Len(wire) - k
      BY <1>2, <1>3
    <3>2. i \in 1 .. (Len(wire) - k) - 1
      BY ONLY <3>1, i \in 1 .. Len(wire') - 1, Zenon
    <3> QED
      BY ONLY <3>1, <3>2, ShiftedNeighbours, Zenon
  <2>2. wire'[i] = wire[k + i] /\ wire'[i + 1] = wire[(k + i) + 1]
    BY <1>3, <2>1
  <2> QED
    BY <1>1, <2>1, <2>2 DEF Wire
<1>6. ASSUME Len(wire') > 0
      PROVE  /\ Taken' <= Size[asked[Turn]] => wire'[1] = <<asked[Turn], Taken'>>
             /\ Taken' > Size[asked[Turn]] =>
                   Turn < Len(asked) /\ wire'[1] = <<asked[Turn + 1], 0>>
  <2>1. k \in 1 .. Len(wire) - 1 /\ k + 1 \in 1 .. Len(wire) /\ 1 \in 1 .. Len(wire')
    <3>1. Len(wire) \in Nat /\ k \in 1 .. Len(wire) /\ Len(wire') = Len(wire) - k
      BY <1>2, <1>3
    <3>2. Len(wire) - k > 0
      BY ONLY <1>6, <3>1, Zenon
    <3> QED
      BY ONLY <3>1, <3>2, LastTaken, Zenon
  <2>2. Follows(wire[k], wire[k + 1]) /\ wire[k + 1] \in Tokens /\ wire'[1] = wire[k + 1]
    BY <1>1, <1>2, <1>3, <2>1 DEF Wire
  <2> QED
    BY <1>1, <2>2, AfterToken
<1>7. Wire'
  BY <1>2, <1>4, <1>5, <1>6 DEF Wire
<1>8. Server'
  <2> SUFFICES ASSUME open PROVE Server'
    BY DEF Server
  <2>1. /\ Answered >= 0 /\ Answered > 0 /\ Answered \in 1 .. Len(asked)
        /\ wire[Len(wire)] = <<asked[Answered], Size[asked[Answered]]>>
        /\ \A i \in 1 .. Len(requests) : requests[i] = asked[Answered + i]
    BY <1>1, <1>2 DEF Server, Answered
  <2>2. CASE Len(wire') > 0
    <3>1. wire'[Len(wire')] = wire[Len(wire)] /\ Len(wire') # 0
      <4>1. k + Len(wire') = Len(wire) /\ Len(wire') \in 1 .. Len(wire')
        <5>1. Len(wire) \in Nat /\ k \in Nat /\ k <= Len(wire)
              /\ Len(wire') = Len(wire) - k /\ Len(wire') > 0
          BY <1>2, <1>3, <2>2
        <5> QED
          BY <5>1
      <4>2. wire'[Len(wire')] = wire[k + Len(wire')]
        BY <1>3, <4>1
      <4>3. Len(wire') # 0
        BY <2>2
      <4> QED
        BY <4>1, <4>2, <4>3
    <3> QED
      BY <1>4, <2>1, <2>2, <3>1 DEF Server
  <2>3. CASE ~ (Len(wire') > 0)
    <3>1. k = Len(wire)
      BY <1>2, <1>3, <2>3
    <3>2. asked[Answered] = asked[Turn] /\ l = Size[asked[Answered]]
      BY <2>1, <3>1
    <3>3. Answered = Turn
      BY <1>1, <1>2, <2>1, <3>2 DEF Once
    <3> QED
      BY <1>4, <2>1, <2>3, <3>2, <3>3 DEF Server
  <2> QED
    BY <2>2, <2>3
<1> QED
  BY <1>7, <1>8

\* The front of the queue is the chunk whose turn it is.
LEMMA FrontIsTurn ==
    ASSUME IInv, Ordered, NEW c \in Chunks, AtFront(c)
    PROVE  Turn \in 1 .. Len(asked) /\ c = asked[Turn]
<1>1. Len(asked) \in Nat /\ Len(finished) \in Nat /\ Len(chunkQueue) \in Nat
  BY Lengths DEF IInv
<1> QED
  BY <1>1 DEF AtFront, Ordered, Turn

\* No finished chunk is at the front.
LEMMA FrontIsNew ==
    ASSUME IInv, NEW c \in Chunks, AtFront(c)
    PROVE  /\ reader[c] \notin {"wake", "done"}
           /\ \A i \in 1 .. Len(finished) : finished[i] # c
<1>1. Len(chunkQueue) \in Nat
  BY Lengths DEF IInv
<1> QED
  BY <1>1 DEF IInv, Once, AtFront

LEMMA ParseHeaderStep ==
    ASSUME IInv, NEW c \in Chunks, ParseHeader(c)
    PROVE  IInv'
<1>1. Typed /\ Once /\ Turns /\ (Ordered => Stream)
  BY DEF IInv
<1>2. /\ reader[c] = "parse" /\ ~ parsed[c]
      /\ schedule' = schedule /\ chunkQueue' = chunkQueue /\ got' = got
      /\ open' = open /\ finished' = finished /\ asked' = asked /\ requests' = requests
      /\ lock' = lock /\ call' = call /\ reader' = reader /\ missed' = missed
  BY DEF ParseHeader, readVars
<1>3. AtFront(c) /\ Len(got[c]) \in Nat /\ Len(got[c]) = 0
  BY <1>1, <1>2, Lengths DEF Turns
<1>4. \A d \in Chunks : AtFront(d)' <=> AtFront(d)
  BY <1>2 DEF AtFront
<1>5. PICK length :
         /\ SetContentLength(c, length)
         /\ \/ \E i \in DOMAIN wire :
                  /\ wire[i][2] = 0
                  /\ \A j \in 1 .. i - 1 : wire[j][2] # 0
                  /\ wire' = SubSeq(wire, i + 1, Len(wire))
                  /\ length = (IF wire[i][1] \in Unsized THEN contentLength
                               ELSE Size[wire[i][1]])
            \/ /\ ~ open
               /\ \A i \in DOMAIN wire : wire[i][2] # 0
               /\ wire' = <<>>
               /\ length = contentLength
  BY DEF ParseHeader
<1>6. /\ wire \in Seq(Tokens) /\ Len(wire) \in Nat /\ DOMAIN wire = 1 .. Len(wire)
      /\ parsed \in [Chunks -> BOOLEAN] /\ bytesLeft \in [Chunks -> Nat]
      /\ contentLength \in Nat
      /\ \A i \in 1 .. Len(wire) : wire[i] \in Tokens
  BY <1>1, Lengths, LenProperties DEF Typed
<1>7. length \in Nat /\ wire' \in Seq(Tokens)
  <2>1. \A i \in 1 .. Len(wire) : wire[i][1] \in Chunks /\ Size[wire[i][1]] \in Nat
    BY <1>6, ConnectionAssumption DEF Tokens
  <2>2. CASE \E i \in DOMAIN wire :
                /\ wire' = SubSeq(wire, i + 1, Len(wire))
                /\ length = (IF wire[i][1] \in Unsized THEN contentLength
                             ELSE Size[wire[i][1]])
    BY <1>1, <1>6, <2>1, <2>2, RestFacts
  <2>3. CASE wire' = <<>> /\ length = contentLength
    BY <1>6, <2>3
  <2> QED
    BY <1>5, <2>2, <2>3
<1>8. /\ contentLength' = length
      /\ parsed' \in [Chunks -> BOOLEAN] /\ bytesLeft' \in [Chunks -> Nat]
      /\ \A d \in Chunks : parsed'[d] = IF d = c THEN TRUE ELSE parsed[d]
      /\ \A d \in Chunks : bytesLeft'[d] = IF d = c THEN length ELSE bytesLeft[d]
  BY <1>5, <1>6, <1>7 DEF SetContentLength
<1>9. Typed'
  BY <1>1, <1>2, <1>7, <1>8 DEF Typed
<1>10. Once'
  BY <1>1, <1>2 DEF Once
<1>11. Turns'
  BY <1>1, <1>2, <1>3, <1>4, <1>8 DEF Turns
<1>12. ASSUME Ordered'
       PROVE  Ordered /\ c \notin Unsized
  BY <1>2, <1>8, <1>12 DEF Ordered
<1>13. ASSUME Ordered'
       PROVE  Stream'
  <2>1. Ordered /\ Own /\ Wire /\ Server
    BY <1>1, <1>12, <1>13 DEF Stream
  <2>2. Turn \in 1 .. Len(asked) /\ c = asked[Turn] /\ Turn' = Turn
        /\ Len(asked) \in Nat
    BY <1>1, <1>2, <1>3, <2>1, FrontIsTurn, Lengths DEF Turn
  <2>3. Taken = 0 /\ Taken' = 1
    <3>1. ~ parsed[asked[Turn]] /\ parsed'[asked'[Turn']] /\ Len(got'[asked'[Turn']]) = 0
          /\ Turn' <= Len(asked')
      <4>1. parsed'[c] = TRUE /\ asked'[Turn'] = c
        BY <1>2, <1>8, <2>2
      <4> QED
        BY <1>2, <1>3, <2>2, <4>1
    <3> QED
      BY <3>1 DEF Taken
  <2>4. Size[c] \in Nat
    BY <1>1, Lengths
  <2>5. Len(wire) > 0 => wire[1] = <<c, 0>>
    BY <2>1, <2>2, <2>3, <2>4 DEF Wire
  <2>6. \A d \in Chunks : AtFront(d) => d = c
    BY <1>3 DEF AtFront
  <2>7. ASSUME length = Size[c] \/ (~ open /\ Len(wire') = 0)
        PROVE  Own'
    <3>1. ASSUME NEW d \in Chunks, AtFront(d)
          PROVE  \/ bytesLeft'[d] + Len(got[d]) = Size[d]
                 \/ ~ open /\ Len(wire') = 0 /\ Len(got[d]) = 0
      BY <1>3, <1>8, <2>4, <2>6, <2>7, <3>1
    <3> QED
      BY <1>2, <1>4, <2>1, <3>1 DEF Own
  <2>8. CASE ~ open /\ wire' = <<>>
    <3>1. Len(wire') = 0
      BY <2>8
    <3>2. Own'
      BY <2>7, <2>8, <3>1
    <3>3. Wire' /\ Server'
      BY <1>2, <2>8, <3>1 DEF Wire, Server
    <3> QED
      BY <3>2, <3>3 DEF Stream
  <2>9. CASE \E i \in DOMAIN wire :
                /\ wire[i][2] = 0
                /\ \A j \in 1 .. i - 1 : wire[j][2] # 0
                /\ wire' = SubSeq(wire, i + 1, Len(wire))
                /\ length = (IF wire[i][1] \in Unsized THEN contentLength
                             ELSE Size[wire[i][1]])
    <3> PICK i \in DOMAIN wire :
                /\ wire[i][2] = 0
                /\ \A j \in 1 .. i - 1 : wire[j][2] # 0
                /\ wire' = SubSeq(wire, i + 1, Len(wire))
                /\ length = (IF wire[i][1] \in Unsized THEN contentLength
                             ELSE Size[wire[i][1]])
      BY <2>9
    <3>1. Len(wire) > 0 /\ wire[1] = <<c, 0>> /\ wire[1][2] = 0
      BY <1>6, <2>5
    <3>2. i = 1 /\ 1 \in 1 .. Len(wire)
      <4>1. i \in 1 .. Len(wire)
        BY <1>6
      <4>2. ~ (1 \in 1 .. i - 1)
        BY <3>1
      <4> QED
        BY <1>6, <4>1, <4>2
    <3>3. length = Size[c]
      BY <1>12, <1>13, <3>1, <3>2
    <3>4. Own'
      BY <2>7, <3>3
    <3>5. Wire' /\ Server'
      <4>1. wire' = SubSeq(wire, 1 + 1, Len(wire)) /\ 0 \in 0 .. Size[asked[Turn]]
            /\ wire[1] = <<asked[Turn], 0>> /\ Taken' = 0 + 1 /\ Turn <= Len(asked)
        BY <2>2, <2>3, <2>4, <3>1, <3>2
      <4>2. UNCHANGED <<asked, finished, requests, open>>
        BY <1>2
      <4> HIDE DEF IInv
      <4> QED
        BY <2>1, <3>2, <4>1, <4>2, Advance
    <3> QED
      BY <3>4, <3>5 DEF Stream
  <2> QED
    BY <1>5, <2>8, <2>9
<1> QED
  BY <1>9, <1>10, <1>11, <1>13 DEF IInv

\* The arithmetic of the next lemma.
LEMMA NextIndex ==
    \A n, i, k, l, s \in Nat :
        (i + 1) + 1 <= k /\ k <= l /\ n + k <= s =>
            /\ i + 1 <= k /\ i + 1 \in 1 .. l - 1 /\ (i + 1) + 1 \in 1 .. l
            /\ n + (i + 1) \in 0 .. s
            /\ (n + (i + 1)) + 1 <= s
            /\ (n + (i + 1)) + 1 = n + ((i + 1) + 1)
OBVIOUS

\* The bytes that follow the n-th of the chunk whose turn it is, up to its last.
LEMMA NextBytes ==
    ASSUME IInv, Ordered, Turn <= Len(asked), NEW n \in Nat, NEW k \in 1 .. Len(wire),
           n + k <= Size[asked[Turn]], wire[1] = <<asked[Turn], n + 1>>
    PROVE  \A i \in 1 .. k : wire[i] = <<asked[Turn], n + i>>
<1>1. Typed /\ Once /\ Wire
  BY DEF IInv, Stream
<1>2. /\ Len(wire) \in Nat /\ Size[asked[Turn]] \in Nat
      /\ \A i \in 1 .. Len(wire) : wire[i] \in Tokens
  <2>1. Turn \in 1 .. Len(asked)
    BY <1>1, Lengths
  <2> QED
    BY <1>1, <2>1, Lengths
<1> DEFINE T == {i \in Nat : i + 1 <= k => wire[i + 1] = <<asked[Turn], n + (i + 1)>>}
<1>3. 0 \in T
  OBVIOUS
<1>4. ASSUME NEW i \in Nat, i \in T
      PROVE  i + 1 \in T
  <2> SUFFICES ASSUME (i + 1) + 1 <= k
               PROVE  wire[(i + 1) + 1] = <<asked[Turn], n + ((i + 1) + 1)>>
    OBVIOUS
  <2>1. /\ i + 1 <= k /\ i + 1 \in 1 .. Len(wire) - 1 /\ (i + 1) + 1 \in 1 .. Len(wire)
        /\ n + (i + 1) \in 0 .. Size[asked[Turn]]
        /\ (n + (i + 1)) + 1 <= Size[asked[Turn]]
        /\ (n + (i + 1)) + 1 = n + ((i + 1) + 1)
    <3>1. k \in Nat /\ k <= Len(wire) /\ Len(wire) \in Nat /\ Size[asked[Turn]] \in Nat
      BY <1>2
    <3> HIDE DEF T
    <3>2. n + k <= Size[asked[Turn]] /\ (i + 1) + 1 <= k
      OBVIOUS
    <3> QED
      BY ONLY <3>1, <3>2, n \in Nat, i \in Nat, NextIndex, Zenon
  <2>2. wire[i + 1] = <<asked[Turn], n + (i + 1)>>
    BY <1>4, <2>1
  <2>3. Follows(wire[i + 1], wire[(i + 1) + 1]) /\ wire[(i + 1) + 1] \in Tokens
    BY <1>1, <1>2, <2>1 DEF Wire
  <2>4. wire[(i + 1) + 1] = <<asked[Turn], (n + (i + 1)) + 1>>
    BY <1>1, <2>1, <2>2, <2>3, AfterToken
  <2> QED
    BY <2>1, <2>4
<1> HIDE DEF T
<1>5. Nat \subseteq T
  BY <1>3, <1>4, Induction
<1>6. ASSUME NEW i \in 1 .. k
      PROVE  wire[i] = <<asked[Turn], n + i>>
  <2>1. i - 1 \in Nat /\ (i - 1) + 1 = i
    OBVIOUS
  <2>2. i - 1 \in T
    BY <1>5, <2>1
  <2> QED
    BY <2>1, <2>2 DEF T
<1> QED
  BY <1>6

LEMMA RecvStep ==
    ASSUME IInv, NEW c \in Chunks, Recv(c)
    PROVE  IInv'
<1>1. Typed /\ Once /\ Turns /\ (Ordered => Stream)
  BY DEF IInv
<1>2. CASE wire = <<>> /\ ~ open /\ Goto(c, "recv", "ended", None)
           /\ UNCHANGED <<got, wire, bytesLeft>>
  <2>1. UNCHANGED data /\ missed' = missed /\ call' = call
    BY <1>2 DEF Recv, data, chunkVars, net
  <2>2. call' \in [Chunks -> {"Read", "Peek"}] /\ schedule[c] = "scheduled"
    BY <1>1, <1>2, <2>1, Started DEF Typed, Goto
  <2> QED
    BY <1>2, <2>1, <2>2, Moves
<1>3. CASE /\ \E k \in 1 .. MaxLen :
                /\ k <= bytesLeft[c]
                /\ k <= Len(wire)
                /\ got' = [got EXCEPT ![c] = @ \o SubSeq(wire, 1, k)]
                /\ wire' = SubSeq(wire, k + 1, Len(wire))
                /\ bytesLeft' = [bytesLeft EXCEPT ![c] = @ - k]
           /\ Goto(c, "recv", "out", None)
  <2> PICK k \in 1 .. MaxLen :
                /\ k <= bytesLeft[c]
                /\ k <= Len(wire)
                /\ got' = [got EXCEPT ![c] = @ \o SubSeq(wire, 1, k)]
                /\ wire' = SubSeq(wire, k + 1, Len(wire))
                /\ bytesLeft' = [bytesLeft EXCEPT ![c] = @ - k]
    BY <1>3
  <2>1. /\ schedule' = schedule /\ chunkQueue' = chunkQueue /\ parsed' = parsed
        /\ contentLength' = contentLength /\ open' = open /\ finished' = finished
        /\ asked' = asked /\ requests' = requests /\ call' = call /\ missed' = missed
    BY DEF Recv
  <2>2. /\ reader[c] = "recv" /\ reader' = [reader EXCEPT ![c] = "out"] /\ lock' = None
    BY <1>3 DEF Goto
  <2>3. AtFront(c) /\ parsed[c] /\ schedule[c] = "scheduled"
    BY <1>1, <2>2 DEF Turns, Once
  <2>4. /\ wire \in Seq(Tokens) /\ Len(wire) \in Nat
        /\ bytesLeft \in [Chunks -> Nat]
        /\ reader \in [Chunks -> InCall \cup {"off", "out", "aborted", "stuck", "ended", "done"}]
        /\ got \in [Chunks -> Seq(Tokens)] /\ got[c] \in Seq(Tokens)
        /\ k \in Nat /\ k \in 1 .. Len(wire) /\ MaxLen \in Nat
        /\ Len(got[c]) \in Nat /\ Size[c] \in Nat
    <3>1. /\ wire \in Seq(Tokens) /\ Len(wire) \in Nat
          /\ bytesLeft \in [Chunks -> Nat]
          /\ reader \in [Chunks -> InCall \cup {"off", "out", "aborted", "stuck", "ended", "done"}]
          /\ got \in [Chunks -> Seq(Tokens)]
          /\ Len(got[c]) \in Nat /\ Size[c] \in Nat
      BY <1>1, Lengths DEF Typed
    <3>2. MaxLen \in Nat
      BY ConnectionAssumption
    <3>3. k \in Nat /\ k \in 1 .. Len(wire)
      BY <3>1, <3>2
    <3> QED
      BY <3>1, <3>2, <3>3
  <2> DEFINE part == SubSeq(wire, 1, k)
             n == Len(got[c])
  <2>5. part \in Seq(Tokens) /\ Len(part) = k /\ \A i \in 1 .. k : part[i] = wire[i]
    BY <2>4
  <2>6. got' = [got EXCEPT ![c] = @ \o part]
    OBVIOUS
  <2> HIDE DEF part
  <2>7. /\ got[c] \o part \in Seq(Tokens)
        /\ Len(got[c] \o part) = n + k
        /\ \A i \in 1 .. n + k :
              (got[c] \o part)[i] = IF i <= n THEN got[c][i] ELSE part[i - n]
    BY <2>4, <2>5, ConcatProperties
  <2>8. /\ got' \in [Chunks -> Seq(Tokens)]
        /\ \A d \in Chunks : d # c => got'[d] = got[d]
        /\ got'[c] \in Seq(Tokens)
        /\ Len(got'[c]) = n + k
        /\ \A i \in 1 .. n + k : got'[c][i] = IF i <= n THEN got[c][i] ELSE wire[i - n]
    <3>1. got'[c] = got[c] \o part
      BY <2>4, <2>6
    <3>2. got' \in [Chunks -> Seq(Tokens)] /\ \A d \in Chunks : d # c => got'[d] = got[d]
      BY <2>4, <2>6, <2>7
    <3>3. ASSUME NEW i \in 1 .. n + k, ~ (i <= n)
          PROVE  part[i - n] = wire[i - n]
      <4>1. i - n \in 1 .. k
        BY <2>4, <3>3
      <4> QED
        BY <2>5, <4>1
    <3> QED
      BY <2>7, <3>1, <3>2, <3>3
  <2>9. /\ bytesLeft' \in [Chunks -> Nat]
        /\ bytesLeft'[c] = bytesLeft[c] - k
        /\ \A d \in Chunks : d # c => bytesLeft'[d] = bytesLeft[d]
    BY <2>4
  <2>10. \A d \in Chunks : reader'[d] = IF d = c THEN "out" ELSE reader[d]
    BY <2>2, <2>4
  <2>11. \A d \in Chunks : AtFront(d)' <=> AtFront(d)
    BY <2>1 DEF AtFront
  <2>12. wire' \in Seq(Tokens)
    BY <1>1, <2>4, RestFacts
  <2>13. Typed'
    BY <1>1, <2>1, <2>2, <2>8, <2>9, <2>12 DEF Typed, InCall
  <2>14. Once'
    <3>1. /\ \A i \in 1 .. Len(chunkQueue) : chunkQueue[i] \in Chunks
          /\ \A i \in 1 .. Len(finished) : finished[i] \in Chunks
      BY <1>1, Lengths
    <3> QED
      BY <1>1, <2>1, <2>2, <2>3, <2>10, <3>1 DEF Once
  <2>15. Turns'
    <3> SUFFICES ASSUME NEW d \in Chunks
                 PROVE  /\ schedule[d] = "scheduled" /\ reader'[d] \notin {"wake", "done"} =>
                              \E j \in 1 .. Len(chunkQueue) : chunkQueue[j] = d
                        /\ reader'[d] \in {"parse", "recv", "pop", "stuck"} => AtFront(d)
                        /\ parsed[d] => AtFront(d) \/ \E i \in 1 .. Len(finished) : finished[i] = d
                        /\ reader'[d] \in {"recv", "pop"} => parsed[d]
                        /\ reader'[d] = "pop" => bytesLeft'[d] = 0
                        /\ Len(got'[d]) > 0 => parsed[d]
      BY <2>1, <2>11 DEF Turns
    <3>1. CASE d = c
      BY <1>1, <2>2, <2>3, <2>10, <3>1 DEF Turns
    <3>2. CASE d # c
      BY <1>1, <2>8, <2>9, <2>10, <3>2 DEF Turns
    <3> QED
      BY <3>1, <3>2
  <2>16. Ordered' => Ordered
    BY <2>1 DEF Ordered
  <2>17. ASSUME Ordered
         PROVE  Stream'
    <3>1. Own /\ Wire /\ Server
      BY <1>1, <2>17 DEF Stream
    <3>2. Turn \in 1 .. Len(asked) /\ c = asked[Turn] /\ Turn' = Turn
      BY <2>1, <2>3, <2>17, FrontIsTurn DEF Turn
    <3>3. bytesLeft[c] + n = Size[c]
      <4>1. Len(wire) # 0
        BY <2>4
      <4> QED
        BY <2>3, <3>1, <4>1 DEF Own
    <3>4. n + k <= Size[c] /\ bytesLeft'[c] + (n + k) = Size[c] /\ n + k \in 0 .. Size[c]
      <4>1. bytesLeft[c] \in Nat /\ n \in Nat /\ k \in Nat /\ Size[c] \in Nat
            /\ k <= bytesLeft[c]
        BY <2>4
      <4> QED
        BY <2>9, <3>3, <4>1
    <3>5. Taken = n + 1 /\ Taken <= Size[asked[Turn]] /\ Turn <= Len(asked)
      <4>1. Turn <= Len(asked)
        BY <1>1, <3>2, Lengths
      <4>2. Taken = n + 1
        BY <2>3, <3>2, <4>1 DEF Taken
      <4> QED
        BY <2>4, <3>2, <3>4, <4>1, <4>2
    <3>6. wire[1] = <<asked[Turn], n + 1>>
      BY <2>4, <3>1, <3>5 DEF Wire
    <3>7. \A i \in 1 .. k : wire[i] = <<c, n + i>>
      BY <2>4, <2>17, <3>2, <3>4, <3>5, <3>6, NextBytes
    <3>8. \A i \in 1 .. n + k : got'[c][i] = <<c, i>>
      <4> SUFFICES ASSUME NEW i \in 1 .. n + k
                   PROVE  got'[c][i] = <<c, i>>
        OBVIOUS
      <4>1. CASE i <= n
        <5>1. i \in 1 .. n
          BY <2>4, <4>1
        <5> QED
          BY <2>8, <3>1, <4>1, <5>1 DEF Own
      <4>2. CASE ~ (i <= n)
        <5>1. i - n \in 1 .. k /\ n + (i - n) = i
          BY <2>4, <4>2
        <5> QED
          BY <2>8, <3>7, <4>2, <5>1
      <4> QED
        BY <4>1, <4>2
    <3>9. Own'
      <4>1. ASSUME NEW d \in Chunks
            PROVE  /\ Len(got'[d]) <= Size[d]
                   /\ \A i \in 1 .. Len(got'[d]) : got'[d][i] = <<d, i>>
        BY <2>8, <3>1, <3>4, <3>8 DEF Own
      <4>2. ASSUME NEW i \in 1 .. Len(finished)
            PROVE  \/ Len(got'[finished[i]]) = Size[finished[i]]
                   \/ ~ open /\ Len(got'[finished[i]]) = 0
        <5>1. finished[i] # c /\ finished[i] \in Chunks
          BY <1>1, <2>3, FrontIsNew, Lengths
        <5> QED
          BY <2>8, <3>1, <5>1 DEF Own
      <4>3. ASSUME NEW d \in Chunks, AtFront(d)
            PROVE  bytesLeft'[d] + Len(got'[d]) = Size[d]
        <5>1. d = c
          BY <2>3, <4>3 DEF AtFront
        <5> QED
          BY <2>8, <3>4, <5>1
      <4> QED
        BY <2>1, <2>11, <4>1, <4>2, <4>3 DEF Own
    <3>10. Wire' /\ Server'
      <4>1. wire[k] = <<asked[Turn], n + k>>
        BY <2>4, <3>2, <3>7
      <4>2. Taken' = (n + k) + 1
        <5>1. Turn' <= Len(asked') /\ parsed'[asked'[Turn']] /\ asked'[Turn'] = c
          BY <2>1, <2>3, <3>2, <3>5
        <5> QED
          BY <2>8, <5>1 DEF Taken
      <4>3. UNCHANGED <<asked, finished, requests, open>>
        BY <2>1
      <4>4. n + k \in 0 .. Size[asked[Turn]]
        BY <3>2, <3>4
      <4> QED
        BY <2>4, <2>17, <3>5, <4>1, <4>2, <4>3, <4>4, Advance
    <3> QED
      BY <3>9, <3>10 DEF Stream
  <2> QED
    BY <2>13, <2>14, <2>15, <2>16, <2>17 DEF IInv
<1> QED
  BY <1>2, <1>3 DEF Recv

LEMMA PopStep ==
    ASSUME IInv, NEW c \in Chunks, Pop(c)
    PROVE  IInv'
<1>1. Typed /\ Once /\ Turns /\ (Ordered => Stream)
  BY DEF IInv
<1>2. /\ schedule' = schedule /\ parsed' = parsed
      /\ bytesLeft' = bytesLeft /\ contentLength' = contentLength /\ got' = got
      /\ wire' = wire /\ open' = open /\ requests' = requests /\ asked' = asked
      /\ call' = call /\ missed' = missed /\ lock' = lock
      /\ reader[c] = "pop" /\ reader' = [reader EXCEPT ![c] = "wake"]
      /\ chunkQueue' = Tail(chunkQueue)
      /\ finished' = Append(finished, Head(chunkQueue))
  BY DEF Pop, Goto, chunkVars, net
<1>3. AtFront(c) /\ parsed[c] /\ bytesLeft[c] = 0 /\ schedule[c] = "scheduled"
  BY <1>1, <1>2 DEF Turns, Once
<1>4. /\ chunkQueue \in Seq(Chunks) /\ finished \in Seq(Chunks)
      /\ reader \in [Chunks -> InCall \cup {"off", "out", "aborted", "stuck", "ended", "done"}]
      /\ Len(asked) \in Nat /\ Len(chunkQueue) \in Nat /\ Len(finished) \in Nat
      /\ \A i \in 1 .. Len(chunkQueue) : chunkQueue[i] \in Chunks
      /\ \A i \in 1 .. Len(finished) : finished[i] \in Chunks
      /\ \A i \in 1 .. Len(asked) : asked[i] \in Chunks
  BY <1>1, Lengths DEF Typed
<1>5. /\ Len(chunkQueue) > 0 /\ c = chunkQueue[1] /\ Head(chunkQueue) = c
      /\ chunkQueue' \in Seq(Chunks)
      /\ Len(chunkQueue') = Len(chunkQueue) - 1
      /\ \A i \in 1 .. Len(chunkQueue') : chunkQueue'[i] = chunkQueue[i + 1]
  BY <1>2, <1>3, <1>4 DEF AtFront
<1>6. /\ finished' \in Seq(Chunks)
      /\ Len(finished') = Len(finished) + 1
      /\ \A i \in 1 .. Len(finished) : finished'[i] = finished[i]
      /\ \A i \in 1 .. Len(finished') :
            i \notin 1 .. Len(finished) => i = Len(finished) + 1 /\ finished'[i] = c
  <2>1. finished' = Append(finished, c)
    BY <1>2, <1>5
  <2> QED
    BY <1>4, <2>1, AppendFacts
<1>7. /\ Len(finished) + 1 \in 1 .. Len(finished') /\ Len(finished) + 1 \notin 1 .. Len(finished)
      /\ 1 .. Len(finished) \subseteq 1 .. Len(finished')
      /\ \A i \in 1 .. Len(chunkQueue') : i + 1 \in 1 .. Len(chunkQueue) /\ i + 1 # 1
      /\ 1 \in 1 .. Len(chunkQueue)
  BY <1>4, <1>5, <1>6
<1>8. \A d \in Chunks : reader'[d] = IF d = c THEN "wake" ELSE reader[d]
  BY <1>2, <1>4
<1>9. \A i \in 1 .. Len(chunkQueue') : chunkQueue'[i] # c /\ chunkQueue'[i] \in Chunks
  BY <1>1, <1>4, <1>5, <1>7 DEF Once
<1>10. \A i \in 1 .. Len(finished) : finished[i] # c
  BY <1>3, FrontIsNew
<1>11. \A d \in Chunks : AtFront(d)' => ~ parsed[d]
  <2> SUFFICES ASSUME NEW d \in Chunks, AtFront(d)', parsed[d]
               PROVE  FALSE
    OBVIOUS
  <2>1. 1 \in 1 .. Len(chunkQueue') /\ d = chunkQueue'[1]
    BY <1>4, <1>5 DEF AtFront
  <2>2. d # c /\ 2 \in 1 .. Len(chunkQueue) /\ d = chunkQueue[2]
    BY <1>4, <1>5, <1>7, <1>9, <2>1
  <2>3. ~ AtFront(d)
    BY <1>5, <2>2 DEF AtFront
  <2>4. PICK i \in 1 .. Len(finished) : finished[i] = d
    BY <1>1, <2>3 DEF Turns
  <2> QED
    BY <1>1, <2>2, <2>4 DEF Once
<1>12. Typed'
  BY <1>1, <1>2, <1>5, <1>6 DEF Typed, InCall
<1>13. Once'
  <2>1. ASSUME NEW i \in 1 .. Len(chunkQueue')
        PROVE  /\ schedule[chunkQueue'[i]] = "scheduled"
               /\ reader'[chunkQueue'[i]] \notin {"wake", "done"}
    <3>1. i + 1 \in 1 .. Len(chunkQueue) /\ chunkQueue'[i] = chunkQueue[i + 1]
      BY <1>5, <1>7
    <3>2. schedule[chunkQueue[i + 1]] = "scheduled"
          /\ reader[chunkQueue[i + 1]] \notin {"wake", "done"}
      BY <1>1, <3>1 DEF Once
    <3> QED
      BY <1>8, <1>9, <3>1, <3>2
  <2>2. ASSUME NEW i \in 1 .. Len(chunkQueue'), NEW j \in 1 .. Len(chunkQueue'),
               chunkQueue'[i] = chunkQueue'[j]
        PROVE  i = j
    <3>1. chunkQueue[i + 1] = chunkQueue[j + 1]
      BY <1>5, <2>2
    <3>2. i + 1 \in 1 .. Len(chunkQueue) /\ j + 1 \in 1 .. Len(chunkQueue)
      BY <1>7
    <3>3. i + 1 = j + 1
      BY <1>1, <3>1, <3>2 DEF Once
    <3> QED
      BY <3>3
  <2>3. ASSUME NEW i \in 1 .. Len(finished')
        PROVE  reader'[finished'[i]] \in {"wake", "done"}
    <3>1. CASE i \in 1 .. Len(finished)
      <4>1. finished'[i] = finished[i] /\ finished[i] # c
        BY <1>6, <1>10, <3>1
      <4>2. reader[finished[i]] \in {"wake", "done"} /\ finished[i] \in Chunks
        BY <1>1, <1>4, <3>1 DEF Once
      <4> QED
        BY <1>8, <4>1, <4>2
    <3>2. CASE i \notin 1 .. Len(finished)
      <4>1. finished'[i] = c
        BY <1>6, <3>2
      <4> QED
        BY <1>8, <4>1
    <3> QED
      BY <3>1, <3>2
  <2>4. \A d \in Chunks : reader'[d] # "off" => schedule[d] = "scheduled"
    BY <1>1, <1>2, <1>8 DEF Once
  <2> QED
    BY <1>1, <1>2, <2>1, <2>2, <2>3, <2>4 DEF Once
<1>14. Turns'
  <2> SUFFICES ASSUME NEW d \in Chunks
               PROVE  /\ schedule[d] = "scheduled" /\ reader'[d] \notin {"wake", "done"} =>
                            \E j \in 1 .. Len(chunkQueue') : chunkQueue'[j] = d
                      /\ reader'[d] \notin {"parse", "recv", "pop", "stuck"}
                      /\ parsed[d] => \E i \in 1 .. Len(finished') : finished'[i] = d
                      /\ Len(got[d]) > 0 => parsed[d]
    BY <1>2 DEF Turns
  <2>1. CASE d = c
    BY <1>1, <1>3, <1>6, <1>7, <1>8, <2>1 DEF Turns
  <2>2. CASE d # c
    <3>1. ~ AtFront(d) /\ reader'[d] = reader[d]
      BY <1>3, <1>8, <2>2 DEF AtFront
    <3>2. ASSUME schedule[d] = "scheduled", reader[d] \notin {"wake", "done"}
          PROVE  \E j \in 1 .. Len(chunkQueue') : chunkQueue'[j] = d
      <4>1. PICK j \in 1 .. Len(chunkQueue) : chunkQueue[j] = d
        BY <1>1, <3>2 DEF Turns
      <4>2. j - 1 \in 1 .. Len(chunkQueue') /\ (j - 1) + 1 = j
        BY <1>4, <1>5, <2>2, <4>1
      <4> QED
        BY <1>5, <4>1, <4>2
    <3>3. parsed[d] => \E i \in 1 .. Len(finished') : finished'[i] = d
      BY <1>1, <1>6, <1>7, <3>1 DEF Turns
    <3> QED
      BY <1>1, <3>1, <3>2, <3>3 DEF Turns
  <2> QED
    BY <2>1, <2>2
<1>15. ASSUME Ordered'
       PROVE  Ordered
  <2>1. Len(finished) + Len(chunkQueue) <= Len(asked)
    BY <1>2, <1>4, <1>5, <1>6, <1>15 DEF Ordered
  <2>2. \A i \in 1 .. Len(finished) : asked[i] = finished[i]
    BY <1>2, <1>6, <1>7, <1>15 DEF Ordered
  <2>3. ASSUME NEW i \in 1 .. Len(chunkQueue)
        PROVE  asked[Len(finished) + i] = chunkQueue[i]
    <3>1. CASE i = 1
      <4>1. asked[Len(finished) + 1] = finished'[Len(finished) + 1]
        BY <1>2, <1>7, <1>15 DEF Ordered
      <4> QED
        BY <1>5, <1>6, <1>7, <3>1, <4>1
    <3>2. CASE i # 1
      <4>1. /\ i - 1 \in 1 .. Len(chunkQueue') /\ (i - 1) + 1 = i
            /\ Len(finished') + (i - 1) = Len(finished) + i
        BY <1>4, <1>5, <1>6, <3>2
      <4>2. asked[Len(finished') + (i - 1)] = chunkQueue'[i - 1]
        BY <1>2, <1>15, <4>1 DEF Ordered
      <4> QED
        BY <1>5, <4>1, <4>2
    <3> QED
      BY <3>1, <3>2
  <2> QED
    BY <1>2, <1>15, <2>1, <2>2, <2>3 DEF Ordered
<1>16. ASSUME Ordered'
       PROVE  Stream'
  <2>1. Ordered /\ Own /\ Wire /\ Server
    BY <1>1, <1>15, <1>16 DEF Stream
  <2>2. Turn \in 1 .. Len(asked) /\ c = asked[Turn] /\ Turn \in Nat
    BY <1>1, <1>3, <2>1, FrontIsTurn, Lengths
  <2>3. Turn' = Turn + 1
    BY <1>4, <1>6 DEF Turn
  <2>4. Len(got[c]) \in Nat /\ Size[c] \in Nat
    BY <1>1, Lengths
  <2>5. \/ Len(got[c]) = Size[c]
        \/ ~ open /\ Len(wire) = 0 /\ Len(got[c]) = 0
    BY <1>3, <2>1, <2>4 DEF Own
  <2>6. Own'
    <3>1. ASSUME NEW i \in 1 .. Len(finished')
          PROVE  \/ Len(got[finished'[i]]) = Size[finished'[i]]
                 \/ ~ open /\ Len(got[finished'[i]]) = 0
      BY <1>6, <2>1, <2>5 DEF Own
    <3> QED
      BY <1>2, <1>11, <2>1, <3>1 DEF Own
  <2>7. Taken = Len(got[c]) + 1
    BY <1>3, <1>4, <2>2 DEF Taken
  <2>8. Taken' = 0
    <3>1. Turn' <= Len(asked) => ~ parsed[asked[Turn']]
      <4>1. Turn' <= Len(asked) => Turn' \in 1 .. Len(asked) /\ Turn' > Turn
        BY <1>4, <2>2, <2>3
      <4> QED
        BY <2>1, <4>1, Untouched
    <3> QED
      BY <1>2, <3>1 DEF Taken
  <2>9. Wire'
    <3>1. \A i \in 1 .. Len(wire) - 1 : Follows(wire[i], wire[i + 1])'
      BY <1>2, <2>1 DEF Wire, Follows
    <3>2. ASSUME Len(wire) > 0
          PROVE  /\ Turn + 1 <= Len(asked)
                 /\ wire[1] = <<asked[Turn + 1], 0>>
                 /\ 0 <= Size[asked[Turn + 1]]
      <4>1. Taken > Size[asked[Turn]]
        BY <2>2, <2>4, <2>5, <2>7, <3>2
      <4>2. Turn < Len(asked) /\ wire[1] = <<asked[Turn + 1], 0>>
        BY <2>1, <3>2, <4>1 DEF Wire
      <4>3. Turn + 1 \in 1 .. Len(asked)
        BY <1>4, <2>2, <4>2
      <4>4. Size[asked[Turn + 1]] \in Nat
        BY <1>1, <4>3, Lengths
      <4> QED
        BY <1>4, <2>2, <4>2, <4>4
    <3>3. ASSUME Len(wire) > 0
          PROVE  ~ (0 > Size[asked[Turn + 1]])
      <4>1. Turn + 1 \in 1 .. Len(asked)
        BY <1>4, <2>2, <3>2, <3>3
      <4>2. Size[asked[Turn + 1]] \in Nat
        BY <1>1, <4>1, Lengths
      <4> QED
        BY <4>2
    <3> QED
      BY <1>2, <2>3, <2>8, <3>1, <3>2, <3>3 DEF Wire
  <2>10. Server'
    <3> SUFFICES ASSUME open PROVE Server'
      BY <1>2 DEF Server
    <3>1. Answered' = Answered /\ Answered \in Int
      BY <1>1, <1>2, Lengths DEF Answered
    <3>2. ASSUME Len(wire) = 0
          PROVE  Answered = Len(finished')
      BY <1>4, <1>6, <2>1, <2>2, <2>7, <3>2 DEF Server, Turn
    <3> QED
      BY <1>2, <2>1, <2>8, <3>1, <3>2 DEF Server
  <2> QED
    BY <2>6, <2>9, <2>10 DEF Stream
<1> QED
  BY <1>12, <1>13, <1>14, <1>16 DEF IInv

-----------------------------------------------------------------------------
(* The theorems *)

LEMMA Stutters ==
    ASSUME IInv, UNCHANGED vars
    PROVE  IInv'
<1>1. /\ schedule' = schedule /\ chunkQueue' = chunkQueue /\ parsed' = parsed
      /\ bytesLeft' = bytesLeft /\ contentLength' = contentLength /\ got' = got
      /\ requests' = requests /\ wire' = wire /\ open' = open /\ asked' = asked
      /\ finished' = finished /\ lock' = lock /\ call' = call /\ reader' = reader
      /\ missed' = missed
  BY DEF vars, chunkVars, readVars, net
<1>2. UNCHANGED data
  BY <1>1 DEF data, chunkVars, net
<1>3. Typed'
  BY <1>1 DEF IInv, Typed
<1>4. Once'
  BY <1>1 DEF IInv, Once
<1>5. Turns'
  BY <1>1 DEF IInv, Turns, AtFront
<1> QED
  BY <1>2, <1>3, <1>4, <1>5, DataOnly DEF IInv

LEMMA Invariance == Spec => []IInv
<1>1. Init => IInv
  BY Initially
<1>2. IInv /\ [Next]_vars => IInv'
  <2> SUFFICES ASSUME IInv, [Next]_vars
               PROVE  IInv'
    OBVIOUS
  <2>1. CASE Answer
    BY <2>1, AnswerStep
  <2>2. CASE Close
    BY <2>2, CloseStep
  <2>3. ASSUME NEW c \in Chunks, ScheduleStep(c)
        PROVE  IInv'
    BY <2>3, SendDataStep, PushChunkStep DEF ScheduleStep
  <2>4. ASSUME NEW c \in Chunks, StartReader(c) \/ CallPeek(c) \/ AbortReader(c)
        PROVE  IInv'
    BY <2>4, StartReaderStep, CallStep, AbortReaderStep
  <2>5. ASSUME NEW c \in Chunks, ReadStep(c)
        PROVE  IInv'
    BY <2>5, CallStep, LookStep, SleepStep, ParseHeaderStep, CheckLeftStep, RecvStep,
       PopStep, WakeStep DEF ReadStep
  <2>6. CASE UNCHANGED vars
    BY <2>6, Stutters
  <2> QED
    BY <2>1, <2>2, <2>3, <2>4, <2>5, <2>6 DEF Next
<1> QED
  BY <1>1, <1>2, PTL DEF Spec

\* What a thread reads for a chunk is the beginning of that chunk's body
\* (PersistentHTTPConnection.cpp 66-104), for any number of chunks, whatever
\* parts the bytes come in, and when the server closes, as long as the requests
\* were queued in the order they were sent and came with their lengths.
THEOREM BytesAreOwn == Spec => []OwnBytes
<1>1. IInv => OwnBytes
  <2> SUFFICES ASSUME IInv, Regular, NEW c \in Chunks
               PROVE  IsPrefix(got[c], Body(c))
    BY DEF OwnBytes
  <2>1. Typed /\ Own
    BY RegularIsOrdered DEF IInv, Stream
  <2>2. got[c] \in Seq(Tokens)
    BY <2>1 DEF Typed
  <2>3. /\ Body(c) \in Seq(Tokens) /\ Len(Body(c)) = Size[c] /\ Size[c] \in Nat
        /\ \A i \in 1 .. Size[c] : Body(c)[i] = <<c, i>>
    BY BodyFacts
  <2>4. /\ Len(got[c]) <= Size[c] /\ Len(got[c]) \in Nat
        /\ \A i \in 1 .. Len(got[c]) : got[c][i] = <<c, i>>
    BY <2>1, Lengths DEF Own
  <2>5. \A i \in 1 .. Len(got[c]) : Body(c)[i] = got[c][i]
    BY <2>3, <2>4
  <2> QED
    BY <2>2, <2>3, <2>4, <2>5, PrefixFacts
<1> QED
  BY Invariance, <1>1, PTL

\* A chunk whose Read returned 0 and was popped (lines 84-90) has all its
\* bytes, or none because the connection had ended.
THEOREM PoppedHasAll == Spec => []PoppedIsComplete
<1>1. IInv => PoppedIsComplete
  <2> SUFFICES ASSUME IInv, Regular, NEW i \in DOMAIN finished
               PROVE  \/ got[finished[i]] = Body(finished[i])
                      \/ ~ open /\ got[finished[i]] = <<>>
    BY DEF PoppedIsComplete
  <2> DEFINE c == finished[i]
  <2>1. Typed /\ Own
    BY RegularIsOrdered DEF IInv, Stream
  <2>2. finished \in Seq(Chunks)
    BY <2>1 DEF Typed
  <2>3. i \in 1 .. Len(finished) /\ c \in Chunks
    BY <2>2, LenProperties, ElementOfSeq
  <2>4. Len(got[c]) = Size[c] \/ (~ open /\ Len(got[c]) = 0)
    BY <2>1, <2>3 DEF Own
  <2> HIDE DEF c
  <2>5. got[c] \in Seq(Tokens)
    BY <2>1, <2>3 DEF Typed
  <2>6. /\ Body(c) \in Seq(Tokens) /\ Len(Body(c)) = Size[c] /\ Size[c] \in Nat
        /\ \A j \in 1 .. Size[c] : Body(c)[j] = <<c, j>>
    BY <2>3, BodyFacts
  <2>7. CASE Len(got[c]) = Size[c]
    <3>1. \A j \in 1 .. Len(got[c]) : got[c][j] = Body(c)[j]
      BY <2>1, <2>3, <2>6, <2>7 DEF Own
    <3>2. got[c] = Body(c)
      BY <2>5, <2>6, <2>7, <3>1, SeqEqual
    <3> QED
      BY <3>2 DEF c
  <2>8. CASE ~ open /\ Len(got[c]) = 0
    <3>1. got[c] = <<>>
      BY <2>5, <2>8, EmptySeq
    <3> QED
      BY <2>8, <3>1 DEF c
  <2> QED
    BY <2>4, <2>7, <2>8
<1> QED
  BY Invariance, <1>1, PTL
=============================================================================
