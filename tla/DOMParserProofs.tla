--------------------------- MODULE DOMParserProofs ---------------------------
(***************************************************************************)
(* Proofs about DOMParser for documents of any length over any names: on   *)
(* plain documents the recursion stays in step with the reader, and the    *)
(* tree that Parse returns is the document.                                *)
(*                                                                         *)
(* A node gets its place in the tree when the element ends, in the         *)
(* document when it starts.  In between, the children of every call in     *)
(* progress lack exactly the next call, and those of the innermost one     *)
(* lack what was just read or returned (Built).  That needs the calls to   *)
(* be the open elements, which they are because the end of an element has  *)
(* its name and nothing before that has, in a plain document (Documented). *)
(* Of other documents only the types are claimed.                          *)
(***************************************************************************)
EXTENDS DOMParser, SequenceTheorems, TLAPS

-----------------------------------------------------------------------------
(* The invariant *)

Nodes == Document .. MaxEvents

AllEvents ==
    Elements \cup {Text, Space, Comment} \cup Others \cup [type : {"end"}, name : Names]

Trees == [Nodes -> Seq(Nodes)]

ReaderTyped ==
    /\ events \in Seq(AllEvents)
    /\ Len(events) <= MaxEvents
    /\ document \in [open : Seq(Nodes), around : Seq(Nodes), tree : Trees,
                     noted : BOOLEAN, plain : BOOLEAN]
    /\ ret \in {1, 0, -1}
    /\ kept \in BOOLEAN
    /\ kept => ret # 1

Typed ==
    /\ ReaderTyped
    /\ pc \in {"parse", "process", "skip", "loop", "return", "done"}
    /\ stack \in Seq(Nodes)
    /\ node \in Nodes \cup {NULL}
    /\ subNodes \in Trees
    /\ pc = "loop" => Len(stack) > 0
    /\ pc \in {"parse", "done"} => stack = <<>>
    /\ pc \in {"process", "skip", "loop"} /\ ret = 1 => Len(events) > 0
    /\ pc = "parse" => events = <<>>
    /\ pc \in {"parse", "process"} => ~ kept
    /\ pc = "skip" /\ kept => Len(events) > 0 /\ events[Len(events)] \in {Comment, Space}

\* The document itself and elements in it, each inside the one before.
Nested(evs, elements, last) ==
    /\ Len(elements) > 0
    /\ elements[1] = Document
    /\ \A j \in 2 .. Len(elements) :
          elements[j] \in 1 .. last /\ evs[elements[j]].type = "start"
    /\ \A i, j \in 1 .. Len(elements) : i < j => elements[i] < elements[j]

\* The last event, and the elements that are open before and behind it.
Documented ==
    /\ Nested(events, document.open, Len(events))
    /\ Len(events) > 0 =>
          LET n == Len(events)
              e == events[n]
              around == document.around
              in == around[Len(around)]
          IN  /\ Nested(events, around, n - 1)
              /\ e.type = "start" => document.open = Append(around, n)
              /\ e.type = "end" =>
                    /\ document.open = Front(around)
                    /\ Len(around) > 1
                    /\ e.name = events[in].name
              /\ e.type \notin {"start", "end"} => document.open = around
              /\ e = Comment => document.noted
              /\ document.plain => e.type # "other"
              /\ document.plain /\ e \in Elements /\ Len(around) > 1 =>
                    e.name # events[in].name

\* The calls in progress and, outside all, Parse.
Calls == <<Document>> \o stack

Hangs(e) == e \in Elements \/ e = Text

\* What hangs in the document but is not a node yet.
JustRead == IF ret = 1 /\ Hangs(events[Len(events)]) THEN <<Len(events)>> ELSE <<>>

\* What the children of the innermost call lack.
Pending ==
    CASE pc = "return" -> IF node = NULL THEN <<>> ELSE <<node>>
      [] pc \in {"process", "skip", "loop"} -> JustRead
      [] OTHER -> <<>>

\* Where the calls stand in the document.
Stands ==
    /\ pc \in {"process", "skip", "loop"} /\ ret = 1 => Calls = document.around
    /\ pc \in {"parse", "return"} /\ ret = 1 => Calls = document.open
    /\ pc = "process" /\ ret = 1 => events[Len(events)].type # "end"
    /\ pc = "skip" /\ ret = 1 =>
          \/ events[Len(events)] \in Elements
          \/ events[Len(events)] \in {Comment, Space} /\ document.noted

\* The tree of the document is that of the nodes, but for what the children of
\* the calls lack: the next call, or what is pending.
BuiltTo(tree, subs, calls, pending) ==
    /\ \A i, j \in 1 .. Len(calls) : i < j => calls[i] < calls[j]
    /\ \A j \in 1 .. Len(calls) - 1 :
          tree[calls[j]] = subs[calls[j]] \o <<calls[j + 1]>>
    /\ tree[calls[Len(calls)]] = subs[calls[Len(calls)]] \o pending
    /\ \A i \in Nodes : (\A j \in 1 .. Len(calls) : calls[j] # i) => tree[i] = subs[i]

Built == BuiltTo(document.tree, subNodes, Calls, Pending)

IInv == Typed /\ Documented /\ (document.plain => Stands /\ Built)

-----------------------------------------------------------------------------
(* Sequences *)

\* A positive number that is not one.
LEMMA AboveOne ==
    \A k \in Nat : k > 0 => (k > 1 <=> k # 1) /\ (k # 1 => k \in 2 .. k)
OBVIOUS

\* What a sequence with one more element is.
LEMMA AppendFacts ==
    ASSUME NEW S, NEW s \in Seq(S), NEW x \in S
    PROVE  /\ Append(s, x) \in Seq(S)
           /\ Append(s, x) = s \o <<x>>
           /\ Len(s) \in Nat
           /\ Len(Append(s, x)) = Len(s) + 1
           /\ \A i \in 1 .. Len(s) : Append(s, x)[i] = s[i]
           /\ Append(s, x)[Len(s) + 1] = x
BY AppendProperties, AppendIsConcat, LenProperties

\* What a sequence without its last element is.
LEMMA FrontFacts ==
    ASSUME NEW S, NEW s \in Seq(S), Len(s) > 0
    PROVE  /\ Front(s) \in Seq(S)
           /\ Len(s) \in Nat
           /\ Len(Front(s)) = Len(s) - 1
           /\ \A i \in 1 .. Len(s) - 1 : Front(s)[i] = s[i]
           /\ Last(s) = s[Len(s)]
           /\ Last(s) \in S
           /\ s = Append(Front(s), Last(s))
<1>0. Len(s) \in Nat
  BY LenProperties
<1>1. Len(s) \in Nat /\ s \in [1 .. Len(s) -> S]
  BY LenProperties
<1>2. Front(s) = SubSeq(s, 1, Len(s) - 1)
  BY DEF Front
<1>3. \A i \in 1 .. Len(s) - 1 : s[i] \in S
  BY <1>1
<1>4. /\ Front(s) \in Seq(S)
      /\ Len(Front(s)) = Len(s) - 1
      /\ \A i \in 1 .. Len(s) - 1 : Front(s)[i] = s[i]
  <2>1. /\ SubSeq(s, 1, Len(s) - 1) \in Seq(S)
        /\ Len(SubSeq(s, 1, Len(s) - 1)) = IF 1 <= Len(s) - 1 THEN Len(s) - 1 - 1 + 1 ELSE 0
        /\ \A i \in 1 .. Len(s) - 1 - 1 + 1 : SubSeq(s, 1, Len(s) - 1)[i] = s[1 + i - 1]
    BY <1>1, <1>3, SubSeqProperties
  <2> QED BY <1>1, <1>2, <2>1
<1>5. Last(s) = s[Len(s)] /\ Last(s) \in S
  BY <1>1 DEF Last
<1>6. s = Append(Front(s), Last(s))
  <2>1. /\ Append(Front(s), Last(s)) \in Seq(S)
        /\ Len(Append(Front(s), Last(s))) = Len(s)
    <3>1. /\ Append(Front(s), Last(s)) \in Seq(S)
          /\ Len(Append(Front(s), Last(s))) = Len(Front(s)) + 1
      BY <1>4, <1>5, AppendFacts
    <3>2. Len(Front(s)) = Len(s) - 1
      BY <1>4
    <3> QED BY <1>1, <3>1, <3>2
  <2>2. \A i \in 1 .. Len(s) : s[i] = Append(Front(s), Last(s))[i]
    <3> TAKE i \in 1 .. Len(s)
    <3>1. CASE i = Len(s)
      <4>1. Append(Front(s), Last(s))[Len(Front(s)) + 1] = Last(s)
        BY <1>4, <1>5, AppendFacts
      <4> QED BY <1>1, <1>4, <1>5, <3>1, <4>1
    <3>2. CASE i # Len(s)
      <4>1. i \in 1 .. Len(Front(s)) /\ i \in 1 .. Len(s) - 1
        <5>1. Len(Front(s)) = Len(s) - 1
          BY <1>4
        <5>2. i \in 1 .. Len(s) - 1
          BY ONLY <1>0, <3>2, i \in 1 .. Len(s)
        <5> QED BY <5>1, <5>2
      <4>2. Append(Front(s), Last(s))[i] = Front(s)[i]
        BY <1>4, <1>5, <4>1, AppendFacts
      <4> QED BY <1>4, <4>1, <4>2
    <3> QED BY <3>1, <3>2
  <2> QED BY <2>1, <2>2, SeqEqual
<1> QED BY <1>1, <1>4, <1>5, <1>6

-----------------------------------------------------------------------------
(* The tree and the calls *)

\* Another child of a node.
LEMMA AppendedFacts ==
    ASSUME NEW f \in Trees, NEW i \in Nodes, NEW x \in Nodes
    PROVE  /\ Appended(f, i, x) \in Trees
           /\ Appended(f, i, x)[i] = f[i] \o <<x>>
           /\ \A j \in Nodes : j # i => Appended(f, i, x)[j] = f[j]
<1>1. f[i] \in Seq(Nodes)
  BY DEF Trees
<1>2. Append(f[i], x) \in Seq(Nodes) /\ Append(f[i], x) = f[i] \o <<x>>
  BY <1>1, AppendFacts
<1> QED BY <1>2 DEF Appended, Trees

\* An event that hangs in the document is pending.
LEMMA Hung ==
    ASSUME NEW tree \in Trees, NEW subs \in Trees, NEW calls \in Seq(Nodes), Len(calls) > 0,
           NEW n \in Nodes, BuiltTo(tree, subs, calls, <<>>)
    PROVE  BuiltTo(Appended(tree, calls[Len(calls)], n), subs, calls, <<n>>)
<1> DEFINE top == calls[Len(calls)]
           grown == Appended(tree, top, n)
<1>1. Len(calls) \in Nat /\ \A j \in 1 .. Len(calls) : calls[j] \in Nodes
  BY ElementOfSeq, LenProperties
<1>2. top \in Nodes
  BY <1>1
<1>3. /\ grown[top] = tree[top] \o <<n>>
      /\ \A i \in Nodes : i # top => grown[i] = tree[i]
  BY <1>2, AppendedFacts
<1>4. subs[top] \in Seq(Nodes) /\ tree[top] = subs[top]
  <2>1. subs[top] \in Seq(Nodes)
    BY <1>2 DEF Trees
  <2>2. tree[top] = subs[top] \o <<>>
    BY DEF BuiltTo
  <2> QED BY <2>1, <2>2, ConcatEmptySeq
<1>5. \A j \in 1 .. Len(calls) - 1 : calls[j] # top /\ calls[j] \in Nodes
  <2> TAKE j \in 1 .. Len(calls) - 1
  <2>1. j \in 1 .. Len(calls) /\ Len(calls) \in 1 .. Len(calls) /\ j < Len(calls)
    BY <1>1
  <2>2. calls[j] < top
    BY <2>1 DEF BuiltTo
  <2>3. calls[j] \in Int /\ top \in Int /\ calls[j] \in Nodes
    BY <1>1, <2>1, ParserAssumption DEF Nodes, Document
  <2> QED BY <2>2, <2>3
<1> HIDE DEF grown
<1>6. \A j \in 1 .. Len(calls) - 1 : grown[calls[j]] = subs[calls[j]] \o <<calls[j + 1]>>
  BY <1>3, <1>5 DEF BuiltTo
<1>7. \A i \in Nodes : (\A j \in 1 .. Len(calls) : calls[j] # i) => grown[i] = subs[i]
  <2> TAKE i \in Nodes
  <2> HAVE \A j \in 1 .. Len(calls) : calls[j] # i
  <2>1. i # top
    BY <1>1
  <2> QED BY <1>3, <2>1 DEF BuiltTo
<1>8. grown[top] = subs[top] \o <<n>>
  BY <1>3, <1>4
<1>9. BuiltTo(grown, subs, calls, <<n>>)
  BY <1>6, <1>7, <1>8 DEF BuiltTo
<1> QED BY <1>9 DEF grown

\* What is pending becomes the innermost call.
LEMMA Pushed ==
    ASSUME NEW tree \in Trees, NEW subs \in Trees, NEW calls \in Seq(Nodes), Len(calls) > 0,
           NEW n \in Nodes, BuiltTo(tree, subs, calls, <<n>>),
           \A j \in 1 .. Len(calls) : calls[j] < n
    PROVE  BuiltTo(tree, subs, Append(calls, n), <<>>)
<1> DEFINE more == Append(calls, n)
<1>1. /\ Len(calls) \in Nat
      /\ \A j \in 1 .. Len(calls) : calls[j] \in Nodes
  BY ElementOfSeq, LenProperties
<1>2. /\ Len(more) = Len(calls) + 1
      /\ \A j \in 1 .. Len(calls) : more[j] = calls[j]
      /\ more[Len(calls) + 1] = n
  BY AppendFacts
<1> HIDE DEF more
<1>3. \A j \in 1 .. Len(calls) : calls[j] # n
  BY <1>1, ParserAssumption DEF Nodes, Document
<1>4. \A i, j \in 1 .. Len(more) : i < j => more[i] < more[j]
  <2> TAKE i, j \in 1 .. Len(more)
  <2> HAVE i < j
  <2>1. i \in 1 .. Len(calls)
    BY <1>1, <1>2
  <2>2. CASE j = Len(calls) + 1
    BY <1>2, <2>1, <2>2
  <2>3. CASE j # Len(calls) + 1
    <3>1. j \in 1 .. Len(calls)
      BY <1>1, <1>2, <2>3
    <3> QED BY <1>2, <2>1, <3>1 DEF BuiltTo
  <2> QED BY <2>2, <2>3
<1>5. \A j \in 1 .. Len(more) - 1 : tree[more[j]] = subs[more[j]] \o <<more[j + 1]>>
  <2> TAKE j \in 1 .. Len(more) - 1
  <2>1. j \in 1 .. Len(calls) /\ more[j] = calls[j]
    BY <1>1, <1>2
  <2>2. CASE j = Len(calls)
    BY <1>2, <2>1, <2>2 DEF BuiltTo
  <2>3. CASE j # Len(calls)
    <3>1. j \in 1 .. Len(calls) - 1 /\ j + 1 \in 1 .. Len(calls)
      BY <1>1, <2>1, <2>3
    <3>2. more[j + 1] = calls[j + 1]
      BY <1>2, <3>1
    <3> QED BY <2>1, <3>1, <3>2 DEF BuiltTo
  <2> QED BY <2>2, <2>3
<1>6. tree[more[Len(more)]] = subs[more[Len(more)]] \o <<>>
  <2>1. more[Len(more)] = n
    BY <1>2
  <2>2. subs[n] \in Seq(Nodes)
    BY DEF Trees
  <2>3. tree[n] = subs[n]
    BY <1>3 DEF BuiltTo
  <2> QED BY <2>1, <2>2, <2>3, ConcatEmptySeq
<1>7. \A i \in Nodes : (\A j \in 1 .. Len(more) : more[j] # i) => tree[i] = subs[i]
  <2> TAKE i \in Nodes
  <2> HAVE \A j \in 1 .. Len(more) : more[j] # i
  <2>1. \A j \in 1 .. Len(calls) : calls[j] # i
    BY <1>1, <1>2
  <2> QED BY <2>1 DEF BuiltTo
<1>8. BuiltTo(tree, subs, more, <<>>)
  BY <1>4, <1>5, <1>6, <1>7 DEF BuiltTo
<1> QED BY <1>8 DEF more

\* The innermost call returns and is pending.
LEMMA Popped ==
    ASSUME NEW tree \in Trees, NEW subs \in Trees, NEW calls \in Seq(Nodes), Len(calls) > 0,
           NEW n \in Nodes, BuiltTo(tree, subs, Append(calls, n), <<>>)
    PROVE  BuiltTo(tree, subs, calls, <<n>>)
<1> DEFINE more == Append(calls, n)
<1>1. /\ Len(calls) \in Nat
      /\ \A j \in 1 .. Len(calls) : calls[j] \in Nodes
  BY ElementOfSeq, LenProperties
<1>2. /\ Len(more) = Len(calls) + 1
      /\ \A j \in 1 .. Len(calls) : more[j] = calls[j]
      /\ more[Len(calls) + 1] = n
  BY AppendFacts
<1>3. BuiltTo(tree, subs, more, <<>>)
  OBVIOUS
<1> HIDE DEF more
<1>4. \A i, j \in 1 .. Len(calls) : i < j => calls[i] < calls[j]
  <2> TAKE i, j \in 1 .. Len(calls)
  <2>1. i \in 1 .. Len(more) /\ j \in 1 .. Len(more)
    BY <1>1, <1>2
  <2> QED BY <1>2, <1>3, <2>1 DEF BuiltTo
<1>5. \A j \in 1 .. Len(calls) : tree[calls[j]] = subs[calls[j]] \o <<more[j + 1]>>
  <2> TAKE j \in 1 .. Len(calls)
  <2>1. j \in 1 .. Len(more) - 1
    BY <1>1, <1>2
  <2> QED BY <1>2, <1>3, <2>1 DEF BuiltTo
<1>6. \A j \in 1 .. Len(calls) - 1 : tree[calls[j]] = subs[calls[j]] \o <<calls[j + 1]>>
  <2> TAKE j \in 1 .. Len(calls) - 1
  <2>1. j \in 1 .. Len(calls) /\ j + 1 \in 1 .. Len(calls)
    BY <1>1
  <2> QED BY <1>2, <1>5, <2>1
<1>7. tree[calls[Len(calls)]] = subs[calls[Len(calls)]] \o <<n>>
  <2>1. Len(calls) \in 1 .. Len(calls)
    BY <1>1
  <2> QED BY <1>2, <1>5, <2>1
<1>8. \A i \in Nodes : (\A j \in 1 .. Len(calls) : calls[j] # i) => tree[i] = subs[i]
  <2> TAKE i \in Nodes
  <2> HAVE \A j \in 1 .. Len(calls) : calls[j] # i
  <2>1. CASE i = n
    <3>1. subs[n] \in Seq(Nodes)
      BY DEF Trees
    <3>2. tree[n] = subs[n] \o <<>>
      BY <1>2, <1>3 DEF BuiltTo
    <3> QED BY <2>1, <3>1, <3>2, ConcatEmptySeq
  <2>2. CASE i # n
    <3>1. \A j \in 1 .. Len(more) : more[j] # i
      <4> TAKE j \in 1 .. Len(more)
      <4>1. j \in 1 .. Len(calls) \/ j = Len(calls) + 1
        BY <1>1, <1>2
      <4> QED BY <1>2, <2>2, <4>1
    <3> QED BY <1>3, <3>1 DEF BuiltTo
  <2> QED BY <2>1, <2>2
<1> QED BY <1>4, <1>6, <1>7, <1>8 DEF BuiltTo

\* What is pending becomes a child of the innermost call.
LEMMA Added ==
    ASSUME NEW tree \in Trees, NEW subs \in Trees, NEW calls \in Seq(Nodes), Len(calls) > 0,
           NEW n \in Nodes, BuiltTo(tree, subs, calls, <<n>>)
    PROVE  BuiltTo(tree, Appended(subs, calls[Len(calls)], n), calls, <<>>)
<1> DEFINE top == calls[Len(calls)]
           grown == Appended(subs, top, n)
<1>1. Len(calls) \in Nat /\ \A j \in 1 .. Len(calls) : calls[j] \in Nodes
  BY ElementOfSeq, LenProperties
<1>2. top \in Nodes
  BY <1>1
<1>3. /\ grown \in Trees
      /\ grown[top] = subs[top] \o <<n>>
      /\ \A i \in Nodes : i # top => grown[i] = subs[i]
  BY <1>2, AppendedFacts
<1>4. \A j \in 1 .. Len(calls) - 1 : calls[j] # top /\ calls[j] \in Nodes
  <2> TAKE j \in 1 .. Len(calls) - 1
  <2>1. j \in 1 .. Len(calls) /\ Len(calls) \in 1 .. Len(calls) /\ j < Len(calls)
    BY <1>1
  <2>2. calls[j] < top
    BY <2>1 DEF BuiltTo
  <2>3. calls[j] \in Int /\ top \in Int /\ calls[j] \in Nodes
    BY <1>1, <2>1, ParserAssumption DEF Nodes, Document
  <2> QED BY <2>2, <2>3
<1> HIDE DEF grown
<1>5. tree[top] = grown[top] \o <<>>
  <2>1. grown[top] \in Seq(Nodes)
    BY <1>2, <1>3 DEF Trees
  <2>2. tree[top] = grown[top]
    BY <1>3 DEF BuiltTo
  <2> QED BY <2>1, <2>2, ConcatEmptySeq
<1>6. \A j \in 1 .. Len(calls) - 1 : tree[calls[j]] = grown[calls[j]] \o <<calls[j + 1]>>
  BY <1>3, <1>4 DEF BuiltTo
<1>7. \A i \in Nodes : (\A j \in 1 .. Len(calls) : calls[j] # i) => tree[i] = grown[i]
  <2> TAKE i \in Nodes
  <2> HAVE \A j \in 1 .. Len(calls) : calls[j] # i
  <2>1. i # top
    BY <1>1
  <2> QED BY <1>3, <2>1 DEF BuiltTo
<1>8. BuiltTo(tree, grown, calls, <<>>)
  BY <1>5, <1>6, <1>7 DEF BuiltTo
<1> QED BY <1>8 DEF grown

-----------------------------------------------------------------------------
(* Open elements *)

\* Later events leave the open elements as they are.
LEMMA StillNested ==
    ASSUME NEW evs, NEW more, NEW elements \in Seq(Nodes), NEW last \in Nat,
           NEW later \in Nat, last <= later, Nested(evs, elements, last),
           \A i \in 1 .. last : more[i] = evs[i]
    PROVE  Nested(more, elements, later)
<1> SUFFICES ASSUME NEW j \in 2 .. Len(elements)
             PROVE  elements[j] \in 1 .. later /\ more[elements[j]].type = "start"
  BY DEF Nested
<1>1. elements[j] \in 1 .. last /\ evs[elements[j]].type = "start"
  BY DEF Nested
<1> QED BY <1>1

\* An element that starts is open, inside the others.
LEMMA NestedStart ==
    ASSUME NEW evs, NEW elements \in Seq(Nodes), NEW n \in Nodes, n > 0,
           Nested(evs, elements, n - 1), evs[n].type = "start"
    PROVE  /\ Nested(evs, Append(elements, n), n)
           /\ \A j \in 1 .. Len(elements) : elements[j] < n
<1> DEFINE more == Append(elements, n)
<1>1. n \in Nat
  BY DEF Nodes, Document
<1>2. /\ Len(elements) \in Nat
      /\ Len(more) = Len(elements) + 1
      /\ \A i \in 1 .. Len(elements) : more[i] = elements[i]
      /\ more[Len(elements) + 1] = n
  BY AppendFacts
<1> HIDE DEF more
<1>3. \A j \in 1 .. Len(elements) : elements[j] < n /\ (j \in 2 .. Len(elements) => elements[j] > 0)
  <2> TAKE j \in 1 .. Len(elements)
  <2>1. CASE j = 1
    BY <1>1, <1>2, <2>1 DEF Nested, Document
  <2>2. CASE j # 1
    <3>1. j \in 2 .. Len(elements)
      BY <1>2, <2>2
    <3>2. elements[j] \in 1 .. n - 1
      BY <3>1 DEF Nested
    <3> QED BY <1>1, <3>2
  <2> QED BY <2>1, <2>2
<1>4. Len(more) > 0 /\ more[1] = Document
  BY <1>2 DEF Nested
<1>5. \A j \in 2 .. Len(more) : more[j] \in 1 .. n /\ evs[more[j]].type = "start"
  <2> TAKE j \in 2 .. Len(more)
  <2>1. CASE j = Len(elements) + 1
    BY <1>1, <1>2, <2>1
  <2>2. CASE j # Len(elements) + 1
    <3>1. j \in 2 .. Len(elements)
      BY <1>2, <2>2
    <3>2. more[j] = elements[j]
      BY <1>2, <3>1
    <3>3. elements[j] \in 1 .. n - 1 /\ evs[elements[j]].type = "start"
      BY <3>1 DEF Nested
    <3> QED BY <1>1, <3>2, <3>3
  <2> QED BY <2>1, <2>2
<1>6. \A i, j \in 1 .. Len(more) : i < j => more[i] < more[j]
  <2> TAKE i, j \in 1 .. Len(more)
  <2> HAVE i < j
  <2>1. i \in 1 .. Len(elements)
    BY <1>2
  <2>2. CASE j = Len(elements) + 1
    BY <1>2, <1>3, <2>1, <2>2
  <2>3. CASE j # Len(elements) + 1
    <3>1. j \in 1 .. Len(elements)
      BY <1>2, <2>3
    <3> QED BY <1>2, <2>1, <3>1 DEF Nested
  <2> QED BY <2>2, <2>3
<1>7. Nested(evs, more, n)
  BY <1>4, <1>5, <1>6 DEF Nested
<1> QED BY <1>3, <1>7 DEF more

\* The end of an element leaves those around it open.
LEMMA NestedEnd ==
    ASSUME NEW evs, NEW elements \in Seq(Nodes), NEW last \in Nat,
           Nested(evs, elements, last), Len(elements) > 1
    PROVE  Nested(evs, Front(elements), last)
<1> DEFINE less == Front(elements)
<1>1. Len(elements) \in Nat
  BY LenProperties
<1>2. /\ Len(less) = Len(elements) - 1
      /\ \A i \in 1 .. Len(elements) - 1 : less[i] = elements[i]
  BY <1>1, FrontFacts
<1> HIDE DEF less
<1>3. \A i \in 1 .. Len(less) : i \in 1 .. Len(elements) /\ less[i] = elements[i]
  BY <1>1, <1>2
<1>4. Len(less) > 0 /\ less[1] = Document
  BY <1>1, <1>2, <1>3 DEF Nested
<1>5. \A j \in 2 .. Len(less) : less[j] \in 1 .. last /\ evs[less[j]].type = "start"
  <2> TAKE j \in 2 .. Len(less)
  <2>1. j \in 2 .. Len(elements) /\ less[j] = elements[j]
    BY <1>1, <1>2
  <2> QED BY <2>1 DEF Nested
<1>6. \A i, j \in 1 .. Len(less) : i < j => less[i] < less[j]
  BY <1>3 DEF Nested
<1>7. Nested(evs, less, last)
  BY <1>4, <1>5, <1>6 DEF Nested
<1> QED BY <1>7 DEF less

-----------------------------------------------------------------------------
(* The reader *)

\* The kinds of events.
LEMMA EventFacts ==
    ASSUME NEW e \in AllEvents
    PROVE  /\ e.type \in {"start", "empty", "text", "space", "comment", "other", "end"}
           /\ e.type \in {"start", "empty"} <=> e \in Elements
           /\ e.type = "text" <=> e = Text
           /\ e.type = "space" <=> e = Space
           /\ e.type = "comment" <=> e = Comment
           /\ e.type = "other" <=> e \in Others
           /\ e.type \in {"start", "empty", "end"} => e.name \in Names
           /\ e.type \in {"text", "space", "comment"} => e.name \notin Names
<1>1. CASE e \in Elements
  BY <1>1 DEF Elements, Others, Text, Space, Comment, Event
<1>2. CASE e \in {Text, Space, Comment}
  BY <1>2, ParserAssumption DEF Elements, Others, Text, Space, Comment, Event
<1>3. CASE e \in Others
  BY <1>3 DEF Elements, Others, Text, Space, Comment, Event
<1>4. CASE e \in [type : {"end"}, name : Names]
  BY <1>4 DEF Elements, Others, Text, Space, Comment, Event
<1> QED BY <1>1, <1>2, <1>3, <1>4 DEF AllEvents

\* What one more event, the n-th, tells about the document.
Delivered(n) ==
    LET e == events'[n]
    IN  /\ e \in AllEvents
        /\ document'.around = document.open
        /\ document'.tree = IF Hangs(e) THEN Appended(document.tree, Last(document.open), n)
                            ELSE document.tree
        /\ Last(document.open) = Document => e.type # "end"
        /\ e = Comment \/ (document.noted /\ e = Space) => document'.noted
        /\ document'.plain =>
              /\ document.plain
              /\ document.noted => e \in Elements \cup {Comment, Space}

\* The elements that are open are nodes, the innermost one an event or Document.
LEMMA OpenFacts ==
    ASSUME Typed, Documented
    PROVE  /\ document.open \in Seq(Nodes)
           /\ Len(document.open) \in Nat
           /\ Len(document.open) > 0
           /\ Last(document.open) = document.open[Len(document.open)]
           /\ Last(document.open) \in Nodes
           /\ Len(document.open) = 1 <=> Last(document.open) = Document
           /\ Last(document.open) # Document =>
                 /\ Last(document.open) \in 1 .. Len(events)
                 /\ events[Last(document.open)] \in AllEvents
                 /\ events[Last(document.open)].type = "start"
<1>1. document.open \in Seq(Nodes)
  BY DEF Typed, ReaderTyped
<1>2. Nested(events, document.open, Len(events))
  BY DEF Documented
<1>3. Len(document.open) > 0 /\ Len(document.open) \in Nat
  BY <1>1, <1>2, LenProperties DEF Nested
<1>4. Last(document.open) = document.open[Len(document.open)] /\ Last(document.open) \in Nodes
  BY <1>1, <1>3, FrontFacts
<1>5. CASE Len(document.open) = 1
  BY <1>1, <1>2, <1>3, <1>4, <1>5 DEF Nested
<1>6. CASE Len(document.open) # 1
  <2>1. Len(document.open) \in 2 .. Len(document.open)
    BY <1>3, <1>6, AboveOne
  <2>2. Last(document.open) \in 1 .. Len(events) /\ events[Last(document.open)].type = "start"
    BY <1>2, <1>4, <2>1 DEF Nested
  <2>3. events \in Seq(AllEvents)
    BY DEF Typed, ReaderTyped
  <2>4. events[Last(document.open)] \in AllEvents
    BY <2>2, <2>3, ElementOfSeq
  <2>5. Last(document.open) # Document
    <3>1. Len(events) \in Nat
      BY <2>3, LenProperties
    <3> QED BY <2>2, <3>1 DEF Document
  <2> QED BY <1>1, <1>3, <1>4, <1>6, <2>2, <2>4, <2>5
<1> QED BY <1>5, <1>6

\* An event that may come next is one.
LEMMA FollowingFacts ==
    ASSUME Typed, Documented, NEW e \in Following
    PROVE  /\ e \in AllEvents
           /\ e.type = "end" => Last(document.open) # Document
                                /\ e.name = events[Last(document.open)].name
<1> DEFINE in == Last(document.open)
<1>1. \/ e \in Elements \cup {Comment, Text, Space} \cup Others
      \/ in # Document /\ e = Event("end", NameOf(in))
  BY DEF Following
<1>2. CASE e \in Elements \cup {Comment, Text, Space} \cup Others
  <2>1. e \in AllEvents
    BY <1>2 DEF AllEvents
  <2>2. e.type # "end"
    BY <1>2 DEF Elements, Others, Comment, Text, Space, Event
  <2> QED BY <2>1, <2>2
<1>3. CASE in # Document /\ e = Event("end", NameOf(in))
  <2>1. events[in] \in AllEvents /\ events[in].type = "start"
    BY <1>3, OpenFacts
  <2>2. events[in].name \in Names
    BY <2>1, EventFacts
  <2>3. e = Event("end", events[in].name)
    BY <1>3 DEF NameOf
  <2> QED BY <1>3, <2>2, <2>3 DEF Event, AllEvents
<1> QED BY <1>1, <1>2, <1>3

\* An event makes a document of a document.
LEMMA Grows ==
    ASSUME Typed, Documented, NEW e \in Following, Len(events) < MaxEvents,
           events' = Append(events, e),
           document' = Grow(document, Len(events) + 1, e),
           ret' = 1, ~ kept'
    PROVE  /\ ReaderTyped'
           /\ Documented'
           /\ Len(events) + 1 \in Nodes
           /\ Len(events') = Len(events) + 1
           /\ Delivered(Len(events) + 1)
<1> DEFINE n == Len(events) + 1
           open == document.open
           in == Last(open)
<1>1. events \in Seq(AllEvents) /\ Len(events) \in Nat
  BY LenProperties DEF Typed, ReaderTyped
<1>2. e \in AllEvents
  BY FollowingFacts
<1>3. n \in Nat /\ n > 0 /\ n <= MaxEvents /\ n - 1 = Len(events)
  BY <1>1, ParserAssumption
<1>4. n \in Nodes
  BY <1>3 DEF Nodes, Document
<1>5. /\ events' \in Seq(AllEvents)
      /\ Len(events') = n
      /\ \A i \in 1 .. Len(events) : events'[i] = events[i]
      /\ events'[n] = e
  BY <1>1, <1>2, AppendFacts
<1>6. /\ open \in Seq(Nodes)
      /\ Len(open) \in Nat
      /\ Len(open) > 0
      /\ in = open[Len(open)]
      /\ in \in Nodes
      /\ Len(open) = 1 <=> in = Document
      /\ in # Document => in \in 1 .. Len(events)
  BY OpenFacts
<1>7. /\ document.tree \in Trees
      /\ document.noted \in BOOLEAN
      /\ document.plain \in BOOLEAN
  BY DEF Typed, ReaderTyped
<1>8. /\ document'.around = open
      /\ document'.open = CASE e.type = "start" -> Append(open, n)
                            [] e.type = "end" -> Front(open)
                            [] OTHER -> open
      /\ document'.tree = IF Hangs(e) THEN Appended(document.tree, in, n) ELSE document.tree
      /\ document'.noted = (e = Comment \/ (document.noted /\ e = Space))
      /\ document'.plain = (/\ document.plain
                            /\ document.noted => e \in Elements \/ e \in {Comment, Space}
                            /\ e \in Elements => e.name # NameOf(in)
                            /\ e \notin Others)
      /\ document' = [open |-> document'.open, around |-> document'.around,
                      tree |-> document'.tree, noted |-> document'.noted,
                      plain |-> document'.plain]
  BY DEF Grow, Hangs
<1>9. e.type = "end" =>
         /\ in # Document
         /\ e.name = events[in].name
  BY FollowingFacts
<1> HIDE DEF n, open, in
<1>10. /\ e.type = "start" => document'.open = Append(open, n)
       /\ e.type = "end" => document'.open = Front(open)
       /\ e.type \notin {"start", "end"} => document'.open = open
  BY <1>8
<1>11. ReaderTyped'
  <2>1. document'.open \in Seq(Nodes)
    <3>1. CASE e.type = "start"
      BY <1>4, <1>6, <1>10, <3>1, AppendFacts
    <3>2. CASE e.type = "end"
      BY <1>6, <1>10, <3>2, FrontFacts
    <3> QED BY <1>6, <1>10, <3>1, <3>2
  <2>2. document'.tree \in Trees
    <3>1. Appended(document.tree, in, n) \in Trees
      BY <1>4, <1>6, <1>7, AppendedFacts
    <3>2. document'.tree \in {document.tree, Appended(document.tree, in, n)}
      BY <1>8
    <3> QED BY <1>7, <3>1, <3>2
  <2>3. document'.noted \in BOOLEAN /\ document'.plain \in BOOLEAN
    BY <1>8
  <2>4. document' \in [open : Seq(Nodes), around : Seq(Nodes), tree : Trees,
                       noted : BOOLEAN, plain : BOOLEAN]
    <3>1. document'.around \in Seq(Nodes)
      BY <1>6, <1>8
    <3> HIDE DEF Trees, Nodes
    <3> QED BY <1>8, <2>1, <2>2, <2>3, <3>1
  <2>5. kept' = FALSE
    BY DEF ReaderTyped, Typed
  <2> QED BY <1>3, <1>5, <2>4, <2>5 DEF ReaderTyped
<1>12. /\ Nested(events', open, n - 1)
       /\ \A j \in 2 .. Len(open) : events'[open[j]] = events[open[j]]
  <2>1. Nested(events, open, n - 1)
    BY <1>3 DEF Documented, open
  <2>2. n - 1 \in Nat /\ \A i \in 1 .. n - 1 : events'[i] = events[i]
    BY <1>1, <1>3, <1>5
  <2>3. Nested(events', open, n - 1)
    <3>1. \A j \in 2 .. Len(open) : open[j] \in 1 .. n - 1
      BY <2>1 DEF Nested
    <3>2. \A j \in 2 .. Len(open) : events'[open[j]] = events[open[j]]
      BY <2>2, <3>1
    <3> QED BY <2>1, <3>2 DEF Nested
  <2>4. \A j \in 2 .. Len(open) : open[j] \in 1 .. n - 1
    BY <2>1 DEF Nested
  <2> QED BY <2>2, <2>3, <2>4
<1>13. Nested(events', document'.open, n)
  <2>1. CASE e.type = "start"
    <3>1. events'[n].type = "start"
      BY <1>5, <2>1
    <3>2. Nested(events', Append(open, n), n)
      BY <1>3, <1>4, <1>6, <1>12, <3>1, NestedStart
    <3> QED BY <1>10, <2>1, <3>2
  <2>2. Nested(events', open, n)
    <3>1. n - 1 \in Nat /\ n - 1 <= n
      BY <1>3
    <3> QED BY <1>3, <1>6, <1>12, <3>1, StillNested
  <2>3. CASE e.type = "end"
    <3>1. Len(open) > 1
      <4>1. Len(open) \in Nat /\ Len(open) > 0 /\ Len(open) # 1
        BY <1>6, <1>9, <2>3
      <4> QED BY <4>1, AboveOne
    <3>2. Nested(events', Front(open), n)
      BY <1>3, <1>6, <2>2, <3>1, NestedEnd
    <3> QED BY <1>10, <2>3, <3>2
  <2>4. CASE e.type \notin {"start", "end"}
    BY <1>10, <2>2, <2>4
  <2> QED BY <2>1, <2>3, <2>4
<1>14. in # Document => events'[in] = events[in]
  BY <1>5, <1>6
<1>15. Len(open) > 1 <=> in # Document
  <2>1. Len(open) \in Nat /\ Len(open) > 0 /\ (Len(open) = 1 <=> in = Document)
    BY <1>6
  <2>2. Len(open) > 1 <=> Len(open) # 1
    BY <2>1, AboveOne
  <2> QED BY ONLY <2>1, <2>2, Zenon
<1>16. document'.plain /\ e \in Elements /\ Len(open) > 1 => e.name # events'[in].name
  BY <1>8, <1>14, <1>15 DEF NameOf
<1>17. e.type = "end" => Len(open) > 1 /\ e.name = events'[in].name
  BY <1>9, <1>14, <1>15
<1>18. document'.plain => e.type # "other"
  BY <1>2, <1>8, EventFacts
<1>19. Documented'
  <2>1. Len(events') = n /\ events'[n] = e /\ document'.around = open
    BY <1>5, <1>8
  <2>2. e = Comment => document'.noted
    BY <1>8
  <2>3. in = open[Len(open)]
    BY <1>6
  <2> QED BY <1>10, <1>12, <1>13, <1>16, <1>17, <1>18, <2>1, <2>2, <2>3 DEF Documented
<1>20. Delivered(n)
  <2>1. document'.plain =>
              /\ document.plain
              /\ document.noted => e \in Elements \cup {Comment, Space}
    BY <1>8
  <2> QED BY <1>2, <1>5, <1>8, <1>9, <2>1 DEF Delivered, open, in
<1> QED BY <1>4, <1>5, <1>11, <1>19, <1>20 DEF n

\* The reader stays on a document, and delivers an event or none.
LEMMA ReadFacts ==
    ASSUME Typed, Documented, Read
    PROVE  /\ ReaderTyped'
           /\ Documented'
           /\ Len(events) + 1 \in Nodes \/ ret' # 1
           /\ ret' = 1 =>
                 /\ ret = 1
                 /\ Len(events') = Len(events) + 1
                 /\ Delivered(Len(events) + 1)
           /\ ret' # 1 => UNCHANGED <<events, document>>
           /\ kept' => (ret = 1 /\ events # <<>>) \/ kept
           /\ document'.plain => document.plain
<1>1. CASE /\ ret = 1
           /\ Len(events) < MaxEvents
           /\ \E e \in Following :
                 /\ events' = Append(events, e)
                 /\ document' = Grow(document, Len(events) + 1, e)
           /\ UNCHANGED <<ret, kept>>
  <2>1. ret' = 1 /\ ~ kept'
    BY <1>1 DEF Typed, ReaderTyped
  <2> QED BY <1>1, <2>1, Grows DEF Delivered
<1>2. CASE /\ ret' = IF Complete THEN 0 ELSE -1
           /\ kept' \in IF ret = 1 /\ ret' = -1 /\ events # <<>> THEN BOOLEAN ELSE {kept}
           /\ UNCHANGED <<events, document>>
  <2>1. ret' \in {0, -1}
    BY <1>2
  <2>2. kept \in BOOLEAN /\ kept' \in BOOLEAN
    BY <1>2 DEF Typed, ReaderTyped
  <2>3. kept' => (ret = 1 /\ events # <<>>) \/ kept
    BY <1>2, <2>2
  <2>4. ReaderTyped'
    BY <1>2, <2>1, <2>2 DEF Typed, ReaderTyped
  <2>5. Documented'
    BY <1>2 DEF Documented
  <2> QED BY <1>2, <2>1, <2>3, <2>4, <2>5
<1> QED BY <1>1, <1>2 DEF Read

\* After the reader has moved, the children of the innermost call lack what it
\* stands on, if the calls were the open elements.
LEMMA ReadBuilt ==
    ASSUME Typed, Documented, Read, document'.plain,
           NEW subs \in Trees, NEW calls \in Seq(Nodes), Len(calls) > 0,
           BuiltTo(document.tree, subs, calls, <<>>),
           ret = 1 => calls = document.open
    PROVE  /\ BuiltTo(document'.tree, subs, calls, JustRead')
           /\ ret' = 1 => calls = document'.around
<1> DEFINE n == Len(events) + 1
<1>1. CASE ret' = 1
  <2>1. Len(events') = n /\ n \in Nodes /\ Delivered(n) /\ calls = document.open
    BY <1>1, ReadFacts
  <2>2. calls = document'.around
    BY <2>1 DEF Delivered
  <2>3. document'.tree = IF Hangs(events'[n])
                         THEN Appended(document.tree, calls[Len(calls)], n)
                         ELSE document.tree
    BY <2>1, OpenFacts DEF Delivered
  <2>4. document.tree \in Trees
    BY DEF Typed, ReaderTyped
  <2> HIDE DEF n
  <2>5. CASE Hangs(events'[n])
    <3>1. BuiltTo(Appended(document.tree, calls[Len(calls)], n), subs, calls, <<n>>)
      BY <2>1, <2>4, Hung
    <3> QED BY <1>1, <2>1, <2>2, <2>3, <2>5, <3>1 DEF JustRead
  <2>6. CASE ~ Hangs(events'[n])
    BY <1>1, <2>1, <2>2, <2>3, <2>6 DEF JustRead
  <2> QED BY <2>5, <2>6
<1>2. CASE ret' # 1
  BY <1>2, ReadFacts DEF JustRead
<1> QED BY <1>1, <1>2

-----------------------------------------------------------------------------
(* Calls *)

\* Parse and the calls of ProcessNode.
LEMMA CallsFacts ==
    ASSUME NEW s \in Seq(Nodes)
    PROVE  /\ <<Document>> \o s \in Seq(Nodes)
           /\ Len(<<Document>> \o s) \in Nat
           /\ Len(<<Document>> \o s) = Len(s) + 1
           /\ Len(<<Document>> \o s) > 0
           /\ s = <<>> => <<Document>> \o s = <<Document>>
           /\ \A n \in Nodes : <<Document>> \o Append(s, n) = Append(<<Document>> \o s, n)
<1> Document \in Nodes
  BY ParserAssumption DEF Nodes, Document
<1> DEFINE first == <<Document>>
<1>1. first \in Seq(Nodes) /\ Len(first) = 1 /\ Len(s) \in Nat
  BY LenProperties
<1> HIDE DEF first
<1>2. first \o s \in Seq(Nodes) /\ Len(first \o s) = Len(first) + Len(s)
  BY <1>1, ConcatProperties
<1>3. s = <<>> => first \o s = first
  BY <1>1, ConcatEmptySeq
<1>4. ASSUME NEW n \in Nodes
      PROVE  first \o Append(s, n) = Append(first \o s, n)
  <2>1. Append(s, n) = s \o <<n>> /\ Append(first \o s, n) = (first \o s) \o <<n>>
    BY <1>2, AppendIsConcat
  <2>2. (first \o s) \o <<n>> = first \o (s \o <<n>>)
    <3>1. <<n>> \in Seq(Nodes)
      OBVIOUS
    <3> QED BY ONLY <1>1, <3>1, s \in Seq(Nodes), ConcatAssociative
  <2> QED BY <2>1, <2>2
<1>5. /\ first \o s \in Seq(Nodes)
      /\ Len(first \o s) \in Nat
      /\ Len(first \o s) = Len(s) + 1
      /\ Len(first \o s) > 0
  BY <1>1, <1>2
<1> QED BY <1>3, <1>4, <1>5 DEF first

\* Of the calls of ProcessNode, the last is the innermost one.
LEMMA InnermostFacts ==
    ASSUME NEW s \in Seq(Nodes), Len(s) > 0
    PROVE  /\ Front(s) \in Seq(Nodes)
           /\ Last(s) \in Nodes
           /\ <<Document>> \o s = Append(<<Document>> \o Front(s), Last(s))
           /\ (<<Document>> \o s)[Len(<<Document>> \o s)] = Last(s)
           /\ Front(<<Document>> \o s) = <<Document>> \o Front(s)
<1>1. Front(s) \in Seq(Nodes) /\ Last(s) \in Nodes /\ s = Append(Front(s), Last(s))
  BY FrontFacts
<1> DEFINE outer == <<Document>> \o Front(s)
           all == <<Document>> \o s
<1>2. outer \in Seq(Nodes) /\ all \in Seq(Nodes) /\ Len(all) > 0
  BY <1>1, CallsFacts
<1>3. <<Document>> \o Append(Front(s), Last(s)) = Append(outer, Last(s))
  BY <1>1, CallsFacts
<1>4. all = Append(outer, Last(s))
  BY <1>1, <1>3
<1> HIDE DEF outer, all
<1>5. all[Len(all)] = Last(s)
  BY <1>1, <1>2, <1>4, AppendFacts
<1>6. Front(all) = outer
  <2>1. Front(all) \in Seq(Nodes) /\ all = Append(Front(all), Last(all)) /\ Last(all) \in Nodes
    BY <1>2, FrontFacts
  <2> QED BY <1>1, <1>2, <1>4, <2>1, AppendInjective
<1> QED BY <1>1, <1>4, <1>5, <1>6 DEF outer, all

\* What the reader stands on.
LEMMA CurrentFacts ==
    ASSUME Typed, pc \in {"process", "skip", "loop"}
    PROVE  /\ ret = 1 =>
                 /\ Len(events) \in Nodes
                 /\ Len(events) > 0
                 /\ events[Len(events)] \in AllEvents
                 /\ Current = events[Len(events)]
                 /\ Current # NoEvent
                 /\ Current.type # "none"
           /\ ret # 1 /\ ~ kept =>
                 /\ Current = NoEvent
                 /\ Current.type = "none"
                 /\ Current \notin {Comment, Space, Text}
           /\ pc = "skip" /\ kept => Current \in {Comment, Space}
<1>1. CASE ret = 1
  <2>1. events \in Seq(AllEvents) /\ Len(events) \in Nat /\ Len(events) > 0
    BY <1>1, LenProperties DEF Typed, ReaderTyped
  <2>2. Len(events) \in Nodes
    BY <2>1, ParserAssumption DEF Nodes, Document, Typed, ReaderTyped
  <2>3. Current = events[Len(events)] /\ events[Len(events)] \in AllEvents
    <3>1. Len(events) \in 1 .. Len(events)
      BY <2>1
    <3> QED BY <1>1, <2>1, <3>1, ElementOfSeq DEF Current, Last
  <2>4. Current.type # "none" /\ Current # NoEvent
    <3>1. Current \in AllEvents
      BY <2>3
    <3>2. Current.type \in {"start", "empty", "text", "space", "comment", "other", "end"}
      BY <3>1, EventFacts
    <3>3. Current.type # "none"
      BY <3>2
    <3>4. NoEvent.type = "none"
      BY DEF NoEvent, Event
    <3> QED BY <3>3, <3>4
  <2> QED BY <1>1, <2>1, <2>2, <2>3, <2>4 DEF NoEvent, Event, Typed, ReaderTyped
<1>2. CASE ret # 1 /\ ~ kept
  BY <1>2 DEF Current, NoEvent, Event, Comment, Space, Text
<1>3. CASE ret # 1 /\ kept
  BY <1>3 DEF Current, Last, Typed
<1> QED BY <1>1, <1>2, <1>3 DEF Typed, ReaderTyped

-----------------------------------------------------------------------------
(* The steps *)

LEMMA Begins == Init => IInv
<1> SUFFICES ASSUME Init PROVE IInv
  OBVIOUS
<1> USE DEF Init
<1>1. Document \in Nodes /\ NewNode \in Nodes
  BY ParserAssumption, EmptySeq DEF Nodes, Document, NewNode
<1>2. Childless \in Trees /\ \A i \in Nodes : Childless[i] = <<>>
  BY EmptySeq DEF Childless, Trees, Nodes
<1>3. Len(events) = 0 /\ events \in Seq(AllEvents)
  BY EmptySeq
<1>4. Typed
  <2>1. document \in [open : Seq(Nodes), around : Seq(Nodes), tree : Trees,
                      noted : BOOLEAN, plain : BOOLEAN]
    BY <1>1, <1>2
  <2>2. Len(events) <= MaxEvents /\ stack \in Seq(Nodes)
    BY <1>3, ParserAssumption, EmptySeq
  <2>3. ReaderTyped
    BY <1>3, <2>1, <2>2 DEF ReaderTyped
  <2> QED BY <1>2, <2>2, <2>3 DEF Typed
<1>5. Documented
  <2>1. document.open = <<Document>> /\ Len(document.open) = 1
    OBVIOUS
  <2> QED BY <1>3, <2>1 DEF Documented, Nested
<1>6. Calls = <<Document>>
  <2>1. stack \in Seq(Nodes) /\ stack = <<>>
    BY EmptySeq
  <2> QED BY <2>1, CallsFacts DEF Calls
<1>7. Stands
  BY <1>6 DEF Stands
<1>8. Built
  <2>1. Pending = <<>> /\ Len(Calls) = 1 /\ Calls[1] = Document
    BY <1>6 DEF Pending
  <2>2. document.tree = Childless /\ subNodes = Childless
    OBVIOUS
  <2>3. Childless[Document] = Childless[Document] \o <<>>
    BY <1>1, <1>2, EmptySeq, ConcatEmptySeq
  <2> QED BY <2>1, <2>2, <2>3 DEF Built, BuiltTo
<1> QED BY <1>4, <1>5, <1>7, <1>8 DEF IInv

\* The first read, on a file that can be opened.
LEMMA ParsesFile ==
    ASSUME IInv, pc = "parse", Read, pc' = IF ret' = 0 THEN "done" ELSE "process",
           UNCHANGED <<stack, node, subNodes>>
    PROVE  IInv'
<1>1. Typed /\ Documented
  BY DEF IInv
<1>2. /\ ReaderTyped'
      /\ Documented'
      /\ ret' = 1 => /\ ret = 1
                     /\ Len(events') = Len(events) + 1
                     /\ Delivered(Len(events) + 1)
      /\ document'.plain => document.plain
  BY <1>1, ReadFacts
<1>3. Len(events) \in Nat
  BY <1>1, LenProperties DEF Typed, ReaderTyped
<1>4. pc' \in {"done", "process"} /\ stack' = <<>>
  BY <1>1 DEF Typed
<1>5. Typed'
  <2>1. ~ kept'
    BY <1>1, ReadFacts DEF Typed
  <2>2. ret' = 1 => Len(events') > 0
    BY <1>2, <1>3
  <2> QED BY <1>1, <1>2, <1>4, <2>1, <2>2 DEF Typed
<1>6. ASSUME document'.plain
      PROVE  Stands' /\ Built'
  <2>1. Stands /\ Built
    BY <1>2, <1>6 DEF IInv
  <2>2. Calls = <<Document>> /\ Calls \in Seq(Nodes) /\ Len(Calls) = 1
    BY <1>1, CallsFacts DEF Typed, Calls
  <2>3. Calls' = Calls
    BY DEF Calls
  <2>4. ret = 1 => Calls = document.open
    BY <2>1 DEF Stands
  <2>5. BuiltTo(document.tree, subNodes, Calls, <<>>)
    BY <2>1 DEF Built, Pending
  <2>6. /\ BuiltTo(document'.tree, subNodes, Calls, JustRead')
        /\ ret' = 1 => Calls = document'.around
    <3>1. subNodes \in Trees /\ Len(Calls) > 0
      BY <1>1, <2>2 DEF Typed
    <3> QED BY <1>1, <1>6, <2>2, <2>4, <2>5, <3>1, ReadBuilt
  <2>7. ret' = 1 => events'[Len(events')].type # "end"
    <3> SUFFICES ASSUME ret' = 1 PROVE events'[Len(events')].type # "end"
      OBVIOUS
    <3>1. Last(document.open) = Document
      BY <1>1, <1>2, <2>2, <2>4, OpenFacts
    <3> QED BY <1>2, <3>1 DEF Delivered
  <2>8. Stands'
    BY <1>4, <2>3, <2>6, <2>7 DEF Stands
  <2>9. Pending' = JustRead'
    BY <1>4 DEF Pending, JustRead
  <2>10. Built'
    BY <2>3, <2>6, <2>9 DEF Built
  <2> QED BY <2>8, <2>10
<1> QED BY <1>2, <1>5, <1>6 DEF IInv

LEMMA Parses ==
    ASSUME IInv, Parse
    PROVE  IInv'
<1>1. CASE Read /\ pc' = IF ret' = 0 THEN "done" ELSE "process"
  BY <1>1, ParsesFile DEF Parse
<1>2. CASE pc' = "done" /\ UNCHANGED reader
  <2>1. /\ UNCHANGED <<events, document, ret, kept, stack, node, subNodes>>
        /\ pc = "parse" /\ pc' = "done"
    BY <1>2 DEF Parse, reader
  <2>2. Typed'
    BY <2>1 DEF IInv, Typed, ReaderTyped
  <2>3. Documented'
    BY <2>1 DEF IInv, Documented
  <2>4. Calls' = Calls /\ Pending' = <<>> /\ Pending = <<>>
    BY <2>1 DEF Calls, Pending
  <2>5. document'.plain => Stands' /\ Built'
    BY <2>1, <2>4 DEF IInv, Stands, Built
  <2> QED BY <2>2, <2>3, <2>5 DEF IInv
<1> QED BY <1>1, <1>2 DEF Parse

LEMMA Enters ==
    ASSUME IInv, EnterNode
    PROVE  IInv'
<1> USE DEF EnterNode, Return
<1>1. Typed /\ Documented
  BY DEF IInv
<1>2. UNCHANGED <<events, document, ret, kept, stack, subNodes>> /\ pc = "process"
  BY DEF reader
<1>3. \/ Current = Space /\ pc' = "return" /\ node' = NULL
      \/ Current = Text /\ Current # Space /\ pc' = "return" /\ node' = NewNode
      \/ Current \notin {Text, Space} /\ pc' = "skip" /\ node' = node
  BY DEF Text, Space, Event
<1>4. Documented'
  BY <1>1, <1>2 DEF Documented
<1>5. Current \in {Text, Space} =>
         /\ ret = 1
         /\ Len(events) \in Nodes
         /\ Current = events[Len(events)]
         /\ Len(events) > 0
  <2>1. ~ kept
    BY <1>1, <1>2 DEF Typed
  <2> QED BY <1>1, <1>2, <2>1, CurrentFacts
<1>6. Typed'
  <2>1. ReaderTyped'
    BY <1>1, <1>2 DEF Typed, ReaderTyped
  <2>2. node' \in Nodes \cup {NULL}
    BY <1>1, <1>3, <1>5 DEF Typed, NewNode
  <2>3. pc' \in {"skip", "return"}
    BY <1>3
  <2> QED BY <1>1, <1>2, <2>1, <2>2, <2>3 DEF Typed
<1>7. ASSUME document'.plain
      PROVE  Stands' /\ Built'
  <2>1. Stands /\ Built
    BY <1>2, <1>7 DEF IInv
  <2>2. Calls' = Calls /\ (ret = 1 => Calls = document.around)
    BY <1>2, <2>1 DEF Calls, Stands
  <2>3. BuiltTo(document.tree, subNodes, Calls, JustRead) /\ JustRead' = JustRead
    BY <1>2, <2>1 DEF Built, Pending, JustRead
  <2>4. CASE Current = Space
    <3>1. pc' = "return" /\ node' = NULL
      BY <1>3, <2>4 DEF Text, Space, Event
    <3>2. ~ Hangs(Current) /\ Current.type \notin {"start", "end"}
      BY <2>4 DEF Hangs, Elements, Text, Space, Event
    <3>3. document.open = document.around
      BY <1>1, <1>5, <2>4, <3>2 DEF Documented
    <3>4. JustRead = <<>> /\ Pending' = <<>>
      BY <1>5, <2>4, <3>1, <3>2 DEF JustRead, Pending
    <3> QED BY <1>2, <1>5, <2>2, <2>3, <2>4, <3>1, <3>3, <3>4 DEF Stands, Built
  <2>5. CASE Current = Text
    <3>1. pc' = "return" /\ node' = NewNode
      BY <1>3, <2>5 DEF Text, Space, Event
    <3>2. Hangs(Current) /\ Current.type \notin {"start", "end"}
      BY <2>5 DEF Hangs, Text, Event
    <3>3. document.open = document.around
      BY <1>1, <1>5, <2>5, <3>2 DEF Documented
    <3>4. NewNode # NULL
      BY <1>5, <2>5 DEF NULL, NewNode, Nodes, Document
    <3>5. JustRead = <<NewNode>> /\ Pending' = <<NewNode>>
      BY <1>5, <2>5, <3>1, <3>2, <3>4 DEF JustRead, Pending, NewNode
    <3> QED BY <1>2, <1>5, <2>2, <2>3, <2>5, <3>1, <3>3, <3>5 DEF Stands, Built
  <2>6. CASE Current \notin {Text, Space}
    <3>1. pc' = "skip"
      BY <1>3, <2>6
    <3>2. ret = 1 => \/ events[Len(events)] \in Elements
                     \/ events[Len(events)] = Comment /\ document.noted
      <4> SUFFICES ASSUME ret = 1
                   PROVE  \/ events[Len(events)] \in Elements
                          \/ events[Len(events)] = Comment /\ document.noted
        OBVIOUS
      <4>1. events[Len(events)] \in AllEvents /\ events[Len(events)] \notin {Text, Space}
        BY <1>1, <1>2, <2>6, CurrentFacts
      <4>2. events[Len(events)].type # "end"
        BY <1>2, <2>1 DEF Stands
      <4>3. Len(events) > 0
        BY <1>1, <1>2, CurrentFacts
      <4>4. events[Len(events)].type # "other"
        BY <1>1, <1>2, <1>7, <4>3 DEF Documented
      <4>5. events[Len(events)] \in Elements \/ events[Len(events)] = Comment
        BY <4>1, <4>2, <4>4, EventFacts
      <4> QED BY <1>1, <4>3, <4>5 DEF Documented
    <3>3. Stands'
      BY <1>2, <2>2, <3>1, <3>2 DEF Stands
    <3>4. Pending' = JustRead
      BY <2>3, <3>1 DEF Pending
    <3> QED BY <1>2, <2>2, <2>3, <3>3, <3>4 DEF Built
  <2> QED BY <2>4, <2>5, <2>6
<1> QED BY <1>4, <1>6, <1>7 DEF IInv

LEMMA Skips ==
    ASSUME IInv, SkipComment
    PROVE  IInv'
<1> USE DEF SkipComment
<1>1. Typed /\ Documented
  BY DEF IInv
<1>2. UNCHANGED <<pc, stack, node, subNodes>> /\ pc = "skip"
  OBVIOUS
<1>3. /\ kept' => ret = 1 \/ kept
      /\ ret' # 1 => UNCHANGED <<events, document>>
      /\ ReaderTyped'
      /\ Documented'
      /\ ret' = 1 => /\ ret = 1
                     /\ Len(events') = Len(events) + 1
                     /\ Delivered(Len(events) + 1)
      /\ document'.plain => document.plain
  BY <1>1, ReadFacts
<1>4. /\ events[Len(events)] \in {Comment, Space}
      /\ Len(events) \in Nat
      /\ Len(events) > 0
  <2>1. events \in Seq(AllEvents) /\ Len(events) \in Nat
    BY <1>1, LenProperties DEF Typed, ReaderTyped
  <2>2. CASE ret = 1
    BY <1>1, <1>2, <2>1, <2>2, CurrentFacts
  <2>3. CASE ret # 1
    <3>1. kept
      BY <1>1, <1>2, <2>3, CurrentFacts
    <3> QED BY <1>1, <1>2, <2>1, <3>1 DEF Typed
  <2> QED BY <2>2, <2>3
<1>5. Typed'
  <2>1. ret' = 1 => Len(events') > 0
    BY <1>3, <1>4
  <2>2. kept' => Len(events') > 0 /\ events'[Len(events')] \in {Comment, Space}
    BY <1>3, <1>4 DEF ReaderTyped
  <2> QED BY <1>1, <1>2, <1>3, <2>1, <2>2 DEF Typed
<1>6. ASSUME document'.plain
      PROVE  Stands' /\ Built'
  <2> DEFINE e == events[Len(events)]
  <2>1. Stands /\ Built
    BY <1>3, <1>6 DEF IInv
  <2>2. e.type \notin {"start", "end"} /\ ~ Hangs(e)
    BY <1>4 DEF Hangs, Elements, Comment, Space, Text, Event
  <2>3. document.open = document.around
    BY <1>1, <1>4, <2>2 DEF Documented
  <2>4. Calls' = Calls /\ Calls \in Seq(Nodes) /\ Len(Calls) > 0
    BY <1>1, CallsFacts DEF Typed, Calls
  <2>5. ret = 1 => Calls = document.open
    BY <1>2, <2>1, <2>3 DEF Stands
  <2>6. BuiltTo(document.tree, subNodes, Calls, <<>>)
    BY <1>2, <2>1, <2>2 DEF Built, Pending, JustRead
  <2>7. subNodes \in Trees
    BY <1>1 DEF Typed
  <2>8. /\ BuiltTo(document'.tree, subNodes, Calls, JustRead')
        /\ ret' = 1 => Calls = document'.around
    BY <1>1, <1>6, <2>4, <2>5, <2>6, <2>7, ReadBuilt
  <2>9. ret = 1 => document.noted
    BY <1>2, <1>4, <2>1 DEF Stands, Elements, Comment, Space, Event
  <2>10. ret' = 1 => \/ events'[Len(events')] \in Elements
                     \/ events'[Len(events')] \in {Comment, Space} /\ document'.noted
    BY <1>3, <1>6, <2>9 DEF Delivered
  <2>11. Stands'
    BY <1>2, <2>4, <2>8, <2>10 DEF Stands
  <2>12. Pending' = JustRead'
    BY <1>2 DEF Pending
  <2> QED BY <1>2, <2>4, <2>8, <2>11, <2>12 DEF Built
<1> QED BY <1>3, <1>5, <1>6 DEF IInv

LEMMA Creates ==
    ASSUME IInv, CreateNode
    PROVE  IInv'
<1> USE DEF CreateNode
<1>1. Typed /\ Documented /\ pc = "skip"
  BY DEF IInv
<1>2. subNodes' = subNodes /\ subNodes \in Trees /\ stack \in Seq(Nodes) /\ events \in Seq(AllEvents)
  BY <1>1 DEF Typed, ReaderTyped
<1>3. /\ Calls \in Seq(Nodes)
      /\ Len(Calls) > 0
      /\ \A n \in Nodes : <<Document>> \o Append(stack, n) = Append(Calls, n)
  BY <1>2, CallsFacts DEF Calls
<1>4. CASE Current = NoEvent
  <2>1. Current.type \in {"none"}
    BY <1>4 DEF NoEvent, Event
  <2>2. ret # 1
    BY <1>1, <1>4, CurrentFacts
  <2>3. UNCHANGED <<events, document, ret, kept, stack>> /\ pc' = "return" /\ node' = NULL
    BY <1>4, <2>1 DEF Return, reader
  <2>4. Typed'
    BY <1>1, <2>3 DEF Typed, ReaderTyped
  <2>5. Documented'
    BY <1>1, <2>3 DEF Documented
  <2>6. ASSUME document'.plain
        PROVE  Stands' /\ Built'
    <3>1. Built
      BY <2>3, <2>6 DEF IInv
    <3>2. Pending = <<>> /\ Pending' = <<>> /\ Calls' = Calls
      BY <1>1, <2>2, <2>3 DEF Pending, JustRead, Calls
    <3>3. Stands'
      BY <2>2, <2>3 DEF Stands
    <3> QED BY <1>2, <2>3, <3>1, <3>2, <3>3 DEF Built
  <2> QED BY <2>4, <2>5, <2>6 DEF IInv
<1>5. CASE Current # NoEvent
  <2> DEFINE n == Len(events)
  <2>1. /\ ret = 1
        /\ n \in Nodes
        /\ n > 0
        /\ Current = events[n]
        /\ Current \in AllEvents
        /\ Current \notin {Comment, Space}
    BY <1>1, <1>5, CurrentFacts
  <2>2. n \in Nat /\ NewNode = n /\ n # NULL
    BY <1>2, LenProperties DEF NewNode, NULL
  <2>3. document.plain => Stands /\ Built /\ Calls = document.around /\ Current \in Elements
    BY <1>1, <2>1 DEF IInv, Stands
  <2>4. Current \in Elements => Pending = <<n>>
    BY <1>1, <2>1 DEF Pending, JustRead, Hangs
  <2>5. CASE Current.type = "empty"
    <3>1. UNCHANGED <<events, document, ret, kept, stack>> /\ pc' = "return" /\ node' = n
      BY <1>5, <2>2, <2>5 DEF Return, reader
    <3>2. Typed'
      BY <1>1, <2>1, <3>1 DEF Typed, ReaderTyped
    <3>3. Documented'
      BY <1>1, <3>1 DEF Documented
    <3>4. ASSUME document'.plain
          PROVE  Stands' /\ Built'
      <4>1. Stands /\ Built /\ Calls = document.around /\ Current \in Elements
        BY <2>3, <3>1, <3>4
      <4>2. Calls' = Calls /\ Pending' = <<n>>
        BY <2>2, <3>1 DEF Calls, Pending
      <4>3. document.open = document.around
        BY <1>1, <2>1, <2>5 DEF Documented
      <4>4. Stands'
        BY <3>1, <4>1, <4>2, <4>3 DEF Stands
      <4> QED BY <1>2, <2>4, <3>1, <4>1, <4>2, <4>4 DEF Built
    <3> QED BY <3>2, <3>3, <3>4 DEF IInv
  <2>6. CASE Current.type # "empty"
    <3>1. /\ pc' = "loop"
          /\ stack' = Append(stack, n)
          /\ Read
          /\ node' = node
      BY <1>5, <2>2, <2>6 DEF Return
    <3>2. /\ ReaderTyped'
          /\ Documented'
          /\ ret' = 1 => Len(events') = n + 1
          /\ document'.plain => document.plain
      BY <1>1, <3>1, ReadFacts
    <3>3. stack' \in Seq(Nodes) /\ Len(stack') > 0
      BY <1>2, <2>1, <3>1, AppendFacts
    <3>4. Typed'
      BY <1>1, <1>2, <2>2, <3>1, <3>2, <3>3 DEF Typed
    <3>5. ASSUME document'.plain
          PROVE  Stands' /\ Built'
      <4>1. Stands /\ Built /\ Calls = document.around /\ Current \in Elements
        BY <2>3, <3>2, <3>5
      <4>2. Current.type = "start"
        BY <2>1, <2>6, <4>1, EventFacts
      <4>3. document.open = Append(document.around, n) /\ Nested(events, Calls, n - 1)
        BY <1>1, <2>1, <4>1, <4>2 DEF Documented
      <4>4. Calls' = Append(Calls, n) /\ Calls' = document.open
        BY <1>3, <2>1, <3>1, <4>1, <4>3 DEF Calls
      <4>5. \A j \in 1 .. Len(Calls) : Calls[j] < n
        BY <1>3, <2>1, <4>2, <4>3, NestedStart
      <4>6. BuiltTo(document.tree, subNodes, Calls, <<n>>)
        BY <2>4, <4>1 DEF Built
      <4>7. document.tree \in Trees
        BY <1>1 DEF Typed, ReaderTyped
      <4> HIDE DEF n
      <4>8. BuiltTo(document.tree, subNodes, Append(Calls, n), <<>>)
        BY <1>2, <1>3, <2>1, <4>5, <4>6, <4>7, Pushed
      <4>9. Append(Calls, n) \in Seq(Nodes) /\ Len(Append(Calls, n)) > 0
        BY <1>3, <2>1, AppendFacts
      <4>10. /\ BuiltTo(document'.tree, subNodes, Append(Calls, n), JustRead')
             /\ ret' = 1 => Append(Calls, n) = document'.around
        BY <1>1, <1>2, <3>1, <3>5, <4>4, <4>8, <4>9, ReadBuilt
      <4>11. Pending' = JustRead'
        BY <3>1 DEF Pending
      <4>12. Stands'
        BY <3>1, <4>4, <4>10 DEF Stands
      <4> QED BY <1>2, <4>4, <4>10, <4>11, <4>12 DEF Built
    <3> QED BY <3>2, <3>4, <3>5 DEF IInv
  <2> QED BY <2>5, <2>6
<1> QED BY <1>4, <1>5

LEMMA Loops ==
    ASSUME IInv, Loop
    PROVE  IInv'
<1> USE DEF Loop
<1>1. Typed /\ Documented /\ pc = "loop" /\ Len(stack) > 0
  BY DEF IInv, Typed
<1>2. /\ UNCHANGED <<events, document, ret, kept, subNodes>>
      /\ subNodes \in Trees
      /\ stack \in Seq(Nodes)
      /\ document.tree \in Trees
  BY <1>1 DEF Typed, ReaderTyped, reader
<1>3. /\ Front(stack) \in Seq(Nodes)
      /\ Last(stack) \in Nodes
      /\ Calls = Append(<<Document>> \o Front(stack), Last(stack))
      /\ Calls[Len(Calls)] = Last(stack)
      /\ Front(Calls) = <<Document>> \o Front(stack)
      /\ <<Document>> \o Front(stack) \in Seq(Nodes)
      /\ Len(<<Document>> \o Front(stack)) > 0
      /\ Len(Calls) > 1
  <2>1. /\ Front(stack) \in Seq(Nodes)
        /\ Last(stack) \in Nodes
        /\ Calls = Append(<<Document>> \o Front(stack), Last(stack))
        /\ Calls[Len(Calls)] = Last(stack)
        /\ Front(Calls) = <<Document>> \o Front(stack)
    BY <1>1, <1>2, InnermostFacts DEF Calls
  <2>2. Len(Calls) = Len(stack) + 1 /\ Len(stack) \in Nat
    BY <1>2, CallsFacts, LenProperties DEF Calls
  <2>3. Len(Calls) > 1
    BY <1>1, <2>2
  <2> QED BY <2>1, <2>3, CallsFacts
<1>4. Documented'
  BY <1>1, <1>2 DEF Documented
<1>5. CASE ret = 1 /\ Current.name # events[Last(stack)].name
  <2>1. pc' = "process" /\ UNCHANGED <<node, stack>>
    BY <1>5
  <2>2. Typed'
    <3>1. ~ kept
      BY <1>1, <1>5 DEF Typed, ReaderTyped
    <3>2. ReaderTyped'
      BY <1>1, <1>2 DEF Typed, ReaderTyped
    <3> QED BY <1>1, <1>2, <1>5, <2>1, <3>1, <3>2 DEF Typed
  <2>3. ASSUME document'.plain
        PROVE  Stands' /\ Built'
    <3>1. Stands /\ Built
      BY <1>2, <2>3 DEF IInv
    <3>2. Calls' = Calls /\ Pending' = Pending /\ Pending = JustRead
      BY <1>1, <1>2, <2>1 DEF Calls, Pending, JustRead
    <3>3. Calls = document.around
      BY <1>1, <1>5, <3>1 DEF Stands
    <3>4. events[Len(events)].type # "end"
      <4>1. Len(events) > 0 /\ Current = events[Len(events)]
        BY <1>1, <1>5, CurrentFacts
      <4>2. events[Len(events)].type = "end" => Current.name = events[Calls[Len(Calls)]].name
        BY <1>1, <3>3, <4>1 DEF Documented
      <4> QED BY <1>3, <1>5, <4>2
    <3>5. Stands'
      BY <1>2, <2>1, <3>2, <3>3, <3>4 DEF Stands
    <3> QED BY <1>2, <3>1, <3>2, <3>5 DEF Built
  <2> QED BY <1>4, <2>2, <2>3 DEF IInv
<1>6. CASE ~ (ret = 1 /\ Current.name # events[Last(stack)].name)
  <2>1. pc' = "return" /\ node' = Last(stack) /\ stack' = Front(stack)
    BY <1>6 DEF Return
  <2>2. Typed'
    BY <1>1, <1>2, <1>3, <2>1 DEF Typed, ReaderTyped
  <2>3. ASSUME document'.plain
        PROVE  Stands' /\ Built'
    <3>1. Stands /\ Built
      BY <1>2, <2>3 DEF IInv
    <3>2. ret = 1 => JustRead = <<>> /\ document.open = Front(document.around)
      <4> SUFFICES ASSUME ret = 1
                   PROVE  JustRead = <<>> /\ document.open = Front(document.around)
        OBVIOUS
      <4> DEFINE e == events[Len(events)]
      <4>1. /\ Len(events) > 0
            /\ Current = e
            /\ e \in AllEvents
            /\ Calls = document.around
        BY <1>1, <3>1, CurrentFacts DEF Stands
      <4>2. e.name = events[Calls[Len(Calls)]].name
        BY <1>3, <1>6, <4>1
      <4>3. e \notin Elements
        BY <1>1, <1>2, <1>3, <2>3, <4>1, <4>2 DEF Documented
      <4>4. e.name \in Names
        <5>1. Len(Calls) \in 2 .. Len(Calls)
          <6>1. Len(Calls) \in Nat
            BY <1>2, CallsFacts DEF Calls
          <6> QED BY <1>3, <6>1
        <5>2. Nested(events, Calls, Len(events) - 1)
          BY <1>1, <4>1 DEF Documented
        <5>3. /\ Calls[Len(Calls)] \in 1 .. Len(events) - 1
              /\ events[Calls[Len(Calls)]].type = "start"
          BY <5>1, <5>2 DEF Nested
        <5>4. events[Calls[Len(Calls)]] \in AllEvents
          <6>1. events \in Seq(AllEvents) /\ Len(events) \in Nat
            BY <1>1, LenProperties DEF Typed, ReaderTyped
          <6>2. Calls[Len(Calls)] \in 1 .. Len(events)
            BY <5>3, <6>1
          <6> QED BY <6>1, <6>2, ElementOfSeq
        <5> QED BY <4>2, <5>3, <5>4, EventFacts
      <4>5. e.type = "end"
        <5>1. e.type # "other"
          BY <1>1, <1>2, <2>3, <4>1 DEF Documented
        <5> QED BY <4>1, <4>3, <4>4, <5>1, EventFacts
      <4>6. ~ Hangs(e)
        BY <4>5 DEF Hangs, Elements, Text, Event
      <4> QED BY <1>1, <4>1, <4>5, <4>6 DEF Documented, JustRead
    <3>3. Pending = <<>>
      BY <1>1, <3>2 DEF Pending, JustRead
    <3>4. Calls' = <<Document>> \o Front(stack)
      BY <2>1 DEF Calls
    <3>5. BuiltTo(document.tree, subNodes, Calls', <<Last(stack)>>)
      BY <1>2, <1>3, <3>1, <3>3, <3>4, Popped DEF Built
    <3>6. Pending' = <<Last(stack)>>
      <4>1. Last(stack) # NULL
        BY <1>3 DEF NULL, Nodes, Document
      <4> QED BY <2>1, <4>1 DEF Pending
    <3>7. ret = 1 => Calls' = document.open
      BY <1>1, <1>3, <3>1, <3>2, <3>4 DEF Stands
    <3>8. Stands'
      BY <1>2, <2>1, <3>7 DEF Stands
    <3> QED BY <1>2, <3>5, <3>6, <3>8 DEF Built
  <2> QED BY <1>4, <2>2, <2>3 DEF IInv
<1> QED BY <1>5, <1>6

\* The subnodes once a node has been returned, with that node or, for what is
\* not a node, without.
LEMMA TakesNode ==
    ASSUME IInv, pc = "return", NEW subs,
           subs = IF node = NULL THEN subNodes
                  ELSE Appended(subNodes, Calls[Len(Calls)], node)
    PROVE  /\ subs \in Trees
           /\ document.plain => BuiltTo(document.tree, subs, Calls, <<>>)
<1>1. /\ Calls \in Seq(Nodes)
      /\ Len(Calls) > 0
      /\ subNodes \in Trees
      /\ document.tree \in Trees
      /\ node \in Nodes \cup {NULL}
  BY CallsFacts DEF IInv, Typed, ReaderTyped, Calls
<1>2. Calls[Len(Calls)] \in Nodes
  BY <1>1, FrontFacts
<1>3. document.plain => BuiltTo(document.tree, subNodes, Calls, Pending)
  BY DEF IInv, Built
<1>4. CASE node = NULL
  BY <1>1, <1>3, <1>4 DEF Pending
<1>5. CASE node # NULL
  <2>1. subs = Appended(subNodes, Calls[Len(Calls)], node) /\ node \in Nodes
    BY <1>1, <1>5
  <2>2. subs \in Trees
    BY <1>1, <1>2, <2>1, AppendedFacts
  <2>3. Pending = <<node>>
    BY <1>5 DEF Pending
  <2> QED BY <1>1, <1>3, <2>1, <2>2, <2>3, Added
<1> QED BY <1>4, <1>5

LEMMA Adds ==
    ASSUME IInv, AddSubNode
    PROVE  IInv'
<1> USE DEF AddSubNode
<1>1. Typed /\ Documented /\ pc = "return"
  BY DEF IInv
<1>2. /\ UNCHANGED <<stack, node>>
      /\ pc' = "loop"
      /\ stack \in Seq(Nodes)
      /\ Len(stack) > 0
  BY <1>1, EmptySeq DEF Typed
<1>3. /\ Calls \in Seq(Nodes)
      /\ Len(Calls) > 0
      /\ Calls[Len(Calls)] = Last(stack)
  BY <1>2, CallsFacts, InnermostFacts DEF Calls
<1>4. /\ subNodes' \in Trees
      /\ document.plain => BuiltTo(document.tree, subNodes', Calls, <<>>)
  BY <1>1, <1>3, TakesNode
<1>5. /\ ReaderTyped'
      /\ Documented'
      /\ ret' = 1 => Len(events') = Len(events) + 1
      /\ document'.plain => document.plain
  BY <1>1, ReadFacts
<1>6. Typed'
  <2>1. Len(events) \in Nat
    BY <1>1, LenProperties DEF Typed, ReaderTyped
  <2>2. ret' = 1 => Len(events') > 0
    BY <1>5, <2>1
  <2> QED BY <1>1, <1>2, <1>4, <1>5, <2>2 DEF Typed
<1>7. ASSUME document'.plain
      PROVE  Stands' /\ Built'
  <2>1. ret = 1 => Calls = document.open
    BY <1>1, <1>5, <1>7 DEF IInv, Stands
  <2>2. BuiltTo(document.tree, subNodes', Calls, <<>>)
    BY <1>4, <1>5, <1>7
  <2>3. /\ BuiltTo(document'.tree, subNodes', Calls, JustRead')
        /\ ret' = 1 => Calls = document'.around
    BY <1>1, <1>3, <1>4, <1>7, <2>1, <2>2, ReadBuilt
  <2>4. Calls' = Calls /\ Pending' = JustRead'
    BY <1>2 DEF Calls, Pending
  <2>5. Stands'
    BY <1>2, <2>3, <2>4 DEF Stands
  <2> QED BY <2>3, <2>4, <2>5 DEF Built
<1> QED BY <1>5, <1>6, <1>7 DEF IInv

LEMMA SetsRoot ==
    ASSUME IInv, SetRoot
    PROVE  IInv'
<1> USE DEF SetRoot
<1>1. Typed /\ Documented /\ pc = "return" /\ pc' = "done"
  BY DEF IInv
<1>2. UNCHANGED <<events, document, ret, kept, stack, node>> /\ stack = <<>>
  BY DEF reader
<1>3. Calls = <<Document>> /\ Calls[Len(Calls)] = Document
  BY <1>1, <1>2, CallsFacts DEF Typed, Calls
<1>4. /\ subNodes' \in Trees
      /\ document.plain => BuiltTo(document.tree, subNodes', Calls, <<>>)
  BY <1>1, <1>3, TakesNode
<1>5. Typed'
  BY <1>1, <1>2, <1>4 DEF Typed, ReaderTyped
<1>6. Documented'
  BY <1>1, <1>2 DEF Documented
<1>7. Calls' = Calls /\ Pending' = <<>>
  BY <1>1, <1>2 DEF Calls, Pending
<1>8. document'.plain => Stands' /\ Built'
  BY <1>1, <1>2, <1>4, <1>7 DEF Stands, Built
<1> QED BY <1>5, <1>6, <1>8 DEF IInv

LEMMA Stutters ==
    ASSUME IInv, UNCHANGED vars
    PROVE  IInv'
<1>1. UNCHANGED <<pc, events, document, ret, kept, stack, node, subNodes>>
  BY DEF vars, reader
<1>2. Typed'
  BY <1>1 DEF IInv, Typed, ReaderTyped
<1>3. Documented'
  BY <1>1 DEF IInv, Documented
<1>4. Calls' = Calls /\ JustRead' = JustRead
  BY <1>1 DEF Calls, JustRead
<1>5. Pending' = Pending
  BY <1>1, <1>4 DEF Pending
<1>6. document'.plain => Stands' /\ Built'
  BY <1>1, <1>4, <1>5 DEF IInv, Stands, Built
<1> QED BY <1>2, <1>3, <1>6 DEF IInv

LEMMA Invariance == Spec => []IInv
<1>1. Init => IInv
  BY Begins
<1>2. IInv /\ [Next]_vars => IInv'
  BY Parses, Enters, Skips, Creates, Loops, Adds, SetsRoot, Stutters DEF Next, ProcessNode
<1> QED BY <1>1, <1>2, PTL DEF Spec

-----------------------------------------------------------------------------
(* Theorems *)

\* On a plain document, in the loop over the subnodes of a node, the calls in
\* progress are the elements that are open where the reader stands, though
\* DOMParser.cpp compares only names (lines 84-98).
THEOREM StaysInStep == Spec => []InStep
<1>1. IInv => InStep
  BY DEF IInv, InStep, Stands, Calls
<1> QED BY Invariance, <1>1, PTL

\* What Parse returns for a plain document is its tree, up to where the file
\* breaks off (DOMParser.cpp, lines 29-44 and 46-105).
THEOREM ReturnsTheDocument == Spec => []TreeIsDocument
<1>1. ASSUME IInv, pc = "done", document.plain
      PROVE  subNodes = document.tree
  <2>1. /\ subNodes \in Trees
        /\ document.tree \in Trees
        /\ Built
        /\ Calls = <<Document>>
    BY <1>1, CallsFacts DEF IInv, Typed, ReaderTyped, Calls
  <2>2. Pending = <<>> /\ Len(Calls) = 1 /\ Calls[1] = Document
    BY <1>1, <2>1 DEF Pending
  <2>3. ASSUME NEW i \in Nodes
        PROVE  document.tree[i] = subNodes[i]
    <3>1. CASE i = Document
      <4>1. document.tree[i] = subNodes[i] \o <<>>
        BY <2>1, <2>2, <3>1 DEF Built, BuiltTo
      <4>2. subNodes[i] \in Seq(Nodes)
        BY <2>1 DEF Trees
      <4> QED BY <4>1, <4>2, ConcatEmptySeq
    <3>2. CASE i # Document
      <4>1. \A j \in 1 .. Len(Calls) : Calls[j] # i
        BY <2>2, <3>2
      <4> QED BY <2>1, <4>1 DEF Built, BuiltTo
    <3> QED BY <3>1, <3>2
  <2> QED BY <2>1, <2>3 DEF Trees
<1>2. IInv => TreeIsDocument
  BY <1>1 DEF TreeIsDocument
<1> QED BY Invariance, <1>2, PTL
=============================================================================
