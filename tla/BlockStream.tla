----------------------------- MODULE BlockStream ----------------------------
(***************************************************************************)
(* The buffer between a download thread and the readers of its chunk:      *)
(* a deque of blocks and a byte count (helpers/BlockStream.cpp) behind a   *)
(* monitor (helpers/SyncedBlockStream.cpp).  A method of the monitor holds *)
(* the mutex from its first statement to its last or to its wait, so it is *)
(* one action, and two when it has to wait: a caller that finds too little *)
(* falls asleep, and looks again after the next broadcast.                 *)
(*                                                                         *)
(* A block is a sequence of bytes, and bytes are numbered as they come.    *)
(* GetBytes(len) and ToBlock take a uint32_t: streams are shorter than     *)
(* 2^32 bytes here.  The return value -1 of ByteAt, which a uint8_t cannot *)
(* tell from a byte, is the empty result.                                  *)
(***************************************************************************)
EXTENDS Integers, Sequences, SequencesExt

CONSTANTS
    Callers,        \* threads that read from the stream
    MaxBytes,       \* bound on the bytes ever pushed
    MaxBlock,       \* most bytes in a block
    Lengths,        \* the parameter len of the calls
    Offsets,        \* the parameter offset of PeekBytes
    Positions,      \* the parameter position of ByteAt
    NoCall          \* a caller that is in no method

ASSUME StreamAssumption ==
    /\ MaxBytes \in Nat
    /\ MaxBlock \in Nat \ {0}
    /\ Lengths \subseteq Nat \ {0}
    /\ Offsets \subseteq Nat
    /\ Positions \subseteq Nat

VARIABLES
    blockqueue,     \* the blocks
    length,         \* number of bytes in them
    eos,            \* end of stream was set
    call,           \* the call each caller is in
    asleep,         \* callers that sleep on the condition variable full
    result,         \* the bytes their last calls returned
    made            \* history: number of bytes ever pushed

stream == <<blockqueue, length>>
readers == <<call, asleep, result>>
vars == <<stream, eos, readers, made>>

\* The calls that wait for data.  Peek without an offset and Read are the ones
\* that AbstractChunk.cpp offers, with Peek at an offset.
Request(op, len, offset) == [op |-> op, len |-> len, offset |-> offset]

Calls ==
    {Request(op, len, 0) : op \in {"GetBytes", "GetBlock", "GetBlocks"}, len \in Lengths}
    \cup {Request(op, 0, 0) : op \in {"GetFront", "Front", "ToBlock"}}
    \cup {Request("PeekBytes", len, offset) : len \in Lengths, offset \in Offsets}
    \cup {Request("ByteAt", 1, position) : position \in Positions}

Init ==
    /\ blockqueue = <<>>
    /\ length = 0
    /\ eos = FALSE
    /\ call = [c \in Callers |-> NoCall]
    /\ asleep = {}
    /\ result = [c \in Callers |-> <<>>]
    /\ made = 0

-----------------------------------------------------------------------------
(* The loops over the blocks *)

SmallerOf(a, b) == IF a < b THEN a ELSE b

\* The number of bytes in the first k blocks, which the loops add up.
Ends(queue) ==
    LET pos[k \in 0 .. Len(queue)] == IF k = 0 THEN 0 ELSE pos[k - 1] + Len(queue[k])
    IN  pos

\* How many blocks a loop has gone through once it has passed n bytes.  None
\* looks for the end of the blocks: n is at most what they hold.
Passed(queue, n) ==
    CHOOSE k \in 0 .. Len(queue) :
        /\ n <= Ends(queue)[k]
        /\ k > 0 => Ends(queue)[k - 1] < n

\* Mutant: the remainder of a block that is cut is put behind the others.
SplitReordered(queue, n) ==
    IF n = 0 THEN [taken |-> <<>>, rest |-> queue]
    ELSE LET last == Passed(queue, n)
             block == queue[last]
             cut == n - Ends(queue)[last - 1]
             left == SubSeq(queue, last + 1, Len(queue))
         IN [taken |-> Append(SubSeq(queue, 1, last - 1), SubSeq(block, 1, cut)),
             rest |-> IF cut = Len(block) THEN left
                      ELSE Append(left, SubSeq(block, cut + 1, Len(block)))]

\* Whole blocks from the front while they fit into n bytes, then a part of the
\* next one, the remainder of which becomes the new front.  The loops of
\* BlockQueueGetBytes, EraseFront and GetBlocks all do this.
Split(queue, n) ==
    IF n = 0 THEN [taken |-> <<>>, rest |-> queue]
    ELSE LET last == Passed(queue, n)
             block == queue[last]
             cut == n - Ends(queue)[last - 1]
             left == SubSeq(queue, last + 1, Len(queue))
         IN [taken |-> Append(SubSeq(queue, 1, last - 1), SubSeq(block, 1, cut)),
             rest |-> IF cut = Len(block) THEN left
                      ELSE <<SubSeq(block, cut + 1, Len(block))>> \o left]

\* A cell of the caller's buffer that nothing was copied to, and a copy of a
\* negative number of bytes.
Hole == 0
Crash == -1
Holes(n) == [i \in 1 .. n |-> Hole]

\* What a block leaves in the caller's buffer when n bytes are still wanted: the
\* offset is skipped in every block, and shortens the copy out of the last one.
Copied(block, n, offset) ==
    LET upTo == IF offset + n < Len(block) THEN n ELSE Len(block)
    IN  IF upTo < offset THEN <<Crash>>
        ELSE SubSeq(block, offset + 1, upTo)
             \o Holes(SmallerOf(offset, n - (upTo - offset)))

\* BlockQueuePeekBytes
Peek(queue, len, offset) ==
    FlattenSeq([i \in 1 .. Passed(queue, len) |->
                    Copied(queue[i], len - Ends(queue)[i - 1], offset)])

\* ByteAt: the byte at a position, in the block that the position falls into.
Find(queue, position) ==
    LET block == Passed(queue, position + 1)
    IN  IF position >= Len(FlattenSeq(queue)) THEN <<>>
        ELSE <<queue[block][position - Ends(queue)[block - 1] + 1]>>

-----------------------------------------------------------------------------
(* The methods that do not wait *)

\* A new block of n bytes.
Bytes(n) == [i \in 1 .. n |-> made + i]

\* Mutant: nobody is woken.
PushSilently(n) ==
    /\ made + n <= MaxBytes
    /\ made' = made + n
    /\ length' = length + n
    /\ asleep' = asleep

\* WakeAllConditionVariable follows every push.
Push(n) ==
    /\ made + n <= MaxBytes
    /\ made' = made + n
    /\ length' = length + n
    /\ asleep' = {}

PushBack(n) ==
    /\ Push(n)
    /\ blockqueue' = Append(blockqueue, Bytes(n))
    /\ UNCHANGED <<eos, call, result>>

PushFront(n) ==
    /\ Push(n)
    /\ blockqueue' = <<Bytes(n)>> \o blockqueue
    /\ UNCHANGED <<eos, call, result>>

\* Mutant: the block is dropped and still counted.
PopUncounted ==
    /\ blockqueue # <<>>
    /\ blockqueue' = Tail(blockqueue)
    /\ UNCHANGED <<length, eos, readers, made>>

PopAndDeleteFront ==
    /\ blockqueue # <<>>
    /\ length' = length - Len(Head(blockqueue))
    /\ blockqueue' = Tail(blockqueue)
    /\ UNCHANGED <<eos, readers, made>>

EraseFront(n) ==
    LET len == SmallerOf(n, length)
    IN  /\ blockqueue' = Split(blockqueue, len).rest
        /\ length' = length - len
        /\ UNCHANGED <<eos, readers, made>>

Clear ==
    /\ blockqueue' = <<>>
    /\ length' = 0
    /\ UNCHANGED <<eos, readers, made>>

\* The chunk sets it once, when the download is over.
SetEOS ==
    /\ eos' = TRUE
    /\ asleep' = {}
    /\ UNCHANGED <<stream, call, result, made>>

-----------------------------------------------------------------------------
(* The methods that wait *)

Enter(c, q) ==
    /\ call[c] = NoCall
    /\ call' = [call EXCEPT ![c] = q]
    /\ result' = [result EXCEPT ![c] = <<>>]
    /\ UNCHANGED <<stream, eos, asleep, made>>

\* What a call waits for is not there.
Short(q) == IF q.op = "ByteAt" THEN length < q.offset ELSE length <= q.offset

Wait(c) ==
    /\ call[c] # NoCall
    /\ c \notin asleep
    /\ Short(call[c])
    /\ ~ eos
    /\ asleep' = asleep \cup {c}
    /\ UNCHANGED <<stream, eos, call, result, made>>

\* Caller c is in method op and does not have to wait.
Runs(c, op) ==
    /\ call[c] # NoCall
    /\ c \notin asleep
    /\ call[c].op = op
    /\ ~ Short(call[c])

Return(c, s) ==
    /\ call' = [call EXCEPT ![c] = NoCall]
    /\ result' = [result EXCEPT ![c] = s]
    /\ UNCHANGED <<eos, asleep, made>>

Take(c, n) ==
    LET split == Split(blockqueue, n)
    IN  /\ Return(c, FlattenSeq(split.taken))
        /\ blockqueue' = split.rest
        /\ length' = length - n

GetBytes(c) ==
    /\ Runs(c, "GetBytes")
    /\ Take(c, SmallerOf(call[c].len, length))

\* GetBytes(len) and GetBlocks(len) return NULL when there are fewer.
GetBlock(c) ==
    /\ Runs(c, "GetBlock") \/ Runs(c, "GetBlocks")
    /\ IF length < call[c].len THEN Return(c, <<>>) /\ UNCHANGED stream
                               ELSE Take(c, call[c].len)

ToBlock(c) ==
    /\ Runs(c, "ToBlock")
    /\ Take(c, length)

GetFront(c) ==
    /\ Runs(c, "GetFront")
    /\ Return(c, Head(blockqueue))
    /\ length' = length - Len(Head(blockqueue))
    /\ blockqueue' = Tail(blockqueue)

FrontBlock(c) ==
    /\ Runs(c, "Front")
    /\ Return(c, Head(blockqueue))
    /\ UNCHANGED stream

PeekBytes(c) ==
    /\ Runs(c, "PeekBytes")
    /\ LET offset == call[c].offset
           len == SmallerOf(SmallerOf(call[c].len, length), length - offset)
       IN Return(c, Peek(blockqueue, len, offset))
    /\ UNCHANGED stream

ByteAt(c) ==
    /\ Runs(c, "ByteAt")
    /\ Return(c, Find(blockqueue, call[c].offset))
    /\ UNCHANGED stream

GiveUp(c) ==
    /\ call[c] # NoCall
    /\ c \notin asleep
    /\ Short(call[c])
    /\ eos
    /\ Return(c, <<>>)
    /\ UNCHANGED stream

Proceed(c) ==
    \/ Wait(c)
    \/ GetBytes(c)
    \/ GetBlock(c)
    \/ ToBlock(c)
    \/ GetFront(c)
    \/ FrontBlock(c)
    \/ PeekBytes(c)
    \/ ByteAt(c)
    \/ GiveUp(c)

-----------------------------------------------------------------------------
Next ==
    \/ \E n \in 1 .. MaxBlock : PushBack(n) \/ PushFront(n)
    \/ PopAndDeleteFront
    \/ \E n \in Lengths : EraseFront(n)
    \/ Clear
    \/ SetEOS
    \/ \E c \in Callers : Proceed(c) \/ \E q \in Calls : Enter(c, q)

Spec == Init /\ [][Next]_vars

\* A caller that is awake gets on; nobody is obliged to push, or to call.
LiveSpec == Spec /\ \A c \in Callers : WF_vars(Proceed(c))

-----------------------------------------------------------------------------
(* Properties *)

\* The count that decides whether a caller sleeps, and how far the loops run
\* over the blocks without looking for their end (BlockStream.cpp 121, 157,
\* 258), is the number of bytes in the blocks.
LengthIsExact == length = Len(FlattenSeq(blockqueue))

\* Whatever the blocks are, the callers see a queue of bytes: every call
\* returns what it would return from the plain bytes, none is lost, doubled or
\* moved when a block is cut, and NULL or 0 comes for want of bytes only.
Queue == INSTANCE ByteQueue WITH
    bytes <- FlattenSeq(blockqueue),
    ended <- eos

IsByteQueue == Queue!Spec

\* A call that never returns waits for bytes that are not there, and for an end
\* that does not come: it does not sleep through either.
WaitsForData ==
    \A c \in Callers :
        <>[](call[c] # NoCall) => <>[](call[c] # NoCall /\ Short(call[c]) /\ ~ eos)
=============================================================================
