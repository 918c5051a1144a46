--------------------------- MODULE BoundedBuffer ---------------------------
(***************************************************************************)
(* The bounded_buffer of Main/Main.cpp (lines 57-103): a ring of message    *)
(* pointers guarded by two counting semaphores (filled, empty) and a       *)
(* mutex.  libdash_thread and mpeg_vpcc_thread are the two ends of buf1,   *)
(* mpeg_vpcc_thread and the viewer's read thread those of buf2; here any   *)
(* number of threads may be at either end.                                 *)
(*                                                                         *)
(* A thread runs bounded_buffer_queue or bounded_buffer_dequeue one call   *)
(* or one group of assignments at a time, so every interleaving of the     *)
(* semaphore, mutex and ring operations is a behaviour.  pc[t] names the   *)
(* statement thread t executes next.                                       *)
(***************************************************************************)
EXTENDS Integers, FiniteSets

CONSTANTS
    Producers,      \* threads that call bounded_buffer_queue
    Consumers,      \* threads that call bounded_buffer_dequeue
    Capacity,       \* the capacity given to bounded_buffer_init
    Msgs,           \* the messages that are queued
    None            \* a null pointer; also the owner of a free mutex

ASSUME BufferAssumption ==
    /\ Capacity \in Nat \ {0}
    /\ IsFiniteSet(Producers)
    /\ IsFiniteSet(Consumers)
    /\ Producers \cap Consumers = {}
    /\ None \notin Msgs
    /\ None \notin Producers \cup Consumers

VARIABLES
    filled,         \* value of the semaphore filled
    empty,          \* value of the semaphore empty
    lock,           \* the thread that owns the mutex, or None
    elem,           \* the ring
    num,            \* number of messages in the ring
    front,          \* index of the oldest message
    rear,           \* index the next message goes to
    pc,             \* where each thread is in its call
    arg,            \* the parameter msg of a producer's call
    r               \* the local variable r of a consumer's call

sems == <<filled, empty>>
ring == <<elem, num, front, rear>>
vars == <<filled, empty, lock, elem, num, front, rear, pc, arg, r>>

Threads == Producers \cup Consumers
Slots == 0 .. Capacity - 1

\* Mutant: the index is not wrapped.
NextSlotUnwrapped(i) == i + 1

\* The index after i in the ring.
NextSlot(i) == (i + 1) % Capacity

\* Thread t moves from one statement of its call to another.
Goto(t, from, to) ==
    /\ pc[t] = from
    /\ pc' = [pc EXCEPT ![t] = to]

Init ==
    /\ filled = 0
    /\ empty = Capacity
    /\ lock = None
    /\ elem = [i \in Slots |-> None]
    /\ num = 0
    /\ front = 0
    /\ rear = 0
    /\ pc = [t \in Threads |-> "idle"]
    /\ arg = [p \in Producers |-> None]
    /\ r = [c \in Consumers |-> None]

-----------------------------------------------------------------------------
(* The mutex, used by both operations. *)

\* Mutant: the mutex lets a second thread in.
LockShared(t) == lock' = t

Lock(t) ==
    /\ lock = None
    /\ lock' = t

Unlock(t) ==
    /\ lock' = None
    /\ Goto(t, "unlock", "post")
    /\ UNCHANGED <<sems, ring, arg, r>>

-----------------------------------------------------------------------------
(* bounded_buffer_queue *)

CallQueue(p, m) ==
    /\ Goto(p, "idle", "wait")
    /\ arg' = [arg EXCEPT ![p] = m]
    /\ UNCHANGED <<sems, lock, ring, r>>

\* Mutant: a producer does not wait for a free slot.
WaitEmptyNever(p) ==
    /\ Goto(p, "wait", "lock")
    /\ UNCHANGED <<sems, lock, ring, arg, r>>

WaitEmpty(p) ==
    /\ Goto(p, "wait", "lock")
    /\ empty > 0
    /\ empty' = empty - 1
    /\ UNCHANGED <<filled, lock, ring, arg, r>>

LockQueue(p) ==
    /\ Goto(p, "lock", "store")
    /\ Lock(p)
    /\ UNCHANGED <<sems, ring, arg, r>>

Store(p) ==
    /\ Goto(p, "store", "stored")
    /\ elem' = [elem EXCEPT ![rear] = arg[p]]
    /\ UNCHANGED <<sems, lock, num, front, rear, arg, r>>

AdvanceRear(p) ==
    /\ Goto(p, "stored", "unlock")
    /\ rear' = NextSlot(rear)
    /\ num' = num + 1
    /\ UNCHANGED <<sems, lock, elem, front, arg, r>>

PostFilled(p) ==
    /\ Goto(p, "post", "idle")
    /\ filled' = filled + 1
    /\ UNCHANGED <<empty, lock, ring, arg, r>>

-----------------------------------------------------------------------------
(* bounded_buffer_dequeue *)

CallDequeue(c) ==
    /\ Goto(c, "idle", "wait")
    /\ r' = [r EXCEPT ![c] = None]
    /\ UNCHANGED <<sems, lock, ring, arg>>

\* Mutant: a consumer leaves the last message where it is.
WaitFilledOffByOne(c) ==
    /\ Goto(c, "wait", "lock")
    /\ filled > 1
    /\ filled' = filled - 1
    /\ UNCHANGED <<empty, lock, ring, arg, r>>

WaitFilled(c) ==
    /\ Goto(c, "wait", "lock")
    /\ filled > 0
    /\ filled' = filled - 1
    /\ UNCHANGED <<empty, lock, ring, arg, r>>

LockDequeue(c) ==
    /\ Goto(c, "lock", "take")
    /\ Lock(c)
    /\ UNCHANGED <<sems, ring, arg, r>>

Fetch(c) ==
    /\ Goto(c, "take", "taken")
    /\ r' = [r EXCEPT ![c] = elem[front]]
    /\ UNCHANGED <<sems, lock, ring, arg>>

\* Mutant: the consumer leaves the count as it was.
AdvanceFrontUncounted(c) ==
    /\ Goto(c, "taken", "unlock")
    /\ front' = NextSlot(front)
    /\ UNCHANGED <<sems, lock, elem, num, rear, arg, r>>

AdvanceFront(c) ==
    /\ Goto(c, "taken", "unlock")
    /\ front' = NextSlot(front)
    /\ num' = num - 1
    /\ UNCHANGED <<sems, lock, elem, rear, arg, r>>

\* Mutant: the consumer announces a message instead of a free slot.
PostEmptySwapped(c) ==
    /\ Goto(c, "post", "idle")
    /\ filled' = filled + 1
    /\ UNCHANGED <<empty, lock, ring, arg, r>>

PostEmpty(c) ==
    /\ Goto(c, "post", "idle")
    /\ empty' = empty + 1
    /\ UNCHANGED <<filled, lock, ring, arg, r>>

-----------------------------------------------------------------------------
\* The steps of a call that has begun.
QueueStep(p) ==
    \/ WaitEmpty(p)
    \/ LockQueue(p)
    \/ Store(p)
    \/ AdvanceRear(p)
    \/ Unlock(p)
    \/ PostFilled(p)

DequeueStep(c) ==
    \/ WaitFilled(c)
    \/ LockDequeue(c)
    \/ Fetch(c)
    \/ AdvanceFront(c)
    \/ Unlock(c)
    \/ PostEmpty(c)

Next ==
    \/ \E p \in Producers : QueueStep(p) \/ \E m \in Msgs : CallQueue(p, m)
    \/ \E c \in Consumers : DequeueStep(c) \/ CallDequeue(c)

Spec == Init /\ [][Next]_vars

\* A thread inside a call keeps running it; nobody is obliged to call.
Fairness ==
    /\ \A p \in Producers : WF_vars(QueueStep(p))
    /\ \A c \in Consumers : WF_vars(DequeueStep(c))

LiveSpec == Spec /\ Fairness

-----------------------------------------------------------------------------
(* Properties *)

QueuePcs == {"idle", "wait", "lock", "store", "stored", "unlock", "post"}
DequeuePcs == {"idle", "wait", "lock", "take", "taken", "unlock", "post"}

\* Every variable has the type its declaration in Main.cpp gives it, and the
\* semaphores, the count and the indices stay within the capacity.
TypeOK ==
    /\ filled \in 0 .. Capacity
    /\ empty \in 0 .. Capacity
    /\ lock \in Threads \cup {None}
    /\ elem \in [Slots -> Msgs \cup {None}]
    /\ num \in 0 .. Capacity
    /\ front \in Slots
    /\ rear \in Slots
    /\ pc \in [Threads -> QueuePcs \cup DequeuePcs]
    /\ \A p \in Producers : pc[p] \in QueuePcs
    /\ \A c \in Consumers : pc[c] \in DequeuePcs
    /\ arg \in [Producers -> Msgs \cup {None}]
    /\ r \in [Consumers -> Msgs \cup {None}]

\* How many threads of a set are at one of the given statements.
Count(threads, pcs) == Cardinality({t \in threads : pc[t] \in pcs})

\* Calls that have passed their sem_wait and not yet changed num, and calls
\* that have changed num and not yet reached their sem_post.
Reserving == {"lock", "store", "stored", "take", "taken"}
Announcing == {"unlock", "post"}

\* The semaphores agree with the ring at every moment, also in the middle of
\* the two operations: what filled promises, what a producer is about to
\* announce and what a consumer has reserved add up to the messages in the
\* ring, and likewise empty to its free slots.  The sem_wait before the lock
\* (Main.cpp 83, 95) therefore suffices to keep num within the capacity.
SemaphoreAccounting ==
    /\ num = filled + Count(Producers, Announcing)
                    + Count(Consumers, Reserving)
    /\ Capacity - num = empty + Count(Consumers, Announcing)
                              + Count(Producers, Reserving)

\* The indices of the ring that hold messages.
Live == {(front + k) % Capacity : k \in 0 .. num - 1}

\* No step overwrites a message that is still in the ring: the store of
\* bounded_buffer_queue (Main.cpp 85) only ever hits a free slot.
NoOverwrite == [][\A i \in Live : elem'[i] = elem[i]]_vars

\* The buffer is a first-in first-out queue of at most Capacity messages: the
\* ring, read from front, is the queue, and a message leaves it at the moment
\* front is advanced (Main.cpp 97-99).
Fifo == INSTANCE BoundedFifo WITH
    queue <- [k \in 1 .. num |-> elem[(front + k - 1) % Capacity]],
    held <- [c \in Consumers |-> IF pc[c] \in Announcing THEN r[c] ELSE None]

IsFifo == Fifo!Spec

\* While a consumer waits in bounded_buffer_dequeue and there is a message, a
\* call to dequeue gets through: which one is up to the semaphore, which may
\* prefer the same thread for ever.  With one consumer, as buf1 and buf2 have,
\* it is that consumer's own call.
DequeueReturns ==
    ((\E c \in Consumers : pc[c] = "wait") /\ num > 0)
    ~> (\E c \in Consumers : pc[c] = "post")

\* Likewise for a producer that waits in bounded_buffer_queue while there is
\* room.
QueueReturns ==
    ((\E p \in Producers : pc[p] = "wait") /\ num < Capacity)
    ~> (\E p \in Producers : pc[p] = "post")
=============================================================================
