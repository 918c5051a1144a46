------------------------ MODULE BoundedBufferProofs ------------------------
(***************************************************************************)
(* Proofs about BoundedBuffer for every number of threads, every capacity  *)
(* and every set of messages: type correctness, the agreement of the two   *)
(* semaphores with the ring, that no message is overwritten, and that the  *)
(* ring implements the queue of BoundedFifo.                               *)
(*                                                                         *)
(* The bounds of TypeOK are not inductive by themselves: that num stays    *)
(* within the capacity follows from the accounting of the semaphores, and  *)
(* the accounting needs to know which thread owns the mutex only for the   *)
(* contents of the ring.  IInv is the conjunction of all of it.            *)
(***************************************************************************)
EXTENDS BoundedBuffer, FiniteSetTheorems, SequenceTheorems, TLAPS

-----------------------------------------------------------------------------
(* Counting the threads at a set of statements *)

\* A count is a natural number.
LEMMA CountType ==
    ASSUME NEW T \in {Producers, Consumers}, NEW S
    PROVE  /\ IsFiniteSet({u \in T : pc[u] \in S})
           /\ Count(T, S) \in Nat
<1>1. IsFiniteSet(T)
  BY BufferAssumption
<1>2. IsFiniteSet({u \in T : pc[u] \in S})
  BY <1>1, FS_Subset
<1> QED
  BY <1>2, FS_CardinalityType DEF Count

\* What a step from one statement to another adds to the count of a set S.
Delta(S, from, to) ==
    (IF to \in S THEN 1 ELSE 0) - (IF from \in S THEN 1 ELSE 0)

\* The step of a thread changes a count by that thread only.
LEMMA CountMove ==
    ASSUME DOMAIN pc = Threads, NEW T \in {Producers, Consumers}, NEW S,
           NEW t \in Threads, NEW from, NEW to, Goto(t, from, to)
    PROVE  Count(T, S)' = Count(T, S) + (IF t \in T THEN Delta(S, from, to) ELSE 0)
<1> DEFINE F == {u \in T : pc[u] \in S}
           G == {u \in T : pc'[u] \in S}
<1>1. IsFiniteSet(F) /\ Cardinality(F) \in Nat
  BY CountType DEF Count
<1>2. pc[t] = from /\ \A u \in T : pc'[u] = IF u = t THEN to ELSE pc[u]
  BY DEF Goto, Threads
<1> SUFFICES Cardinality(G) =
               Cardinality(F) + (IF t \in T THEN Delta(S, from, to) ELSE 0)
  BY DEF Count
<1>3. CASE t \in T /\ to \in S /\ from \notin S
  <2>1. G = F \cup {t} /\ t \notin F
    BY <1>2, <1>3
  <2> HIDE DEF F, G
  <2>2. Cardinality(G) = Cardinality(F) + 1
    BY <1>1, <2>1, FS_AddElement
  <2> QED
    BY <1>1, <1>3, <2>2 DEF Delta
<1>4. CASE t \in T /\ to \notin S /\ from \in S
  <2>1. G = F \ {t} /\ t \in F
    BY <1>2, <1>4
  <2> HIDE DEF F, G
  <2>2. Cardinality(G) = Cardinality(F) - 1
    BY <1>1, <2>1, FS_RemoveElement
  <2> QED
    BY <1>1, <1>4, <2>2 DEF Delta
<1>5. CASE t \notin T \/ (to \in S <=> from \in S)
  <2>1. G = F
    BY <1>2, <1>5
  <2> HIDE DEF F, G
  <2> QED
    BY <1>1, <1>5, <2>1 DEF Delta
<1> QED
  BY <1>3, <1>4, <1>5

-----------------------------------------------------------------------------
(* Types and semaphores *)

\* TypeOK without the bounds that follow from the accounting.
Typed ==
    /\ filled \in Nat
    /\ empty \in Nat
    /\ lock \in Threads \cup {None}
    /\ elem \in [Slots -> Msgs \cup {None}]
    /\ num \in Int
    /\ front \in Slots
    /\ rear \in Slots
    /\ pc \in [Threads -> QueuePcs \cup DequeuePcs]
    /\ \A p \in Producers : pc[p] \in QueuePcs
    /\ \A c \in Consumers : pc[c] \in DequeuePcs
    /\ arg \in [Producers -> Msgs \cup {None}]
    /\ r \in [Consumers -> Msgs \cup {None}]

\* The accounting bounds the semaphores and the number of messages.
LEMMA AccountingBounds ==
    ASSUME Typed, SemaphoreAccounting
    PROVE  TypeOK
<1>1. /\ Count(Producers, Announcing) \in Nat
      /\ Count(Producers, Reserving) \in Nat
      /\ Count(Consumers, Announcing) \in Nat
      /\ Count(Consumers, Reserving) \in Nat
  BY CountType
<1>2. filled \in 0 .. Capacity /\ empty \in 0 .. Capacity /\ num \in 0 .. Capacity
  BY <1>1, BufferAssumption DEF Typed, SemaphoreAccounting
<1> QED
  BY <1>2 DEF Typed, TypeOK

\* The step of a producer keeps the accounting if it changes num and the
\* semaphores as much as its move changes the two counts of producers ...
LEMMA ProducerAccounting ==
    ASSUME Typed, SemaphoreAccounting,
           NEW p \in Producers, NEW from, NEW to, Goto(p, from, to),
           filled' \in Nat, empty' \in Nat, num' \in Int,
           num' = num + (filled' - filled) + Delta(Announcing, from, to),
           num' = num - (empty' - empty) - Delta(Reserving, from, to)
    PROVE  SemaphoreAccounting'
<1>1. p \in Threads /\ p \notin Consumers /\ DOMAIN pc = Threads
  BY BufferAssumption DEF Threads, Typed
<1>2. \A T \in {Producers, Consumers} : \A S :
        Count(T, S)' = Count(T, S) + (IF p \in T THEN Delta(S, from, to) ELSE 0)
  BY <1>1, CountMove
<1>3. \A T \in {Producers, Consumers} : \A S : Count(T, S) \in Nat
  BY CountType
<1>4. \A S : Delta(S, from, to) \in Int
  BY DEF Delta
<1>5. /\ Count(Producers, Announcing)' =
           Count(Producers, Announcing) + Delta(Announcing, from, to)
      /\ Count(Producers, Reserving)' =
           Count(Producers, Reserving) + Delta(Reserving, from, to)
      /\ Count(Consumers, Announcing)' = Count(Consumers, Announcing)
      /\ Count(Consumers, Reserving)' = Count(Consumers, Reserving)
  BY <1>1, <1>2, <1>3
<1>6. /\ Count(Producers, Announcing) \in Nat
      /\ Count(Producers, Reserving) \in Nat
      /\ Count(Consumers, Announcing) \in Nat
      /\ Count(Consumers, Reserving) \in Nat
      /\ Delta(Announcing, from, to) \in Int
      /\ Delta(Reserving, from, to) \in Int
      /\ Capacity \in Nat /\ num \in Int /\ filled \in Nat /\ empty \in Nat
  BY <1>3, <1>4, BufferAssumption DEF Typed
<1>7. num' = filled' + Count(Producers, Announcing)' + Count(Consumers, Reserving)'
  BY <1>5, <1>6 DEF SemaphoreAccounting
<1>8. Capacity - num' =
        empty' + Count(Consumers, Announcing)' + Count(Producers, Reserving)'
  BY <1>5, <1>6 DEF SemaphoreAccounting
<1> QED
  BY <1>7, <1>8 DEF SemaphoreAccounting

\* ... and the step of a consumer likewise.
LEMMA ConsumerAccounting ==
    ASSUME Typed, SemaphoreAccounting,
           NEW c \in Consumers, NEW from, NEW to, Goto(c, from, to),
           filled' \in Nat, empty' \in Nat, num' \in Int,
           num' = num + (filled' - filled) + Delta(Reserving, from, to),
           num' = num - (empty' - empty) - Delta(Announcing, from, to)
    PROVE  SemaphoreAccounting'
<1>1. c \in Threads /\ c \notin Producers /\ DOMAIN pc = Threads
  BY BufferAssumption DEF Threads, Typed
<1>2. \A T \in {Producers, Consumers} : \A S :
        Count(T, S)' = Count(T, S) + (IF c \in T THEN Delta(S, from, to) ELSE 0)
  BY <1>1, CountMove
<1>3. \A T \in {Producers, Consumers} : \A S : Count(T, S) \in Nat
  BY CountType
<1>4. \A S : Delta(S, from, to) \in Int
  BY DEF Delta
<1>5. /\ Count(Consumers, Announcing)' =
           Count(Consumers, Announcing) + Delta(Announcing, from, to)
      /\ Count(Consumers, Reserving)' =
           Count(Consumers, Reserving) + Delta(Reserving, from, to)
      /\ Count(Producers, Announcing)' = Count(Producers, Announcing)
      /\ Count(Producers, Reserving)' = Count(Producers, Reserving)
  BY <1>1, <1>2, <1>3
<1>6. /\ Count(Producers, Announcing) \in Nat
      /\ Count(Producers, Reserving) \in Nat
      /\ Count(Consumers, Announcing) \in Nat
      /\ Count(Consumers, Reserving) \in Nat
      /\ Delta(Announcing, from, to) \in Int
      /\ Delta(Reserving, from, to) \in Int
      /\ Capacity \in Nat /\ num \in Int /\ filled \in Nat /\ empty \in Nat
  BY <1>3, <1>4, BufferAssumption DEF Typed
<1>7. num' = filled' + Count(Producers, Announcing)' + Count(Consumers, Reserving)'
  BY <1>5, <1>6 DEF SemaphoreAccounting
<1>8. Capacity - num' =
        empty' + Count(Consumers, Announcing)' + Count(Producers, Reserving)'
  BY <1>5, <1>6 DEF SemaphoreAccounting
<1> QED
  BY <1>7, <1>8 DEF SemaphoreAccounting

LEMMA InitTyped == Init => Typed /\ SemaphoreAccounting
<1> SUFFICES ASSUME Init PROVE Typed /\ SemaphoreAccounting
  OBVIOUS
<1>1. Typed
  BY BufferAssumption DEF Init, Typed, Slots, QueuePcs, DequeuePcs, Threads
<1>2. \A T \in {Producers, Consumers} : \A S : "idle" \notin S => Count(T, S) = 0
  <2> SUFFICES ASSUME NEW T \in {Producers, Consumers}, NEW S, "idle" \notin S
               PROVE  Count(T, S) = 0
    OBVIOUS
  <2>1. {t \in T : pc[t] \in S} = {}
    BY DEF Init, Threads
  <2> QED
    BY <2>1, FS_EmptySet DEF Count
<1>3. "idle" \notin Announcing /\ "idle" \notin Reserving
  BY DEF Announcing, Reserving
<1>4. /\ Count(Producers, Announcing) = 0
      /\ Count(Producers, Reserving) = 0
      /\ Count(Consumers, Announcing) = 0
      /\ Count(Consumers, Reserving) = 0
  BY <1>2, <1>3
<1> QED
  BY <1>1, <1>4, BufferAssumption DEF Init, SemaphoreAccounting

LEMMA NextTyped ==
    ASSUME Typed, SemaphoreAccounting, [Next]_vars
    PROVE  Typed' /\ SemaphoreAccounting'
<1> USE BufferAssumption
<1>1. ASSUME NEW p \in Producers, NEW m \in Msgs, CallQueue(p, m)
      PROVE  Typed' /\ SemaphoreAccounting'
  <2>1. Typed'
    BY <1>1 DEF CallQueue, Goto, Typed, QueuePcs, DequeuePcs,
        Threads, Slots, sems, ring
  <2>2. SemaphoreAccounting'
    BY <1>1, <2>1, ProducerAccounting
    DEF CallQueue, Delta, Announcing, Reserving, Typed, sems, ring
  <2> QED
    BY <2>1, <2>2
<1>2. ASSUME NEW p \in Producers, WaitEmpty(p)
      PROVE  Typed' /\ SemaphoreAccounting'
  <2>1. Typed'
    BY <1>2 DEF WaitEmpty, Goto, Typed, QueuePcs, DequeuePcs,
        Threads, Slots, sems, ring
  <2>2. SemaphoreAccounting'
    BY <1>2, <2>1, ProducerAccounting
    DEF WaitEmpty, Delta, Announcing, Reserving, Typed, sems, ring
  <2> QED
    BY <2>1, <2>2
<1>3. ASSUME NEW p \in Producers, LockQueue(p)
      PROVE  Typed' /\ SemaphoreAccounting'
  <2>1. Typed'
    BY <1>3 DEF LockQueue, Lock, Goto, Typed, QueuePcs, DequeuePcs,
        Threads, Slots, sems, ring
  <2>2. SemaphoreAccounting'
    BY <1>3, <2>1, ProducerAccounting
    DEF LockQueue, Delta, Announcing, Reserving, Typed, sems, ring
  <2> QED
    BY <2>1, <2>2
<1>4. ASSUME NEW p \in Producers, Store(p)
      PROVE  Typed' /\ SemaphoreAccounting'
  <2>1. Typed'
    BY <1>4 DEF Store, Goto, Typed, QueuePcs, DequeuePcs,
        Threads, Slots, sems, ring
  <2>2. SemaphoreAccounting'
    BY <1>4, <2>1, ProducerAccounting
    DEF Store, Delta, Announcing, Reserving, Typed, sems, ring
  <2> QED
    BY <2>1, <2>2
<1>5. ASSUME NEW p \in Producers, AdvanceRear(p)
      PROVE  Typed' /\ SemaphoreAccounting'
  <2>1. Typed'
    BY <1>5 DEF AdvanceRear, NextSlot, Goto, Typed, QueuePcs, DequeuePcs,
        Threads, Slots, sems, ring
  <2>2. SemaphoreAccounting'
    BY <1>5, <2>1, ProducerAccounting
    DEF AdvanceRear, Delta, Announcing, Reserving, Typed, sems, ring
  <2> QED
    BY <2>1, <2>2
<1>6. ASSUME NEW p \in Producers, Unlock(p)
      PROVE  Typed' /\ SemaphoreAccounting'
  <2>1. Typed'
    BY <1>6 DEF Unlock, Goto, Typed, QueuePcs, DequeuePcs,
        Threads, Slots, sems, ring
  <2>2. SemaphoreAccounting'
    BY <1>6, <2>1, ProducerAccounting
    DEF Unlock, Delta, Announcing, Reserving, Typed, sems, ring
  <2> QED
    BY <2>1, <2>2
<1>7. ASSUME NEW p \in Producers, PostFilled(p)
      PROVE  Typed' /\ SemaphoreAccounting'
  <2>1. Typed'
    BY <1>7 DEF PostFilled, Goto, Typed, QueuePcs, DequeuePcs,
        Threads, Slots, sems, ring
  <2>2. SemaphoreAccounting'
    BY <1>7, <2>1, ProducerAccounting
    DEF PostFilled, Delta, Announcing, Reserving, Typed, sems, ring
  <2> QED
    BY <2>1, <2>2
<1>8. ASSUME NEW c \in Consumers, CallDequeue(c)
      PROVE  Typed' /\ SemaphoreAccounting'
  <2>1. Typed'
    BY <1>8 DEF CallDequeue, Goto, Typed, QueuePcs, DequeuePcs,
        Threads, Slots, sems, ring
  <2>2. SemaphoreAccounting'
    BY <1>8, <2>1, ConsumerAccounting
    DEF CallDequeue, Delta, Announcing, Reserving, Typed, sems, ring
  <2> QED
    BY <2>1, <2>2
<1>9. ASSUME NEW c \in Consumers, WaitFilled(c)
      PROVE  Typed' /\ SemaphoreAccounting'
  <2>1. Typed'
    BY <1>9 DEF WaitFilled, Goto, Typed, QueuePcs, DequeuePcs,
        Threads, Slots, sems, ring
  <2>2. SemaphoreAccounting'
    BY <1>9, <2>1, ConsumerAccounting
    DEF WaitFilled, Delta, Announcing, Reserving, Typed, sems, ring
  <2> QED
    BY <2>1, <2>2
<1>10. ASSUME NEW c \in Consumers, LockDequeue(c)
      PROVE  Typed' /\ SemaphoreAccounting'
  <2>1. Typed'
    BY <1>10 DEF LockDequeue, Lock, Goto, Typed, QueuePcs, DequeuePcs,
        Threads, Slots, sems, ring
  <2>2. SemaphoreAccounting'
    BY <1>10, <2>1, ConsumerAccounting
    DEF LockDequeue, Delta, Announcing, Reserving, Typed, sems, ring
  <2> QED
    BY <2>1, <2>2
<1>11. ASSUME NEW c \in Consumers, Fetch(c)
      PROVE  Typed' /\ SemaphoreAccounting'
  <2>1. Typed'
    BY <1>11 DEF Fetch, Goto, Typed, QueuePcs, DequeuePcs,
        Threads, Slots, sems, ring
  <2>2. SemaphoreAccounting'
    BY <1>11, <2>1, ConsumerAccounting
    DEF Fetch, Delta, Announcing, Reserving, Typed, sems, ring
  <2> QED
    BY <2>1, <2>2
<1>12. ASSUME NEW c \in Consumers, AdvanceFront(c)
      PROVE  Typed' /\ SemaphoreAccounting'
  <2>1. Typed'
    BY <1>12 DEF AdvanceFront, NextSlot, Goto, Typed, QueuePcs, DequeuePcs,
        Threads, Slots, sems, ring
  <2>2. SemaphoreAccounting'
    BY <1>12, <2>1, ConsumerAccounting
    DEF AdvanceFront, Delta, Announcing, Reserving, Typed, sems, ring
  <2> QED
    BY <2>1, <2>2
<1>13. ASSUME NEW c \in Consumers, Unlock(c)
      PROVE  Typed' /\ SemaphoreAccounting'
  <2>1. Typed'
    BY <1>13 DEF Unlock, Goto, Typed, QueuePcs, DequeuePcs,
        Threads, Slots, sems, ring
  <2>2. SemaphoreAccounting'
    BY <1>13, <2>1, ConsumerAccounting
    DEF Unlock, Delta, Announcing, Reserving, Typed, sems, ring
  <2> QED
    BY <2>1, <2>2
<1>14. ASSUME NEW c \in Consumers, PostEmpty(c)
      PROVE  Typed' /\ SemaphoreAccounting'
  <2>1. Typed'
    BY <1>14 DEF PostEmpty, Goto, Typed, QueuePcs, DequeuePcs,
        Threads, Slots, sems, ring
  <2>2. SemaphoreAccounting'
    BY <1>14, <2>1, ConsumerAccounting
    DEF PostEmpty, Delta, Announcing, Reserving, Typed, sems, ring
  <2> QED
    BY <2>1, <2>2
<1>15. CASE UNCHANGED vars
  BY <1>15 DEF vars, Typed, SemaphoreAccounting, Count, Threads, Slots
<1> QED
  BY <1>1, <1>2, <1>3, <1>4, <1>5, <1>6, <1>7, <1>8, <1>9, <1>10, <1>11, <1>12, <1>13, <1>14, <1>15
  DEF Next, QueueStep, DequeueStep

\* A thread past its sem_wait has its slot, or its message: the count it is
\* part of is not zero.
LEMMA CountOfMember ==
    ASSUME NEW T \in {Producers, Consumers}, NEW S, NEW t \in T, pc[t] \in S
    PROVE  Count(T, S) >= 1
<1>1. {u \in T : pc[u] \in S} # {}
  OBVIOUS
<1>2. Count(T, S) # 0 /\ Count(T, S) \in Nat
  BY <1>1, CountType, FS_EmptySet DEF Count
<1> QED
  BY <1>2

LEMMA RoomForProducer ==
    ASSUME Typed, SemaphoreAccounting, NEW p \in Producers, pc[p] \in Reserving
    PROVE  num \in 0 .. Capacity - 1
<1>1. Count(Producers, Reserving) >= 1
  BY CountOfMember
<1>2. /\ Count(Producers, Announcing) \in Nat
      /\ Count(Producers, Reserving) \in Nat
      /\ Count(Consumers, Announcing) \in Nat
      /\ Count(Consumers, Reserving) \in Nat
  BY CountType
<1> QED
  BY <1>1, <1>2, BufferAssumption DEF SemaphoreAccounting, Typed

LEMMA MessageForConsumer ==
    ASSUME Typed, SemaphoreAccounting, NEW c \in Consumers, pc[c] \in Reserving
    PROVE  num \in 1 .. Capacity
<1>1. Count(Consumers, Reserving) >= 1
  BY CountOfMember
<1>2. /\ Count(Producers, Announcing) \in Nat
      /\ Count(Producers, Reserving) \in Nat
      /\ Count(Consumers, Announcing) \in Nat
      /\ Count(Consumers, Reserving) \in Nat
  BY CountType
<1> QED
  BY <1>1, <1>2, BufferAssumption DEF SemaphoreAccounting, Typed

-----------------------------------------------------------------------------
(* Theorems about the semaphores *)

LEMMA AccountingInvariant == Spec => [](Typed /\ SemaphoreAccounting)
<1>1. Init => Typed /\ SemaphoreAccounting
  BY InitTyped
<1>2. Typed /\ SemaphoreAccounting /\ [Next]_vars => (Typed /\ SemaphoreAccounting)'
  BY NextTyped
<1> QED
  BY <1>1, <1>2, PTL DEF Spec

\* The semaphores, the count and the indices of a bounded_buffer stay within
\* its capacity, for any number of threads at either end.
THEOREM TypeCorrect == Spec => []TypeOK
<1>1. Typed /\ SemaphoreAccounting => TypeOK
  BY AccountingBounds
<1> QED
  BY <1>1, AccountingInvariant, PTL

\* At every moment of every call the two semaphores agree with the number of
\* messages in the ring (sem_wait and sem_post, Main.cpp 83-101).
THEOREM AccountingCorrect == Spec => []SemaphoreAccounting
  BY AccountingInvariant, PTL

-----------------------------------------------------------------------------
(* The ring *)

LEMMA ModSmall ==
    ASSUME NEW C \in Nat \ {0}, NEW x \in 0 .. C - 1
    PROVE  x % C = x
  OBVIOUS

LEMMA ModBig ==
    ASSUME NEW C \in Nat \ {0}, NEW x \in C .. 2 * C - 1
    PROVE  x % C = x - C
  OBVIOUS

\* The k-th slot after slot i.
SlotAfter(i, k) == IF i + k < Capacity THEN i + k ELSE i + k - Capacity

LEMMA SlotIsMod ==
    ASSUME NEW i \in Slots, NEW k \in 0 .. Capacity - 1
    PROVE  (i + k) % Capacity = SlotAfter(i, k) /\ SlotAfter(i, k) \in Slots
<1>1. CASE i + k < Capacity
  BY <1>1, ModSmall, BufferAssumption DEF Slots, SlotAfter
<1>2. CASE i + k >= Capacity
  <2>1. i + k \in Capacity .. 2 * Capacity - 1
    BY <1>2, BufferAssumption DEF Slots
  <2> QED
    BY <1>2, <2>1, ModBig, BufferAssumption DEF Slots, SlotAfter
<1> QED
  BY <1>1, <1>2, BufferAssumption DEF Slots

LEMMA SlotsDistinct ==
    ASSUME NEW i \in Slots, NEW k \in 0 .. Capacity - 1, NEW l \in 0 .. Capacity - 1,
           SlotAfter(i, k) = SlotAfter(i, l)
    PROVE  k = l
<1>1. Capacity \in Nat /\ i \in 0 .. Capacity - 1
  BY BufferAssumption DEF Slots
<1>2. CASE i + k < Capacity
  BY <1>1, <1>2 DEF SlotAfter
<1>3. CASE ~(i + k < Capacity)
  BY <1>1, <1>3 DEF SlotAfter
<1> QED
  BY <1>2, <1>3

LEMMA NextSlotIs ==
    ASSUME NEW i \in Slots
    PROVE  NextSlot(i) = (IF i = Capacity - 1 THEN 0 ELSE i + 1)
           /\ NextSlot(i) \in Slots
<1>1. CASE i = Capacity - 1
  BY <1>1, ModBig, BufferAssumption DEF Slots, NextSlot
<1>2. CASE i # Capacity - 1
  BY <1>2, ModSmall, BufferAssumption DEF Slots, NextSlot
<1> QED
  BY <1>1, <1>2

LEMMA SlotAfterNext ==
    ASSUME NEW i \in Slots, NEW k \in 0 .. Capacity - 1
    PROVE  SlotAfter(NextSlot(i), k) = SlotAfter(i, k + 1)
<1>1. Capacity \in Nat \ {0} /\ i \in 0 .. Capacity - 1
  BY BufferAssumption DEF Slots
<1> QED
  BY <1>1, NextSlotIs DEF SlotAfter

\* A thread owns the mutex exactly between its lock and its unlock.
Critical == {"store", "stored", "take", "taken", "unlock"}
MutexOwner == \A t \in Threads : (lock = t) <=> (pc[t] \in Critical)

\* What a producer stores goes to the slot after the last message, and stays
\* there until rear is advanced; what a consumer fetched is the oldest message
\* until front is advanced.
RingContents ==
    /\ rear = SlotAfter(front, num)
    /\ \A k \in 0 .. num - 1 : elem[SlotAfter(front, k)] \in Msgs
    /\ \A p \in Producers : pc[p] # "idle" => arg[p] \in Msgs
    /\ \A p \in Producers : pc[p] = "stored" => elem[rear] = arg[p]
    /\ \A c \in Consumers : pc[c] = "taken" => r[c] = elem[front]
    /\ \A c \in Consumers : pc[c] \in {"taken", "unlock", "post"} => r[c] \in Msgs

\* The inductive invariant.
IInv == Typed /\ SemaphoreAccounting /\ MutexOwner /\ RingContents

LEMMA InitIInv == Init => IInv
<1> SUFFICES ASSUME Init PROVE IInv
  OBVIOUS
<1>1. Typed /\ SemaphoreAccounting
  BY InitTyped
<1>2. MutexOwner
  BY BufferAssumption DEF Init, MutexOwner, Critical, Threads
<1>3. RingContents
  BY BufferAssumption DEF Init, RingContents, SlotAfter, Threads
<1> QED
  BY <1>1, <1>2, <1>3 DEF IInv

\* The lock is granted to one thread when no thread has it ...
LEMMA LockOwner ==
    ASSUME Typed, MutexOwner, NEW t \in Threads, NEW from, NEW to,
           Goto(t, from, to), Lock(t), to \in Critical
    PROVE  MutexOwner'
<1>1. \A u \in Threads : pc[u] \notin Critical
  BY BufferAssumption DEF MutexOwner, Lock, Threads
<1>2. \A u \in Threads : pc'[u] = IF u = t THEN to ELSE pc[u]
  BY DEF Goto, Typed
<1>3. lock' = t
  BY DEF Lock
<1> QED
  BY <1>1, <1>2, <1>3 DEF MutexOwner

\* ... and given back by the thread that has it.
LEMMA UnlockOwner ==
    ASSUME Typed, MutexOwner, NEW t \in Threads, Unlock(t)
    PROVE  MutexOwner'
<1>1. pc[t] \in Critical
  BY DEF Unlock, Goto, Critical
<1>2. \A u \in Threads : u # t => pc[u] \notin Critical
  BY <1>1 DEF MutexOwner
<1>3. \A u \in Threads : pc'[u] = IF u = t THEN "post" ELSE pc[u]
  BY DEF Unlock, Goto, Typed
<1>4. lock' = None /\ \A u \in Threads : u # None
  BY BufferAssumption DEF Unlock, Threads
<1> QED
  BY <1>2, <1>3, <1>4 DEF MutexOwner, Critical

LEMMA NextMutexOwner ==
    ASSUME Typed, MutexOwner, [Next]_vars
    PROVE  MutexOwner'
<1>1. ASSUME NEW p \in Producers, QueueStep(p) \/ \E m \in Msgs : CallQueue(p, m)
      PROVE  MutexOwner'
  <2>1. p \in Threads /\ p # None
    BY BufferAssumption DEF Threads
  <2>2. CASE WaitEmpty(p)
    BY <2>1, <2>2 DEF WaitEmpty, MutexOwner, Critical, Typed, Goto
  <2>3. CASE LockQueue(p)
    BY <2>1, <2>3, LockOwner DEF LockQueue, Critical
  <2>4. CASE Store(p)
    BY <2>1, <2>4 DEF Store, MutexOwner, Critical, Typed, Goto
  <2>5. CASE AdvanceRear(p)
    BY <2>1, <2>5 DEF AdvanceRear, MutexOwner, Critical, Typed, Goto
  <2>6. CASE Unlock(p)
    BY <2>1, <2>6, UnlockOwner
  <2>7. CASE PostFilled(p)
    BY <2>1, <2>7 DEF PostFilled, MutexOwner, Critical, Typed, Goto
  <2>8. CASE \E m \in Msgs : CallQueue(p, m)
    BY <2>1, <2>8 DEF CallQueue, MutexOwner, Critical, Typed, Goto
  <2> QED
    BY <1>1, <2>2, <2>3, <2>4, <2>5, <2>6, <2>7, <2>8 DEF QueueStep
<1>2. ASSUME NEW c \in Consumers, DequeueStep(c) \/ CallDequeue(c)
      PROVE  MutexOwner'
  <2>1. c \in Threads /\ c # None
    BY BufferAssumption DEF Threads
  <2>2. CASE WaitFilled(c)
    BY <2>1, <2>2 DEF WaitFilled, MutexOwner, Critical, Typed, Goto
  <2>3. CASE LockDequeue(c)
    BY <2>1, <2>3, LockOwner DEF LockDequeue, Critical
  <2>4. CASE Fetch(c)
    BY <2>1, <2>4 DEF Fetch, MutexOwner, Critical, Typed, Goto
  <2>5. CASE AdvanceFront(c)
    BY <2>1, <2>5 DEF AdvanceFront, MutexOwner, Critical, Typed, Goto
  <2>6. CASE Unlock(c)
    BY <2>1, <2>6, UnlockOwner
  <2>7. CASE PostEmpty(c)
    BY <2>1, <2>7 DEF PostEmpty, MutexOwner, Critical, Typed, Goto
  <2>8. CASE CallDequeue(c)
    BY <2>1, <2>8 DEF CallDequeue, MutexOwner, Critical, Typed, Goto
  <2> QED
    BY <1>2, <2>2, <2>3, <2>4, <2>5, <2>6, <2>7, <2>8 DEF DequeueStep
<1>3. CASE UNCHANGED vars
  BY <1>3 DEF vars, Threads, MutexOwner, Critical
<1> QED
  BY <1>1, <1>2, <1>3 DEF Next

\* Only the owner of the mutex is between its lock and its unlock.
LEMMA OneInCritical ==
    ASSUME MutexOwner, NEW t \in Threads, NEW u \in Threads,
           pc[t] \in Critical, pc[u] \in Critical
    PROVE  t = u
  BY DEF MutexOwner

LEMMA ProducerRingContents ==
    ASSUME IInv, NEW p \in Producers,
           QueueStep(p) \/ \E m \in Msgs : CallQueue(p, m)
    PROVE  RingContents'
<1>1. Typed /\ SemaphoreAccounting /\ MutexOwner /\ RingContents
  BY DEF IInv
<1>2. /\ p \in Threads /\ p \notin Consumers /\ Capacity \in Nat \ {0}
      /\ Producers \subseteq Threads /\ Consumers \subseteq Threads
  BY BufferAssumption DEF Threads
<1>3. CASE \E m \in Msgs : CallQueue(p, m)
  BY <1>1, <1>2, <1>3 DEF CallQueue, RingContents, Typed, Goto, ring
<1>4. CASE WaitEmpty(p)
  BY <1>1, <1>2, <1>4 DEF WaitEmpty, RingContents, Typed, Goto, ring
<1>5. CASE LockQueue(p)
  BY <1>1, <1>2, <1>5 DEF LockQueue, RingContents, Typed, Goto, ring
<1>6. CASE Unlock(p)
  BY <1>1, <1>2, <1>6 DEF Unlock, RingContents, Typed, Goto, ring
<1>7. CASE PostFilled(p)
  BY <1>1, <1>2, <1>7 DEF PostFilled, RingContents, Typed, Goto, ring
<1>8. CASE Store(p)
  <2>1. pc[p] \in Reserving /\ pc[p] \in Critical
    BY <1>8 DEF Store, Goto, Reserving, Critical
  <2>2. num \in 0 .. Capacity - 1
    BY <1>1, <2>1, RoomForProducer
  <2>3. \A u \in Threads : u # p => pc[u] \notin Critical
    BY <1>1, <1>2, <2>1, OneInCritical
  <2>4. arg[p] \in Msgs
    BY <1>1, <1>8 DEF Store, Goto, RingContents
  <2>5. /\ elem' = [elem EXCEPT ![rear] = arg[p]]
        /\ pc' = [pc EXCEPT ![p] = "stored"]
        /\ UNCHANGED <<num, front, rear, arg, r>>
    BY <1>8 DEF Store, Goto
  <2>6. \A k \in 0 .. num - 1 : SlotAfter(front, k) # rear
    <3> TAKE k \in 0 .. num - 1
    <3>1. k \in 0 .. Capacity - 1 /\ k # num
      BY <1>2, <2>2
    <3>2. rear = SlotAfter(front, num) /\ front \in Slots
      BY <1>1 DEF RingContents, Typed
    <3> QED
      BY <2>2, <3>1, <3>2, SlotsDistinct
  <2>7. \A k \in 0 .. num - 1 : elem'[SlotAfter(front, k)] \in Msgs
    BY <1>1, <2>5, <2>6 DEF RingContents, Typed
  <2>8. elem'[rear] = arg[p]
    BY <1>1, <2>5 DEF Typed
  <2>9. \A c \in Consumers : pc[c] # "taken"
    BY <1>2, <2>3 DEF Critical
  <2>10. \A q \in Producers : q # p => pc[q] # "stored"
    BY <1>2, <2>3 DEF Critical
  <2> QED
    BY <1>1, <1>2, <2>4, <2>5, <2>7, <2>8, <2>9, <2>10
    DEF RingContents, Typed, SlotAfter
<1>9. CASE AdvanceRear(p)
  <2>1. pc[p] \in Reserving /\ pc[p] \in Critical /\ pc[p] = "stored"
    BY <1>9 DEF AdvanceRear, Goto, Reserving, Critical
  <2>2. num \in 0 .. Capacity - 1
    BY <1>1, <2>1, RoomForProducer
  <2>3. \A u \in Threads : u # p => pc[u] \notin Critical
    BY <1>1, <1>2, <2>1, OneInCritical
  <2>4. elem[rear] \in Msgs
    BY <1>1, <2>1 DEF RingContents
  <2>5. /\ rear' = NextSlot(rear) /\ num' = num + 1
        /\ pc' = [pc EXCEPT ![p] = "unlock"]
        /\ UNCHANGED <<elem, front, arg, r>>
    BY <1>9 DEF AdvanceRear, Goto
  <2>6. rear' = SlotAfter(front, num + 1)
    BY <1>1, <1>2, <2>2, <2>5, NextSlotIs
    DEF RingContents, SlotAfter, Typed, Slots
  <2>7. \A k \in 0 .. num : elem[SlotAfter(front, k)] \in Msgs
    BY <1>1, <2>2, <2>4 DEF RingContents
  <2>8. \A c \in Consumers : pc[c] # "taken"
    BY <1>2, <2>3 DEF Critical
  <2>9. \A q \in Producers : q # p => pc[q] # "stored"
    BY <1>2, <2>3 DEF Critical
  <2>10. rear' = SlotAfter(front', num')
    BY <2>5, <2>6
  <2>11. \A k \in 0 .. num' - 1 : elem'[SlotAfter(front', k)] \in Msgs
    BY <2>2, <2>5, <2>7
  <2>12. \A q \in Producers : pc'[q] # "stored"
    BY <1>1, <1>2, <2>5, <2>9 DEF Typed
  <2>13. \A q \in Producers : pc'[q] # "idle" => arg'[q] \in Msgs
    BY <1>1, <1>2, <2>1, <2>5 DEF Typed, RingContents
  <2>14. \A c \in Consumers : pc'[c] = pc[c] /\ r'[c] = r[c]
    BY <1>1, <1>2, <2>5 DEF Typed
  <2> QED
    BY <1>1, <2>8, <2>10, <2>11, <2>12, <2>13, <2>14 DEF RingContents
<1> QED
  BY <1>3, <1>4, <1>5, <1>6, <1>7, <1>8, <1>9 DEF QueueStep

LEMMA ConsumerRingContents ==
    ASSUME IInv, NEW c \in Consumers, DequeueStep(c) \/ CallDequeue(c)
    PROVE  RingContents'
<1>1. Typed /\ SemaphoreAccounting /\ MutexOwner /\ RingContents
  BY DEF IInv
<1>2. /\ c \in Threads /\ c \notin Producers /\ Capacity \in Nat \ {0}
      /\ Producers \subseteq Threads /\ Consumers \subseteq Threads
  BY BufferAssumption DEF Threads
<1>3. CASE CallDequeue(c)
  BY <1>1, <1>2, <1>3 DEF CallDequeue, RingContents, Typed, Goto, ring
<1>4. CASE WaitFilled(c)
  BY <1>1, <1>2, <1>4 DEF WaitFilled, RingContents, Typed, Goto, ring
<1>5. CASE LockDequeue(c)
  BY <1>1, <1>2, <1>5 DEF LockDequeue, RingContents, Typed, Goto, ring
<1>6. CASE Unlock(c)
  BY <1>1, <1>2, <1>6 DEF Unlock, RingContents, Typed, Goto, ring
<1>7. CASE PostEmpty(c)
  BY <1>1, <1>2, <1>7 DEF PostEmpty, RingContents, Typed, Goto, ring
<1>8. CASE Fetch(c)
  <2>1. pc[c] \in Reserving /\ pc[c] \in Critical
    BY <1>8 DEF Fetch, Goto, Reserving, Critical
  <2>2. num \in 1 .. Capacity
    BY <1>1, <2>1, MessageForConsumer
  <2>3. \A u \in Threads : u # c => pc[u] \notin Critical
    BY <1>1, <1>2, <2>1, OneInCritical
  <2>4. elem[front] \in Msgs
    <3>1. SlotAfter(front, 0) = front
      BY <1>1, <1>2 DEF SlotAfter, Typed, Slots
    <3> QED
      BY <1>1, <2>2, <3>1 DEF RingContents
  <2>5. /\ r' = [r EXCEPT ![c] = elem[front]]
        /\ pc' = [pc EXCEPT ![c] = "taken"]
        /\ UNCHANGED <<elem, num, front, rear, arg>>
    BY <1>8 DEF Fetch, Goto, ring
  <2>6. \A q \in Producers : pc'[q] = pc[q]
    BY <1>1, <1>2, <2>5 DEF Typed
  <2>7. r'[c] = elem[front] /\ pc'[c] = "taken"
    BY <1>1, <1>2, <2>5 DEF Typed
  <2>8. \A d \in Consumers : d # c => pc'[d] = pc[d] /\ r'[d] = r[d]
    BY <1>1, <1>2, <2>5 DEF Typed
  <2> QED
    BY <1>1, <2>4, <2>5, <2>6, <2>7, <2>8 DEF RingContents
<1>9. CASE AdvanceFront(c)
  <2>1. pc[c] \in Reserving /\ pc[c] \in Critical /\ pc[c] = "taken"
    BY <1>9 DEF AdvanceFront, Goto, Reserving, Critical
  <2>2. num \in 1 .. Capacity
    BY <1>1, <2>1, MessageForConsumer
  <2>3. \A u \in Threads : u # c => pc[u] \notin Critical
    BY <1>1, <1>2, <2>1, OneInCritical
  <2>4. /\ front' = NextSlot(front) /\ num' = num - 1
        /\ pc' = [pc EXCEPT ![c] = "unlock"]
        /\ UNCHANGED <<elem, rear, arg, r>>
    BY <1>9 DEF AdvanceFront, Goto
  <2>5. \A k \in 0 .. num - 1 : SlotAfter(front', k) = SlotAfter(front, k + 1)
    BY <1>1, <1>2, <2>2, <2>4, SlotAfterNext DEF Typed
  <2>6. rear' = SlotAfter(front', num')
    BY <1>1, <1>2, <2>2, <2>4, <2>5 DEF RingContents
  <2>7. \A k \in 0 .. num' - 1 : elem'[SlotAfter(front', k)] \in Msgs
    BY <1>1, <2>2, <2>4, <2>5 DEF RingContents
  <2>8. \A q \in Producers : pc'[q] = pc[q]
    BY <1>1, <1>2, <2>4 DEF Typed
  <2>9. pc'[c] = "unlock" /\ \A d \in Consumers : d # c => pc'[d] = pc[d]
    BY <1>1, <1>2, <2>4 DEF Typed
  <2>10. \A d \in Consumers : pc'[d] # "taken"
    BY <1>2, <2>3, <2>9 DEF Critical
  <2> QED
    BY <1>1, <2>1, <2>4, <2>6, <2>7, <2>8, <2>9, <2>10 DEF RingContents
<1> QED
  BY <1>3, <1>4, <1>5, <1>6, <1>7, <1>8, <1>9 DEF DequeueStep

LEMMA NextIInv ==
    ASSUME IInv, [Next]_vars
    PROVE  IInv'
<1>1. Typed /\ SemaphoreAccounting /\ MutexOwner /\ RingContents
  BY DEF IInv
<1>2. Typed' /\ SemaphoreAccounting'
  BY <1>1, NextTyped
<1>3. MutexOwner'
  BY <1>1, NextMutexOwner
<1>4. RingContents'
  <2>1. CASE UNCHANGED vars
    BY <1>1, <2>1 DEF vars, RingContents, SlotAfter
  <2> QED
    BY <2>1, ProducerRingContents, ConsumerRingContents DEF Next
<1> QED
  BY <1>2, <1>3, <1>4 DEF IInv

LEMMA Invariant == Spec => []IInv
  BY InitIInv, NextIInv, PTL DEF Spec

-----------------------------------------------------------------------------
(* Theorems about the ring *)

LEMMA LiveUnchanged ==
    ASSUME IInv, [Next]_vars, NEW i \in Live
    PROVE  elem'[i] = elem[i]
<1>1. Typed /\ SemaphoreAccounting /\ RingContents
  BY DEF IInv
<1>2. CASE \E p \in Producers : Store(p)
  <2>1. PICK p \in Producers : Store(p)
    BY <1>2
  <2>2. num \in 0 .. Capacity - 1
    BY <1>1, <2>1, RoomForProducer DEF Store, Goto, Reserving
  <2>3. PICK k \in 0 .. num - 1 : i = (front + k) % Capacity
    BY DEF Live
  <2>4. k \in 0 .. Capacity - 1 /\ k # num
    BY <2>2, BufferAssumption
  <2>5. i = SlotAfter(front, k) /\ i \in Slots
    BY <1>1, <2>3, <2>4, SlotIsMod DEF Typed
  <2>6. i # rear
    BY <1>1, <2>2, <2>4, <2>5, SlotsDistinct DEF RingContents, Typed
  <2> QED
    BY <1>1, <2>1, <2>5, <2>6 DEF Store, Typed
<1>3. CASE ~ \E p \in Producers : Store(p)
  <2>1. UNCHANGED elem
    BY <1>3 DEF Next, vars, QueueStep, DequeueStep, CallQueue, WaitEmpty,
       LockQueue, AdvanceRear, Unlock, PostFilled, CallDequeue, WaitFilled,
       LockDequeue, Fetch, AdvanceFront, PostEmpty, ring
  <2> QED
    BY <2>1
<1> QED
  BY <1>2, <1>3

\* A store never hits a slot whose message has not been removed, for any
\* number of threads and any capacity (bounded_buffer_queue, Main.cpp 85).
THEOREM NeverOverwrites == Spec => NoOverwrite
<1>1. IInv /\ [Next]_vars => [\A i \in Live : elem'[i] = elem[i]]_vars
  BY LiveUnchanged
<1> QED
  BY <1>1, Invariant, PTL DEF Spec, NoOverwrite

\* The ring from front on, as a sequence.
Queue == [k \in 1 .. num |-> elem[(front + k - 1) % Capacity]]
Held == [c \in Consumers |-> IF pc[c] \in Announcing THEN r[c] ELSE None]

LEMMA QueueIs ==
    ASSUME NEW e, NEW f \in Slots, NEW n \in 0 .. Capacity
    PROVE  [k \in 1 .. n |-> e[(f + k - 1) % Capacity]] =
           [k \in 1 .. n |-> e[SlotAfter(f, k - 1)]]
<1>1. \A k \in 1 .. n : (f + k - 1) % Capacity = SlotAfter(f, k - 1)
  <2> TAKE k \in 1 .. n
  <2>1. k - 1 \in 0 .. Capacity - 1 /\ f \in Int
    BY BufferAssumption DEF Slots
  <2>2. f + k - 1 = f + (k - 1)
    BY <2>1
  <2> QED
    BY <2>1, <2>2, SlotIsMod
<1> QED
  BY <1>1

\* The steps of BoundedFifo under the refinement mapping of Fifo.
LEMMA FifoPut ==
    ASSUME NEW m
    PROVE  Fifo!Put(m) <=> /\ Len(Queue) < Capacity
                           /\ Queue' = Append(Queue, m)
                           /\ Held' = Held
  BY Zenon DEF Fifo!Put, Queue, Held

LEMMA FifoTake ==
    ASSUME NEW c
    PROVE  Fifo!Take(c) <=> /\ Queue # <<>>
                            /\ Held[c] = None
                            /\ Held' = [Held EXCEPT ![c] = Head(Queue)]
                            /\ Queue' = Tail(Queue)
  BY Zenon DEF Fifo!Take, Queue, Held

LEMMA FifoReturn ==
    ASSUME NEW c
    PROVE  Fifo!Return(c) <=> /\ Held[c] # None
                              /\ Held' = [Held EXCEPT ![c] = None]
                              /\ Queue' = Queue
  BY Zenon DEF Fifo!Return, Queue, Held

\* Advancing rear appends the stored message to the queue.
LEMMA AdvanceRearPuts ==
    ASSUME IInv, NEW p \in Producers, AdvanceRear(p)
    PROVE  \E m \in Msgs : Fifo!Put(m)
<1>1. Typed /\ SemaphoreAccounting /\ RingContents
  BY DEF IInv
<1>2. /\ pc[p] = "stored" /\ pc' = [pc EXCEPT ![p] = "unlock"]
      /\ rear' = NextSlot(rear) /\ num' = num + 1
      /\ UNCHANGED <<elem, front, arg, r>>
  BY DEF AdvanceRear, Goto
<1>3. num \in 0 .. Capacity - 1
  BY <1>1, <1>2, RoomForProducer DEF Reserving
<1>4. arg[p] \in Msgs /\ elem[SlotAfter(front, num)] = arg[p]
  BY <1>1, <1>2 DEF RingContents
<1>5. Queue = [k \in 1 .. num |-> elem[SlotAfter(front, k - 1)]]
  <2>1. front \in Slots /\ num \in 0 .. Capacity
    BY <1>1, <1>3, BufferAssumption DEF Typed
  <2> QED
    BY <2>1, QueueIs DEF Queue
<1>6. Queue' = [k \in 1 .. num + 1 |-> elem[SlotAfter(front, k - 1)]]
  <2>1. front \in Slots /\ num + 1 \in 0 .. Capacity
    BY <1>1, <1>3, BufferAssumption DEF Typed
  <2>2. Queue' = [k \in 1 .. num + 1 |-> elem[(front + k - 1) % Capacity]]
    BY <1>2 DEF Queue
  <2> QED
    BY <2>1, <2>2, QueueIs
<1>7. Queue \in Seq(Msgs) /\ Len(Queue) = num
  BY <1>1, <1>3, <1>5 DEF RingContents
<1>8. Queue' = Append(Queue, arg[p])
  BY <1>3, <1>4, <1>5, <1>6, <1>7
<1>9. Held' = Held
  <2>1. \A c \in Consumers : c # p
    BY BufferAssumption
  <2> QED
    BY <1>1, <1>2, <2>1, BufferAssumption DEF Held, Announcing, Typed, Threads
<1>10. Len(Queue) < Capacity
  BY <1>3, <1>7, BufferAssumption
<1> QED
  <2>1. PICK m \in Msgs : m = arg[p]
    BY <1>4
  <2>2. Queue' = Append(Queue, m)
    BY <1>8, <2>1
  <2>3. Fifo!Put(m)
    BY <1>9, <1>10, <2>2, FifoPut, Zenon
  <2> QED
    BY <2>3

\* Advancing front removes the head of the queue, which the consumer holds.
LEMMA AdvanceFrontTakes ==
    ASSUME IInv, NEW c \in Consumers, AdvanceFront(c)
    PROVE  Fifo!Take(c)
<1>1. Typed /\ SemaphoreAccounting /\ RingContents
  BY DEF IInv
<1>2. /\ pc[c] = "taken" /\ pc' = [pc EXCEPT ![c] = "unlock"]
      /\ front' = NextSlot(front) /\ num' = num - 1
      /\ UNCHANGED <<elem, rear, arg, r>>
  BY DEF AdvanceFront, Goto
<1>3. num \in 1 .. Capacity
  BY <1>1, <1>2, MessageForConsumer DEF Reserving
<1>4. r[c] = elem[front]
  BY <1>1, <1>2 DEF RingContents
<1>5. Queue = [k \in 1 .. num |-> elem[SlotAfter(front, k - 1)]]
  <2>1. front \in Slots /\ num \in 0 .. Capacity
    BY <1>1, <1>3, BufferAssumption DEF Typed
  <2> QED
    BY <2>1, QueueIs DEF Queue
<1>6. Queue' = [k \in 1 .. num - 1 |-> elem[SlotAfter(front, k)]]
  <2>1. front' \in Slots /\ num - 1 \in 0 .. Capacity
    BY <1>1, <1>2, <1>3, NextSlotIs, BufferAssumption DEF Typed
  <2>2. Queue' = [k \in 1 .. num - 1 |-> elem[(front' + k - 1) % Capacity]]
    BY <1>2 DEF Queue
  <2>3. Queue' = [k \in 1 .. num - 1 |-> elem[SlotAfter(front', k - 1)]]
    BY <2>1, <2>2, QueueIs
  <2>4. \A k \in 1 .. num - 1 : SlotAfter(front', k - 1) = SlotAfter(front, k)
    <3> TAKE k \in 1 .. num - 1
    <3>1. k - 1 \in 0 .. Capacity - 1 /\ k = (k - 1) + 1
      BY <1>3, BufferAssumption
    <3>2. SlotAfter(NextSlot(front), k - 1) = SlotAfter(front, (k - 1) + 1)
      BY <1>1, <3>1, SlotAfterNext DEF Typed
    <3> QED
      BY <1>2, <3>1, <3>2
  <2> QED
    BY <2>3, <2>4
<1>7. Queue \in Seq(Msgs) /\ Len(Queue) = num
  BY <1>1, <1>3, <1>5 DEF RingContents
<1>8. Queue # <<>>
  BY <1>3, <1>7
<1>9. Head(Queue) = elem[front]
  <2>1. SlotAfter(front, 0) = front
    BY <1>1, BufferAssumption DEF SlotAfter, Typed, Slots
  <2> QED
    BY <1>3, <1>5, <1>7, <2>1
<1>10. Queue' = Tail(Queue)
  <2>1. \A k \in 1 .. num - 1 : Queue[k + 1] = elem[SlotAfter(front, k)]
    BY <1>3, <1>5
  <2>2. /\ Tail(Queue) \in Seq(Msgs) /\ Len(Tail(Queue)) = num - 1
        /\ \A k \in 1 .. num - 1 : Tail(Queue)[k] = Queue[k + 1]
    BY <1>7, <1>8, HeadTailProperties
  <2>3. Tail(Queue) \in [1 .. num - 1 -> Msgs]
    BY <2>2, LenProperties
  <2> QED
    BY <1>6, <2>1, <2>2, <2>3
<1>11. Held[c] = None
  BY <1>2 DEF Held, Announcing
<1>12. Held' = [Held EXCEPT ![c] = Head(Queue)]
  <2>1. c \in Threads /\ Consumers \subseteq Threads
    BY DEF Threads
  <2>2. \A d \in Consumers : d # c => pc'[d] = pc[d]
    BY <1>1, <1>2, <2>1 DEF Typed
  <2>3. pc'[c] = "unlock"
    BY <1>1, <1>2, <2>1 DEF Typed
  <2> QED
    BY <1>2, <1>4, <1>9, <2>2, <2>3 DEF Held, Announcing
<1> QED
  BY <1>8, <1>10, <1>11, <1>12, FifoTake, Zenon

\* Any other step leaves the queue as it is.
LEMMA QueueUnchanged ==
    ASSUME IInv, [Next]_vars, UNCHANGED <<num, front>>
    PROVE  Queue' = Queue
<1>1. num \in 0 .. Capacity /\ num \in Int /\ front \in Int
  BY AccountingBounds, BufferAssumption DEF IInv, TypeOK, Slots
<1>2. \A k \in 1 .. num :
        elem'[(front + k - 1) % Capacity] = elem[(front + k - 1) % Capacity]
  <2> TAKE k \in 1 .. num
  <2>1. k - 1 \in 0 .. num - 1 /\ front + k - 1 = front + (k - 1)
    BY <1>1
  <2>2. (front + k - 1) % Capacity \in Live
    BY <2>1 DEF Live
  <2> QED
    BY <2>2, LiveUnchanged
<1> QED
  BY <1>2 DEF Queue

LEMMA ProducerRefines ==
    ASSUME IInv, NEW p \in Producers,
           QueueStep(p) \/ \E m \in Msgs : CallQueue(p, m)
    PROVE  (\E m \in Msgs : Fifo!Put(m)) \/ (Queue' = Queue /\ Held' = Held)
<1>1. CASE AdvanceRear(p)
  BY <1>1, AdvanceRearPuts
<1>2. CASE ~ AdvanceRear(p)
  <2>1. UNCHANGED <<num, front, r>>
    BY <1>2 DEF QueueStep, CallQueue, WaitEmpty, LockQueue, Store, Unlock,
       PostFilled, ring
  <2>2. \A c \in Consumers : pc'[c] = pc[c]
    <3>1. \E to : pc' = [pc EXCEPT ![p] = to]
      BY DEF QueueStep, CallQueue, WaitEmpty, LockQueue, Store, AdvanceRear,
         Unlock, PostFilled, Goto
    <3>2. pc \in [Threads -> QueuePcs \cup DequeuePcs] /\ Consumers \subseteq Threads
      BY DEF IInv, Typed, Threads
    <3>3. p \notin Consumers
      BY BufferAssumption
    <3> QED
      BY <3>1, <3>2, <3>3
  <2>3. Held' = Held
    BY <2>1, <2>2 DEF Held
  <2>4. Queue' = Queue
    BY <2>1, QueueUnchanged DEF Next
  <2> QED
    BY <2>3, <2>4
<1> QED
  BY <1>1, <1>2

LEMMA ConsumerRefines ==
    ASSUME IInv, NEW c \in Consumers, DequeueStep(c) \/ CallDequeue(c)
    PROVE  Fifo!Take(c) \/ Fifo!Return(c) \/ (Queue' = Queue /\ Held' = Held)
<1>1. Typed /\ RingContents /\ c \in Threads /\ Consumers \subseteq Threads
  BY DEF IInv, Threads
<1>2. CASE AdvanceFront(c)
  BY <1>2, AdvanceFrontTakes
<1>3. CASE ~ AdvanceFront(c)
  <2>1. UNCHANGED <<num, front>>
    BY <1>3 DEF DequeueStep, CallDequeue, WaitFilled, LockDequeue, Fetch, Unlock,
       PostEmpty, ring
  <2>2. Queue' = Queue
    BY <2>1, QueueUnchanged DEF Next
  <2>3. CASE PostEmpty(c)
    <3>1. /\ pc[c] = "post" /\ pc' = [pc EXCEPT ![c] = "idle"] /\ r' = r
          /\ r[c] \in Msgs
      BY <1>1, <2>3 DEF PostEmpty, Goto, RingContents
    <3>2. Held[c] # None
      BY <3>1, BufferAssumption DEF Held, Announcing
    <3>3. Held' = [Held EXCEPT ![c] = None]
      <4>1. \A d \in Consumers : d # c => pc'[d] = pc[d]
        BY <1>1, <3>1 DEF Typed
      <4>2. pc'[c] \notin Announcing
        BY <1>1, <3>1 DEF Typed, Announcing
      <4> QED
        BY <3>1, <4>1, <4>2 DEF Held
    <3> QED
      BY <2>2, <3>2, <3>3, FifoReturn, Zenon
  <2>4. CASE ~ PostEmpty(c)
    <3>1. \A d \in Consumers : d # c => pc'[d] = pc[d] /\ r'[d] = r[d]
      BY <1>1 DEF DequeueStep, CallDequeue, WaitFilled, LockDequeue, Fetch,
         AdvanceFront, Unlock, PostEmpty, Goto, Typed
    <3>2. \/ pc'[c] \notin Announcing /\ pc[c] \notin Announcing
          \/ pc'[c] \in Announcing /\ pc[c] \in Announcing /\ r' = r
      BY <1>1, <1>3, <2>4 DEF DequeueStep, CallDequeue, WaitFilled, LockDequeue,
         Fetch, Unlock, Goto, Typed, Announcing
    <3>3. Held' = Held
      BY <3>1, <3>2 DEF Held
    <3> QED
      BY <2>2, <3>3
  <2> QED
    BY <2>3, <2>4
<1> QED
  BY <1>2, <1>3

LEMMA InitRefines == Init => Fifo!Init
  BY BufferAssumption DEF Init, Fifo!Init, Announcing, Threads

\* The ring of bounded_buffer implements a first-in first-out queue of at most
\* Capacity messages, for any number of threads and any capacity (queue and
\* dequeue, Main.cpp 82-103).
THEOREM ImplementsFifo == Spec => IsFifo
<1>1. IInv /\ [Next]_vars => [Fifo!Next]_(Fifo!vars)
  <2> SUFFICES ASSUME IInv, [Next]_vars PROVE [Fifo!Next]_(Fifo!vars)
    OBVIOUS
  <2>1. (Queue' = Queue /\ Held' = Held) => UNCHANGED Fifo!vars
    BY DEF Fifo!vars, Queue, Held
  <2>2. CASE UNCHANGED vars
    BY <2>1, <2>2 DEF vars, Queue, Held
  <2>3. ASSUME NEW p \in Producers, QueueStep(p) \/ \E m \in Msgs : CallQueue(p, m)
        PROVE  [Fifo!Next]_(Fifo!vars)
    BY <2>1, <2>3, ProducerRefines DEF Fifo!Next
  <2>4. ASSUME NEW c \in Consumers, DequeueStep(c) \/ CallDequeue(c)
        PROVE  [Fifo!Next]_(Fifo!vars)
    BY <2>1, <2>4, ConsumerRefines DEF Fifo!Next
  <2> QED
    BY <2>2, <2>3, <2>4 DEF Next
<1> QED
  BY <1>1, InitRefines, Invariant, PTL DEF Spec, IsFifo, Fifo!Spec
=============================================================================
