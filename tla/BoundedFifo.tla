---------------------------- MODULE BoundedFifo ----------------------------
(***************************************************************************)
(* What a bounded buffer promises its callers: a first-in first-out queue  *)
(* of at most Capacity messages.  A message a consumer has removed stays   *)
(* in held until the call that removed it returns.                         *)
(***************************************************************************)
EXTENDS Naturals, Sequences

CONSTANTS
    Consumers,      \* the threads that dequeue
    Msgs,           \* the messages that are queued
    Capacity,       \* the number of messages the buffer can keep
    None            \* no message

VARIABLES
    queue,          \* the messages queued and not yet removed, oldest first
    held            \* the message a consumer has removed and not yet returned

vars == <<queue, held>>

Init ==
    /\ queue = <<>>
    /\ held = [c \in Consumers |-> None]

\* A call of bounded_buffer_queue takes effect.
Put(m) ==
    /\ Len(queue) < Capacity
    /\ queue' = Append(queue, m)
    /\ UNCHANGED held

\* A call of bounded_buffer_dequeue takes effect: it gets the oldest message.
Take(c) ==
    /\ queue # <<>>
    /\ held[c] = None
    /\ held' = [held EXCEPT ![c] = Head(queue)]
    /\ queue' = Tail(queue)

\* That call returns.
Return(c) ==
    /\ held[c] # None
    /\ held' = [held EXCEPT ![c] = None]
    /\ UNCHANGED queue

Next ==
    \/ \E m \in Msgs : Put(m)
    \/ \E c \in Consumers : Take(c) \/ Return(c)

Spec == Init /\ [][Next]_vars
=============================================================================
