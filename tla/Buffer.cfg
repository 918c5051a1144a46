\* Two threads at each end of a ring of two slots: the smallest instance in
\* which both ends contend for the mutex and the indices wrap.
CONSTANTS
    Producers = {p1, p2}
    Consumers = {c1, c2}
    Capacity = 2
    Msgs = {m1, m2}
    None = None
SPECIFICATION LiveSpec
INVARIANTS TypeOK SemaphoreAccounting
PROPERTIES NoOverwrite IsFifo DequeueReturns QueueReturns
