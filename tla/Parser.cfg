\* Two names: an element can be in one of its own name, and in one that is in
\* one of its own name.  Six events.
CONSTANTS
    Names = {"Period", "MPD"}
    MaxEvents = 6
SPECIFICATION Spec
INVARIANTS InStep TreeIsDocument
PROPERTY ParseReturns
CHECK_DEADLOCK FALSE
