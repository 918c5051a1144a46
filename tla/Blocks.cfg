\* Two callers; blocks of one and two bytes, so that a call may end in the middle
\* of a block, at its end, or behind the last one.  Peeks start at the front.
CONSTANTS
    Callers = {c1, c2}
    MaxBytes = 4
    MaxBlock = 2
    Lengths = {1, 3}
    Offsets = {0}
    Positions = {1}
    NoCall = NoCall
SPECIFICATION LiveSpec
INVARIANT LengthIsExact
PROPERTIES IsByteQueue WaitsForData
