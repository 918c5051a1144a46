\* Two chunks with their lengths, a server that stays, nobody who stops or peeks.
CONSTANTS
    c1 = c1
    c2 = c2
    c3 = c3
    Chunks = {c1, c2}
    Size <- TwoSizes
    Unsized = {}
    MaxLen = 2
    Closes = FALSE
    Aborting = {}
    Peeking = {}
    None = None
SPECIFICATION LiveSpec
PROPERTY AllGetRead
CHECK_DEADLOCK FALSE
