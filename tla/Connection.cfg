\* Three chunks, one of which may come without its length; the server may close
\* at any time, a download may be aborted, a thread may peek.
CONSTANTS
    c1 = c1
    c2 = c2
    c3 = c3
    Chunks = {c1, c2, c3}
    Size <- ThreeSizes
    Unsized = {c3}
    MaxLen = 2
    Closes = TRUE
    Aborting = {c1}
    Peeking = {c1}
    None = None
SPECIFICATION LiveSpec
INVARIANTS OwnBytes PoppedIsComplete
PROPERTIES HangsOnlyBehindFront
CHECK_DEADLOCK FALSE
