\* One thread aborts a download by libcurl.
CONSTANTS
    Aborters = {a1}
    Readers = {r1}
    Size = 3
    MaxBlock = 2
    MaxErrors = 0
SPECIFICATION LiveSpec
PROPERTY AbortReturns
CHECK_DEADLOCK FALSE
