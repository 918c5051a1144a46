\* Two aborting and two reading threads; three bytes make a full block and a
\* partial one.  No symmetry, which is unsound for liveness.
CONSTANTS
    Aborters = {a1, a2}
    Readers = {r1, r2}
    Size = 3
    MaxBlock = 2
    MaxErrors = 1
SPECIFICATION LiveSpec
INVARIANTS TypeOK InOrder EndIsFinal CountMatches
PROPERTIES AbortAfterRequest AbortMeansQuiet CrashesOnlyInStart ReadReturns
           AbortHonoured
CHECK_DEADLOCK FALSE
