\* Six frames, of which the viewer takes five, and two snapshots.
CONSTANTS
    Total = 6
    MaxSnapshots = 2
SPECIFICATION FedSpec
PROPERTIES ReaderEnds UpdatesRun
INVARIANTS NoHalfLoaded ScreenCatchesUp
CHECK_DEADLOCK FALSE
