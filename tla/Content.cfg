\* Up to nineteen frames, so that none to three segments come out, of five to
\* nine frames each; all frames, or every second one.
CONSTANTS
    Qualities = {low, high}
    MaxFrames = 19
    FirstFrames = {1, 1051}
    MaxRuns = 2
    Rates = {15, 30}
    MaxRate = 30
    FRAME_PER_SEG = 5
    MaxSize = 2
SPECIFICATION Spec
INVARIANTS SegmentLength SegmentsTile BandwidthIsPeak
CHECK_DEADLOCK FALSE
