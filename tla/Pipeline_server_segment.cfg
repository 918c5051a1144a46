\* The client's constants, and a segment as createContent.sh makes it.
CONSTANTS
    Bins = 1
    Qualities = {"Low"}
    Lowest = "Low"
    FramesPerSegment = 5
    PlyPerBin = 10
    PlyPerDirectory = 5
    Capacity = 100
    MaxFailures = 0
SPECIFICATION LiveSpec
PROPERTY SegmentIsDecoded
CHECK_DEADLOCK FALSE
