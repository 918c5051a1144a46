\* Two segments of two directories of two frames: a decoder can outrun the poll,
\* and the downloader of the second segment can end while the first segment is
\* being decoded.
CONSTANTS
    Bins = 2
    Qualities = {"Low", "High"}
    Lowest = "Low"
    FramesPerSegment = 4
    PlyPerBin = 4
    PlyPerDirectory = 2
    Capacity = 8
    MaxFailures = 1
SPECIFICATION LiveSpec
INVARIANTS TypeOK FrameInOnePlace FinishedIsComplete OneDecoder PlaybackOrder
           BinAccounted AdvisedQuality RoomForAll
PROPERTY DecodesUnlessOutrun
CHECK_DEADLOCK FALSE
