\* The application leaves the flags of the frame before.
SPECIFICATION Spec
CONSTANTS
    Frames <- MCFrames
    KeepFlags = TRUE
    Garbage = {0, 2}
    Losses = {0, 1, 2, 3, 4}
    WrongBytes = {0, 1, 28, 93, 128, 156, 162, 170, 255}
    Checksum <- MCChecksum
    Unknown = Unknown
PROPERTIES
    DataZeroMeansNoData
CHECK_DEADLOCK FALSE
