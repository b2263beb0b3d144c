\* The application writes the flags of every frame anew.
SPECIFICATION Spec
CONSTANTS
    Frames <- MCFrames
    KeepFlags = FALSE
    Garbage = {0, 2}
    Losses = {0, 1, 2, 3, 4}
    WrongBytes = {0, 1, 28, 93, 128, 156, 162, 170, 255}
    Checksum <- MCChecksum
    Unknown = Unknown
INVARIANTS
    TypeOK
    BuffersHold
    WrongByteIsRefused
PROPERTIES
    OverrunCauses
    IntactIsAccepted
    FrameChannelSpec
CHECK_DEADLOCK FALSE
