\* Whole calls, round the end of the buffer too.
SPECIFICATION Spec
CONSTANTS
    Byte <- OneByte
    Garbage = Garbage
    Data <- OneByteData
    BufferSizes = {2, 4}
    DefaultSize = 3
    MaxSizes = {1, 3}
    IncomePacketDelays = {0, 1}
    TimeoutDelay = 2
    Horizon = 2
    Uses <- Polled
INVARIANTS
    TypeOK
    SizeInRange
CHECK_DEADLOCK FALSE
