\* Whole calls, round the end of the buffer.
SPECIFICATION Spec
CONSTANTS
    Byte <- MCByte
    Garbage = Garbage
    Data <- MCData
    BufferSizes = {}
    DefaultSize = 3
    MaxSizes = {1, 3}
    IncomePacketDelays = {0, 1}
    TimeoutDelay = 2
    Horizon = 2
    Uses <- PolledStream
PROPERTIES
    ChannelSpec
CHECK_DEADLOCK FALSE
