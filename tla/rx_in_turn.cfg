\* The stream stays within the buffer between two flushes; an observer on the wire.
SPECIFICATION BurstInTurnSpec
CONSTANTS
    Byte <- MCByte
    Garbage = Garbage
    Data <- MCData
    BufferSizes = {4}
    DefaultSize = 3
    MaxSizes = {1, 3}
    IncomePacketDelays = {0, 1}
    TimeoutDelay = 2
    Horizon = 2
    Uses <- PolledOrStream
INVARIANTS
    OneBurst
PROPERTIES
    ChannelSpec
    ReadAllStaysDefined
