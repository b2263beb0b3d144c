\* Two adapters, and pauses that separate the chunks.
SPECIFICATION LinkSpec
CONSTANTS
    Byte <- MCByte
    Packets <- MCPackets
    MaxPacketSizes = {2}
    OutcomePacketDelays = {2}
    TimeoutDelays = {4}
    Horizon = 4
    Depth = 2
    RefuseWhenIdle = FALSE
    Garbage = Garbage
    DefaultSize = 3
    MaxSizes = {2}
    IncomePacketDelays = {0}
    ReadTimeout = 1
    Latency = 1
INVARIANT LinkTypeOK
INVARIANT RoomForTheNext
PROPERTY ReadsWholeChunks
