\* An application that keeps sending over a stream that works.
SPECIFICATION BusySpec
CONSTANTS
    Byte <- MCByte
    Packets <- MCTwoPackets
    MaxPacketSizes = {1}
    OutcomePacketDelays = {1}
    TimeoutDelays = {2}
    Horizon = 2
    Depth = 1
    RefuseWhenIdle = FALSE
PROPERTIES
    StreamRecovers
