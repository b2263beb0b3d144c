\* Settings fixed before the first packet; every mode of flow control.
SPECIFICATION Spec
CONSTANTS
    Byte <- MCByte
    Packets <- MCPackets
    MaxPacketSizes = {0, 1, 2}
    OutcomePacketDelays = {0, 1, 2}
    TimeoutDelays = {1, 4}
    Horizon = 4
    Depth = 3
    RefuseWhenIdle = TRUE
INVARIANTS
    TypeOK
    DeliveredPrefix
    OneChunkInFlight
    TwoChunksAtMost
    NoLostCompletion
PROPERTIES
    EndIsReported
    ChunksArePaced
    TimeoutNotPremature
