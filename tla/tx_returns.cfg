\* A synchronous WritePacket over any stream; an application that keeps sending.
SPECIFICATION SchedulerSpec
CONSTANTS
    Byte <- MCByte
    Packets <- MCTwoPackets
    MaxPacketSizes = {0, 1, 2}
    OutcomePacketDelays = {0, 1}
    TimeoutDelays = {2}
    Horizon = 2
    Depth = 2
    RefuseWhenIdle = TRUE
PROPERTIES
    WritePacketReturns
    WritePacketReturnsAnyway
    StreamRecoversByTxComplete
