\* Settings calls at any moment, a StreamWrite call in progress included.
SPECIFICATION ReconfigureSpec
CONSTANTS
    Byte <- MCByte
    Packets <- MCTwoPackets
    MaxPacketSizes = {1, 2}
    OutcomePacketDelays = {0, 1}
    TimeoutDelays = {2}
    Horizon = 2
    Depth = 2
    RefuseWhenIdle = TRUE
INVARIANTS
    DeliveredPrefix
PROPERTIES
    SenderSpec
CHECK_DEADLOCK FALSE
