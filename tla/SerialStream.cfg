SPECIFICATION FairSpec
CONSTANTS
    PacketBytes = 2
    ReplyBytes = 1
    MaxPackets = 4
    DmaBufferSize = 3
    NumPacketBuffers = 3
    Scenarios <- Everything
    StackReuse = TRUE
INVARIANTS
    TypeOK
    BuffersAlternate
    SplicedFromLost
    WaitingHostNotRefused
PROPERTIES
    QueuesAreServed
    WaitingHostIsAnswered
    InOrder
CHECK_DEADLOCK FALSE
