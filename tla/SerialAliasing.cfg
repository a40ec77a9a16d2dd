SPECIFICATION Spec
CONSTANTS
    PacketBytes = 2
    ReplyBytes = 1
    MaxPackets = 4
    DmaBufferSize = 3
    NumPacketBuffers = 3
    Scenarios <- CleanStream
    StackReuse = FALSE
INVARIANT
    GivenPacketStays
CHECK_DEADLOCK FALSE
