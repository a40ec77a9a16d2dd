SPECIFICATION LinkSpec
CONSTANTS
    ByteBits = 2
    HeaderByte = 3
    FooterByte = 1
    EscapeByte = 2
    HeaderSize = 2
    LengthSize = 2
    FooterSize = 2
    LittleEndian = TRUE
    MaxPacketSize = 3
    ChunkSize = 2
    EccSize = 1
    Framings <- WellFormed
INVARIANT
    BufferWithinCapacity
CHECK_DEADLOCK FALSE
