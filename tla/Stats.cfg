SPECIFICATION Spec
CONSTANTS
    Names <- SomeNames
    Scenarios <- AllUses
    PatternIds = {1, 2, 3}
    PacketLens = {0, 1}
    Bytes = {0, 1}
    Radix = 2
    Chunk = 1
    MaxPacket = 2
    MaxQueue = 0
    MaxKept = 1
INVARIANTS
    TypeOK
    PatternsOwned
    AcceptedKept
    RefusedOnlyWhenFull
PROPERTIES
    EveryCallReturns
CHECK_DEADLOCK FALSE
