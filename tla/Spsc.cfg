SPECIFICATION Spec
CONSTANTS
    Capacity = 4
    Uses <- BothUses
    MaxPush = 9
INVARIANTS
    QueueInv
    NoSlotRace
    OldestFirst
PROPERTY
    ImplementsFifo
