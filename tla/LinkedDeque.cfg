SPECIFICATION Spec
CONSTANTS
    BlockSize = 4
    MaxNodes = 3
    MaxElements = 4
    v1 = v1
    v2 = v2
    Values <- MCValues
    Operations = {"push_front", "push_back", "pop_front", "pop_back", "reserve"}
    Beyond = FALSE
    Reservations = {3}
    SizeModulus = 4
SYMMETRY ValueSymmetry
CHECK_DEADLOCK FALSE
INVARIANTS
    TypeOK
    NothingLeaked
PROPERTY
    ImplementsDeque
