SPECIFICATION Spec
CONSTANTS
    BlockSize = 2
    MaxNodes = 3
    MaxElements = 6
    v1 = v1
    v2 = v2
    Values <- MCValues
    Operations = {"push_back", "pop_front"}
    Beyond = TRUE
    Reservations = {3}
    SizeModulus = 4
SYMMETRY ValueSymmetry
CHECK_DEADLOCK FALSE
PROPERTY
    ImplementsQueue
