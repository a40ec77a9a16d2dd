SPECIFICATION Spec
CONSTANTS
    Capacity = 3
    Priority <- Priorities
    Printers <- Shell
    Scenarios <- All
    MaxLogged = 5
INVARIANTS
    TypeOK
    OneInside
    UnreadCounted
PROPERTIES
    NewestNext
    EveryCallReturns
CHECK_DEADLOCK FALSE
