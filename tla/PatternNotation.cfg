SPECIFICATION Spec
CONSTANTS
    Lengths = {1, 9, 30}
    Offered <- MCOffered
    MaxOps <- MCMaxOps
    Packets <- MCPackets
    MaxStackSize = 3
    SizeModulus = 256
CHECK_DEADLOCK FALSE
INVARIANTS
    TypeOK
    ConditionAsMeant
    AcceptsFormulas
    OperandsThere
    MatchIsFormula
    RejectedLeavesNothing
