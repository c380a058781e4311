SPECIFICATION Spec
CONSTANTS
    o = o
    a = a
    reg = reg
    prf = prf
    Nodes = {o, a}
    Op = o
    Setups <- MCSetups
    Txs = {reg, prf}
    Kind <- MCKind
    BatchSize = 1
    MaxQueue = 1
    MaxSlot = 2
    MaxLane = 2
INVARIANTS
    CutsGrow
    SignersHeld
    BlocksAreSegments
    NoSlotForgotten
    OperatorCanServe
CHECK_DEADLOCK FALSE
