SPECIFICATION Spec
CONSTANTS
    ModuleOrder <- MCModuleOrder
    QueryBuffer = 3
    Capacity = 1
    Bounds <- MCBounds
INVARIANTS
    TablesTellChain
    BlocksAreWhole
    ReplicaFollows
    NoOneCutOff
PROPERTIES
    Ends
CHECK_DEADLOCK FALSE
