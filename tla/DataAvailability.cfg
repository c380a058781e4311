SPECIFICATION Spec
CONSTANTS
    MaxHeight = 2
    MaxPast = 1
    MaxFaults = 1
INVARIANTS
    StoreIsAChain
    NodeStateFollows
    CatchupReachesMempool
PROPERTIES
    ListenerCatchesUp
CHECK_DEADLOCK FALSE
