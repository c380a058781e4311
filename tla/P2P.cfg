SPECIFICATION Spec
CONSTANTS
    n1 = 1
    n2 = 2
    Nodes <- MCNodes
    Configured <- MCNodes
    Senders = {1}
    MaxConns = 3
    MaxTasks = 2
    MaxSends = 2
    MaxFaults = 1
INVARIANTS
    PeersAgree
PROPERTIES
    InOrder
CHECK_DEADLOCK FALSE
