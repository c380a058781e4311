SPECIFICATION Spec
CONSTANTS
    ta = ta
    tb = tb
    tc = tc
    Order <- MCOrder
    Resent = {tc}
    Needs <- MCNeeds
    Rejects = {tb}
    Spoiled = {ta, tb}
    Impatient = {tb}
    Buffer = 1
    Window = 2
    MaxPerProof = 1
    Slack = 0
    MaxLag = 2
    MaxBlocks = 5
    MaxRestarts = 1
    MaxLost = 2
INVARIANTS
    NeverBails
    HistoryIsSpeculation
    FirstIsProved
CHECK_DEADLOCK FALSE
