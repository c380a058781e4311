SPECIFICATION FifoSpec
CONSTANTS
    va = va
    vb = vb
    vh = vh
    None = None
    Bonded <- MCBonded
    Stake <- MCStake
    Boots = {"genesis"}
    Fees = {TRUE}
    RejectSlots = {}
    MaxSlot = 2
    MaxView = 1
    MaxRestarts = 0
    Restarting = {}
    Impatient = {vb, vh}
    Lost = {}
    DeadSets = {{}, {va}}
PROPERTIES EverySlotCommitted
CHECK_DEADLOCK FALSE
