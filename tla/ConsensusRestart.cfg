SPECIFICATION Spec
CONSTANTS
    va = va
    vb = vb
    vh = vh
    None = None
    Bonded <- MCBonded
    Stake <- MCStake
    Boots = {"genesis"}
    Fees = {TRUE}
    RejectSlots = {}
    MaxSlot = 3
    MaxView = 0
    MaxRestarts = 1
    Restarting = {va, vb, vh}
    Impatient = {vh}
    Lost <- MCLostConfirms
INVARIANT NoGap
CHECK_DEADLOCK FALSE
