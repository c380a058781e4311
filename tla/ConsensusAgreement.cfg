SPECIFICATION Spec
CONSTANTS
    va = va
    vb = vb
    vh = vh
    None = None
    Bonded <- MCBonded
    Stake <- MCStake
    Boots = {"steady"}
    Fees = {FALSE}
    RejectSlots = {}
    MaxSlot = 1
    MaxView = 1
    MaxRestarts = 0
    Restarting = {}
    Impatient = {vh}
    Lost = {}
INVARIANT Agreement
