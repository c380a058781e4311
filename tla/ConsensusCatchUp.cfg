SPECIFICATION Spec
CONSTANTS
    va = va
    vb = vb
    vh = vh
    None = None
    Bonded <- MCBonded
    Stake <- MCStake
    Boots = {"steady"}
    Fees = {TRUE, FALSE}
    RejectSlots = {2}
    MaxSlot = 2
    MaxView = 1
    MaxRestarts = 0
    Restarting = {}
    Impatient = {vh}
    Lost <- MCLostCommits
INVARIANTS OneProposalPerView ForcedCommitsAreCertified
