SPECIFICATION Spec
CONSTANTS
    va = va
    vb = vb
    vh = vh
    None = None
    Bonded <- MCBonded
    Stake <- MCStake
    Boots = {"steady"}
    Fees = {TRUE, FALSE}
    RejectSlots = {}
    MaxSlot = 1
    MaxView = 1
    MaxRestarts = 0
    Restarting = {}
    Impatient = {vh}
    Lost <- MCLostViews
INVARIANTS ReproposesCertified CertifiedCommits ViewChangesAreCertified
PROPERTY CommitStream
