SPECIFICATION Spec
CONSTANTS
    None = None
    Tokens <- MCTokens
    Users <- MCUsers
    Validators = {"pk1", "pk2", "pk3", "pk4"}
    Lanes = {"pk1", "pk4"}
    TotalSupply = 20
    MinStake = 1
    Amounts = {1, 2}
    MaxSteps = 3
    MaxSize = 2
    Stakers <- MCStakers
    Others = {}
    Key <- MCKey
    KeyOrder <- MCKeyOrder
    StakeOf <- MCStakeOf
    FeeDeposit = 1
    MaxCrashes = 1
    Setup <- MCSetup
    Accounts = {"faucet@hydentity", "bob"}
    FaucetId = "faucet@hydentity"
    Supply = 2
    SmtAmounts = {0, 1, 2}
    MaxBlobs = 3
    NoMeta = NoMeta
    Names = {"hyli", "bob"}
    Hashes = {"hash"}
    SessionKeys = {"key"}
    InviteKeys = {"invite"}
    DefaultKey = "default"
    LaneIds = {"l1", "l2"}
    Times = {1, 2}
    KeyTerms <- MCKeyTerms
    Nonces = {1}
    MaxWalletBlobs = 3
    Absent = Absent
    Holders = {"alice", "bob"}
    HistoryTxs <- MCHistoryTxs
    MaxTokenBlocks = 4
    MaxTokenSends = 3
    Passports <- MCPassports
    MaxAppTxs = 2
    MaxIntruders = 1
    CharBits = 2
    CornerBits = 8
    BorderBits = 7
    Marker <- MCMarker
    Chunk = 5
    Parts = 2
    Samples = 2
    Scene <- MCScene
    CidOf <- MCCidOf
    FrameCounts = {0, 1, 2}
    NoProof = 0
CHECK_DEADLOCK FALSE
INVARIANTS
    Backed
    OneGenesis
    CircuitsAgree
    HistoryTellsChain
    AppStatesTell
    VideoTellsProof
