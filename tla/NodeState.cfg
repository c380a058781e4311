SPECIFICATION Spec
CONSTANTS
    Names <- MCNames
    Parent <- MCParent
    Native <- MCNative
    Genesis <- MCGenesis
    Txs = {1, 2, 3, 4}
    Batches <- MCBatches
    DefaultWindow = 2
    ForkHeight = 2
    MaxHeight = 4
    MaxWindow = 2
    MaxArrivals = 3
    MaxProofs = 1
INVARIANTS Coherent BlockTellsContracts NextAreTimed SettledUntilDone
PROPERTIES LoopsEnd ImplementsSequencing
CHECK_DEADLOCK FALSE
