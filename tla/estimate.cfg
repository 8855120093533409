SPECIFICATION FairSpec
CONSTANTS
    Shard = {0, 1}
    Word <- CycleWords
    Order = 5
    Nodes <- CycleNodes
    Home <- CycleHome
    Unseen <- CycleUnseen
    Removed = {"UNK"}
    MaxPass = 2
INVARIANTS
    LowersSequential
    EstimateComplete
PROPERTIES
    SeenNeverWritten
    ImplementsEstimateOrder
    Termination
