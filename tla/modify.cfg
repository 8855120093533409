SPECIFICATION ModifyMPIFairSpec
CONSTANTS
    Shard = {0, 1}
    Word <- TrigramWords
    Order = 3
    Nodes <- TrigramNodes
    Home <- TrigramHome
    Bos = "<s>"
    counts <- TrigramCounts
    Mapper = {0, 1}
    Reducers = 2
    To <- Targets
    Capacity = 1
    BufferSize = 2
INVARIANTS
    StoppedHasAll
    InsideCounts
    ModifiedCounts
    DumpRight
PROPERTIES
    ModifyEnds
