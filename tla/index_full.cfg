SPECIFICATION FairSpec
CHECK_DEADLOCK FALSE
CONSTANTS
    Tasks = 2
    PipeSize = 1
    Spills = 1
    Batch = 2
    Order = 3
    Shards = 2
    Home <- FirstWord
    Capacity = 1
    Chunk = 2
    Inputs <- OnlyRuns
PROPERTIES
    Termination
