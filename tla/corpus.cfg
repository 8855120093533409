SPECIFICATION FairSpec
CONSTANTS
    Tasks = 2
    PipeSize = 1
    Spills = 1
    Batch = 2
    Order = 3
    Shards = 2
    Home <- FirstWord
    Capacity = 4
    Chunk = 2
    Inputs <- Ending
INVARIANTS
    ExtractedRight
    IndexComplete
PROPERTIES
    Termination
