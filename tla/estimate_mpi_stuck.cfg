SPECIFICATION FairSpec
CONSTANTS
    Shard = {0, 1}
    Word <- StuckWords
    Order = 4
    Nodes <- StuckNodes
    Home <- StuckHomes
    Unseen = {}
    Rawless = {}
    Removed = {}
    QueueMax = 1
PROPERTIES
    Termination
CHECK_DEADLOCK FALSE
