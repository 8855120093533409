SPECIFICATION FairSpec
CONSTANTS
    Shard = {0, 1}
    Word <- Words
    Order = 4
    Nodes <- NodesHere
    Home <- Homes
    Unseen <- UnseenHere
    Rawless = {}
    Removed = {"UNK"}
    QueueMax = 1
INVARIANTS
    AnswersSequential
    EstimateComplete
PROPERTIES
    Termination
