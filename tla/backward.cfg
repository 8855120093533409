SPECIFICATION BackwardPartsSpec
CONSTANTS
    Shard = {0, 1}
    Word <- TextWords
    Order = 4
    Nodes <- TextNodes
    Home <- TextHome
    Bos = "<s>"
    Backward = FALSE
    logprobs <- TextLogprobs
    backoffs <- TextBackoffs
    logprob_min <- Never
    Capacity = 2
    BufferSize = 2
    p1 = p1
    p2 = p2
    c1 = c1
    c2 = c2
    Producer = {p1, p2}
    Consumer = {c1, c2}
    Work <- Meetings
    MaxSize = 1
    Node0 = n0
    Node1 = n1
    Node = {n0, n1, a, b, c}
    Null = Null
    CountWidth = 5
    ShardDir = {"ngram-0", "ngram-1"}
    Root = "ngram-0"
    Main = "main"
    VectorFiles = {"prop.list", "data"}
    Jobs <- Writings
    Highest = 2
    Half = 1
    BlockBytes = 2
    HighBlocks = 3
    CacheSlots = 2
    SinkBuffer = 2
    MaxBits = 18
    MaxRuns = 5
    MaxAsked = 5
    MaxPacked = 5
    MaxCoded = 18
    MaxDifferent = 3
    Packable <- PackableValues
    Codable = {0, 3, 4, 17, 40, 70}
SYMMETRY Memory
INVARIANTS
    BoundsTight
    BackwardRight
    EndsForPrunedOnly
    MemoryKept
    OpensRight
    WrittenWhole
    WaitsEnd
    PackedDataRight
PROPERTIES
    ImplementsFifo
