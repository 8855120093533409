SPECIFICATION ArpaPartsSpec
CONSTANTS
    Shard = {0, 1}
    Word <- ArpaWords
    Order = 4
    Nodes <- ArpaNodes
    Home <- ArpaHome
    Bos = "<s>"
    Unk = "<unk>"
    Backward = TRUE
    Arpa <- ArpaFile
    Spelling <- ArpaSpelling
    logprobs <- ArpaLogprobs
    backoffs <- ArpaBackoffs
    logprob_min <- Minimum
    logprob_bos <- Bos99
    logprob_srilm_min <- Bos99
    Codes = 4
    Capacity = 2
    BufferSize = 2
    Spoken = {"a", "b", "d", "x"}
    MaxWords = 5
    MaxParts = 3
    LowShard = {0, 1}
    Start = "<s>"
    Unknown = "<unk>"
    LowHome <- SmallHome
    Corpora <- SmallCorpora
    Remains <- Memory
    MaxRounds = 2
    Options <- SomeOptions
    Editions = 2
    Invocations = 2
INVARIANTS
    BoundsTight
    ArpaRead
    ArpaDumped
    QuantizedRight
    ScoreRight
    SuffixRight
    DiscountsRight
    SumsToOne
    PipelineRight
