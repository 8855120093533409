SPECIFICATION ArpaPartsSpec
CONSTANTS
    Shard = {0, 1}
    Word <- BigramWords
    Order = 2
    Nodes <- BigramNodes
    Home <- BigramHome
    Bos = "<s>"
    Unk = "<unk>"
    Backward = TRUE
    Arpa <- BigramFile
    Spelling <- BigramSpelling
    logprobs <- BigramLogprobs
    backoffs <- BigramBackoffs
    logprob_min <- Minimum
    logprob_bos <- Bos99
    logprob_srilm_min <- Bos99
    Codes = 4
    Capacity = 2
    BufferSize = 2
    Spoken = {"a", "b"}
    MaxWords = 3
    MaxParts = 2
    LowShard = {0, 1}
    Start = "<s>"
    Unknown = "<unk>"
    LowHome <- SmallHome
    Corpora <- SmallCorpora
    Remains <- Memory
    MaxRounds = 2
    Options <- SomeOptions
    Editions = 2
    Invocations = 2
INVARIANTS
    CompleteRight
