SPECIFICATION LookupSpec
CONSTANTS
    Thread = {t1, t2}
    Questions <- ThreeContexts
    Child <- ThreeContextsChild
    NoChild = NoChild
    Reader = {t1, t2}
    Vocabulary <- LookupVocabulary
    EMPTY = ""
    UNK = "<unk>"
    Spellings <- LookupSpellings
    Identifiers = {2, 4, 5}
    Slots = 1
    Bins = 2
    Bin <- LookupBin
    WordHash <- LookupHash
    FirstBins = 1
    ChunkSize = 2
    Locker = {l1, l2, l3}
    Tickets = 4
INVARIANTS
    AnswersRight
