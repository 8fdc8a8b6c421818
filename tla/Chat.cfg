SPECIFICATION ChatSpec
CONSTANTS
    a1 = a1
    a2 = a2
    b1 = b1
    b2 = b2
    c1 = c1
    Chunks = {a1, a2, b1, b2, c1}
    DocOf <- MCDocOf
    PageOf <- MCPageOf
    Index <- MCIndex
    Size <- MCSize
    Lists <- MCLists
    Settings <- MCSettings
    TopK = 2
    RawTopK = 3
    Variants = 2
    MaxQueries = 2
    MinDocs = 2
    MinK = 1
    MaxK = 2
    RrfK = 1
    Unit = 60
    AnchorK = 3
    CapLow = 2
    CapHigh = 3
    MaxSegment = 2
    Header = 1
    PerChunk = 3
    MaxChars = 7
CHECK_DEADLOCK FALSE
INVARIANTS
    ChatTypeOK
    ContextIsTheAnswers
    AnchorCounts
