SPECIFICATION Spec
CONSTANTS
    a1 = a1
    a2 = a2
    b1 = b1
    Chunks = {a1, a2, b1}
    DocOf <- MCDocOf
    Reasons = {"rerank", "gate_error"}
    Replies <- MCReplies
    Options <- MCOptions
    Modes = {"hybrid", "bm25"}
    FactMax = 2
    MergeCap = 2
    RetryCap = 3
    BlockLimit = 2
    MinHits = 2
    MinScore = 2
    RetryQueries = 2
    ToolRounds = 2
CHECK_DEADLOCK FALSE
INVARIANTS
    TypeOK
    OneEnding
    CallsBounded
    CitationsAgree
    DoneIsOnePass
