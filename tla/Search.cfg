SPECIFICATION SearchSpec
CONSTANTS
    c1 = c1
    c2 = c2
    c3 = c3
    c4 = c4
    Hits = {c1, c2, c3, c4}
    DocOf <- MCDocOf
    PageOf <- MCPageOf
    NoPage = NoPage
    Queries <- MCQueries
    Answers <- MCAnswers
    RerankScores = {0, 3}
    TopK = 2
    Candidates = 3
    RerankMax = 2
    MaxPerDoc = 1
    MinK = 1
    MaxK = 2
    MaxIntersection = 0
    RrfK = 1
    Unit = 12
    Weight <- MCWeight
CHECK_DEADLOCK FALSE
INVARIANTS
    SearchTypeOK
    AgreementKept
    Limits
    CutsKeepTheBest
