SPECIFICATION Spec
CONSTANTS
    s1 = s1
    s2 = s2
    s3 = s3
    x1 = x1
    x2 = x2
    d1 = d1
    Docs = {d1}
    Requests <- MCRequests
    DocOf <- MCDocOf
    KindOf <- MCKindOf
    Backend = "s3"
    HandsStream = TRUE
    Faulty = TRUE
    MaxCrashes = 1
    Old = Old
    NoVersion = NoVersion
SYMMETRY RequestSymmetry
CHECK_DEADLOCK FALSE
INVARIANTS
    TypeOK
    RowHasBytes
    NoLeak
    RowMatchesBytes
