SPECIFICATION Spec
CONSTANTS
    u1 = u1
    u2 = u2
    u3 = u3
    x1 = x1
    x2 = x2
    c0 = c0
    c1 = c1
    Chunks <- MCChunks
    Requests <- MCRequests
    KindOf <- MCKindOf
    Targets <- MCTargets
    Refreshing = {u1, x1}
    MaxFaulty = 1
    NoVersion = NoVersion
CONSTRAINT EmptyFirst
CHECK_DEADLOCK FALSE
INVARIANTS
    TypeOK
    LatestServed
    DeletedGone
