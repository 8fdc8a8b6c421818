SPECIFICATION Spec
CONSTANTS
    t1 = t1
    t2 = t2
    d1 = d1
    Tasks <- MCTasks
    Docs = {d1}
    DocOf <- MCDocOf
    KindOf <- UnknownKindOf
    MaxAttempts = 1
    Prefetch = 2
    Concurrency = 2
    Slots = {s1, s2}
    Calls = {}
    MaxLosses = 1
    NoTask = NoTask
    NoMsg = NoMsg
CHECK_DEADLOCK FALSE
INVARIANTS
    TypeOK
    AcceptedNotLost
    DeadOnlyAfterAllAttempts
    DoneIsTrue
    OneCopyUntilLoss
PROPERTIES
    ImplementsLedger
