SPECIFICATION FairSpec
CONSTANTS
    t1 = t1
    t2 = t2
    d1 = d1
    Tasks <- MCTasks
    Docs = {d1}
    DocOf <- MCDocOf
    KindOf <- UndecodableKindOf
    MaxAttempts = 1
    Prefetch = 2
    Concurrency = 1
    Slots = {s1, s2}
    Calls = {k1}
    MaxLosses = 1
    NoTask = NoTask
    NoMsg = NoMsg
CHECK_DEADLOCK FALSE
PROPERTIES
    EventuallySettled
    FinalStatusStands
