SPECIFICATION Spec
CONSTANTS
    d1 = d1
    d2 = d2
    d3 = d3
    d4 = d4
    Docs = {d1, d2, d3, d4}
    Stored <- MCStored
    Young = {d1}
    Stubborn = {d4}
    BatchSize = 2
    MaxBatches = 3
    MaxFaults = 1
    Alone = Alone
    NoDoc = NoDoc
CHECK_DEADLOCK FALSE
INVARIANTS
    TypeOK
    CleanIsGone
    OrphansReported
    SearchSeesNone
PROPERTY
    Answered
