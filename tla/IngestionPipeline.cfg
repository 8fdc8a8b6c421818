SPECIFICATION Spec
CONSTANTS
    long = long
    short = short
    blank = blank
    del = del
    d1 = d1
    Tasks <- MCTasks
    Docs = {d1}
    DocOf <- MCDocOf
    KindOf <- MCKindOf
    Pieces <- MCPieces
    StorageAnswers = {"stored", "not_stored", "raised"}
    r1 = r1
    r2 = r2
    Runs <- MCRuns
    MaxStarts = 3
    NoTask = NoTask
SYMMETRY RunSymmetry
CONSTRAINT Bounds
CHECK_DEADLOCK FALSE
INVARIANTS
    TypeOK
    OrphansExplained
    DoneServesRow
PROPERTIES
    NoStepBack
