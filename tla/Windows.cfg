SPECIFICATION Spec
CONSTANTS
    Jobs <- MCJobs
    Slack = 2
    MaxChunks = 20
CHECK_DEADLOCK FALSE
INVARIANTS
    TypeOK
    LossAccounted
    ChunkSizes
PROPERTIES
    Advances
