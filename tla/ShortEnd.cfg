SPECIFICATION Spec
CONSTANTS
    Jobs <- MCShortEnd
    Slack = 2
    MaxChunks = 20
CHECK_DEADLOCK FALSE
PROPERTIES
    MovesForward
