\* Up to three calls of one script one after the other on one connection, and one save.
SPECIFICATION TurnsSpec
CONSTANTS
    Jobs = {j1, j2, j3}
    j1 = j1
    j2 = j2
    j3 = j3
    s1 = s1
    Saves = {s1}
    NoJob = NoJob
    Line = Line
    Preexisting = {}
    Conn <- OneLine
    UmountRetries = 1
INVARIANT DialogueTypeOK
INVARIANT NoFalseSuccess
INVARIANT MisreadOnly
INVARIANT NoLeftover
INVARIANT StuckOnly
PROPERTY CallEnds
CHECK_DEADLOCK FALSE
