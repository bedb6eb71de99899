\* Two commands one after the other on one connection and one save.
SPECIFICATION Spec
CONSTANTS
    Jobs = {j1, j2}
    j1 = j1
    j2 = j2
    s1 = s1
    Saves = {s1}
    NoJob = NoJob
    Line = Line
    Preexisting = {s1}
    Conn <- OneLine
    UmountRetries = 2
INVARIANT OwnContent
INVARIANT ZipsUnmounted
PROPERTY JobEnds
CHECK_DEADLOCK FALSE
