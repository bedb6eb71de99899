\* Two clients at once on one save: whose save is delivered?
SPECIFICATION Spec
CONSTANTS
    Jobs = {j1, j2}
    j1 = j1
    j2 = j2
    s1 = s1
    Saves = {s1}
    NoJob = NoJob
    Line = Line
    Preexisting = {}
    Conn <- OneJobEach
    UmountRetries = 1
INVARIANT OwnContent
CHECK_DEADLOCK FALSE
