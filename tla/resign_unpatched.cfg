\* One resign: is a failed patch of param.sfo noticed?
SPECIFICATION Spec
CONSTANTS
    Jobs = {j1}
    j1 = j1
    s1 = s1
    Saves = {s1}
    NoJob = NoJob
    Line = Line
    Preexisting = {}
    Conn <- OneJobEach
    UmountRetries = 1
INVARIANT ResignPatched
CHECK_DEADLOCK FALSE
