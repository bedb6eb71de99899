\* One command on a save of the console's user.
SPECIFICATION Spec
CONSTANTS
    Jobs = {j1}
    j1 = j1
    s1 = s1
    Saves = {s1}
    NoJob = NoJob
    Line = Line
    Preexisting = {s1}
    Conn <- OneJobEach
    UmountRetries = 1
PROPERTY OnlyOwnSavesDeleted
CHECK_DEADLOCK FALSE
