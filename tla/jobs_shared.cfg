\* Two clients at once on one save, which may be the user's own.
SPECIFICATION Spec
CONSTANTS
    Jobs = {j1, j2}
    j1 = j1
    j2 = j2
    s1 = s1
    Saves = {s1}
    NoJob = NoJob
    Line = Line
    Preexisting = {s1}
    Conn <- OneJobEach
    UmountRetries = 1
INVARIANT TypeOK
INVARIANT MountReleased
INVARIANT SuccessMeansClean
INVARIANT TempResidue
INVARIANT EndsTold
CHECK_DEADLOCK FALSE
