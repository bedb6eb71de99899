\* Two commands at once, on connections that may fail at any read.
SPECIFICATION Spec
CONSTANTS
    Jobs = {j1, j2}
    j1 = j1
    j2 = j2
    a = a
    ab = ab
    long = long
    Names = {a, ab}
    NoJob = NoJob
    NoName = NoName
    Line = Line
    Conn <- OneJobEach
    Length <- Lengths
    CutShort <- Cuts
    Sizes = {1, 3}
    Chunk = 2
    WordMod = 8
    Undeletable = {ab}
    Errnos = {3}
INVARIANT TypeOK
INVARIANT FailedLeavesNothing
INVARIANT OpensOwnName
PROPERTY BrokenEnds
CHECK_DEADLOCK FALSE
