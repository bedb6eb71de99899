\* One upload whose connection may fail at any read.
SPECIFICATION Spec
CONSTANTS
    Jobs = {j1}
    j1 = j1
    a = a
    ab = ab
    long = long
    Names = {ab}
    NoJob = NoJob
    NoName = NoName
    Line = Line
    Conn <- OneJobEach
    Length <- Lengths
    CutShort <- Cuts
    Sizes = {3}
    Chunk = 2
    WordMod = 8
    Undeletable = {}
    Errnos = {3}
INVARIANT ReadErrorReported
CHECK_DEADLOCK FALSE
