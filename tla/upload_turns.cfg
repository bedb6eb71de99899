\* Three commands, one after the other, on one connection that may hang up.
SPECIFICATION Spec
CONSTANTS
    Jobs = {j1, j2, j3}
    j1 = j1
    j2 = j2
    j3 = j3
    a = a
    ab = ab
    long = long
    Names = {ab, long}
    NoJob = NoJob
    NoName = NoName
    Line = Line
    Conn <- OneLine
    Length <- Lengths
    CutShort <- Cuts
    Sizes = {0, 3, 5}
    Chunk = 2
    WordMod = 8
    Undeletable = {ab}
    Errnos = {}
PROPERTY StoreSpec
CHECK_DEADLOCK FALSE
