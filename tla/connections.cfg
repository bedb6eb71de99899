\* One connection, three commands, that may break at any step.
SPECIFICATION Spec
CONSTANTS
    c1 = c1
    Conns = {c1}
    MaxCommands = 3
    Errnos = {4, 54}
    HeaderSize = 12
    PacketSize = 192
    Size = 5
    Chunk = 3
    WordMod = 8
    MaxFaults = 1
INVARIANT TypeOK
INVARIANT NoGhostCommand
INVARIANT InOrder
INVARIANT FileComplete
PROPERTY BrokenCloses
CHECK_DEADLOCK FALSE
