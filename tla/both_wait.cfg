\* One call: do client and server ever wait for each other?
SPECIFICATION DialogueSpec
CONSTANTS
    Jobs = {j1}
    j1 = j1
    s1 = s1
    Saves = {s1}
    NoJob = NoJob
    Line = Line
    Preexisting = {}
    Conn <- OneLine
    UmountRetries = 1
INVARIANT NeverBothWait
CHECK_DEADLOCK FALSE
