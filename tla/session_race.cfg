\* close() while start() awaits connect().
SPECIFICATION Spec
CONSTANTS
    Protocol = "ddm1"
    Handshake <- DDM1_HANDSHAKE
    Topics <- MCTopics
    Values <- MCOneValue
    NoValue = NoValue
    Callers <- MCOneCaller
    Writer = Writer
    MaxRx = 2
    MaxCalls = 1
    CloseDuringStart = TRUE
    BadErrorListener = FALSE
    c1 = c1
    c2 = c2
    t1 = t1
    v1 = v1
    v2 = v2
INVARIANTS
    NoLinkAfterClose
CHECK_DEADLOCK FALSE
