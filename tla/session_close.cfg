\* Two API callers; close() is called when start() is not connecting.
SPECIFICATION Spec
CONSTANTS
    Protocol = "ddm1"
    Handshake <- DDM1_HANDSHAKE
    Topics <- MCTopics
    Values <- MCOneValue
    NoValue = NoValue
    Callers <- MCTwoCallers
    Writer = Writer
    MaxRx = 3
    MaxCalls = 2
    CloseDuringStart = FALSE
    BadErrorListener = FALSE
    c1 = c1
    c2 = c2
    t1 = t1
    v1 = v1
    v2 = v2
CHECK_DEADLOCK FALSE
INVARIANTS
    ClosedIsClean
PROPERTIES
    QuietAfterClose
