\* The PING-first handshake against a CFX3, nobody nudges.
SPECIFICATION Cfx3FairSpec
CONSTANTS
    Protocol = "ddm1"
    Handshake <- DDM1_HANDSHAKE_WITH_PING
    Topics <- MCTwoTopics
    Values <- MCValues
    NoValue = NoValue
    Callers <- MCCallers
    Writer = Writer
    MaxRx = 8
    MaxCalls = 2
    CloseDuringStart = TRUE
    BadErrorListener = FALSE
    MaxPings = 2
    Nudges = FALSE
    c1 = c1
    t1 = t1
    t2 = t2
    v1 = v1
CHECK_DEADLOCK FALSE
INVARIANTS
    HelloFirst
    AcksAreEarned
PROPERTIES
    CoolerAnswers
