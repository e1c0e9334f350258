\* The CFX3 handshake the integration uses, every failure, a close() at any time.
SPECIFICATION FairSpec
CONSTANTS
    Protocol = "ddm1"
    Handshake <- DDM1_HANDSHAKE_WITH_PING
    Topics <- MCTopics
    Values <- MCOneValue
    NoValue = NoValue
    Callers <- MCOneCaller
    Writer = Writer
    MaxRx = 3
    MaxCalls = 1
    CloseDuringStart = TRUE
    BadErrorListener = TRUE
    c1 = c1
    c2 = c2
    t1 = t1
    v1 = v1
    v2 = v2
CHECK_DEADLOCK FALSE
INVARIANTS
    FramesAccounted
PROPERTIES
    ClosedForGood
    ImplementsOutbox
    CallsReturn
    FramesSettle
