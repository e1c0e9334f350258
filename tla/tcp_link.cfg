SPECIFICATION FairSpec
CONSTANTS
    Closers = {d1, d2}
    MaxLinks = 2
    MaxLines = 2
    MaxWrites = 1
CHECK_DEADLOCK FALSE
INVARIANTS
    NoOrphanSocket
PROPERTIES
    ImplementsTransport
    LinksEnd
