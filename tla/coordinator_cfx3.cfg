SPECIFICATION FairSpec
CONSTANTS
    Protocol = "ddm1"
    Topics = 1
    Writers = {w1}
    MaxFaults = 3
    MaxChanges = 1
    FlakyWrites = FALSE
CHECK_DEADLOCK FALSE
INVARIANTS
    NoOrphanLink
    ShutdownEndsWhatWas
PROPERTIES
    Recovers
