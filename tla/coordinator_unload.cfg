SPECIFICATION Spec
CONSTANTS
    Protocol = "ddm1"
    Topics = 1
    Writers = {w1}
    MaxFaults = 2
    MaxChanges = 1
    FlakyWrites = FALSE
CHECK_DEADLOCK FALSE
INVARIANTS
    ShutdownDisconnects
