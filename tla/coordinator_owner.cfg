SPECIFICATION Spec
CONSTANTS
    Protocol = "ddm2"
    Topics = 2
    Writers = {w1}
    MaxFaults = 2
    MaxChanges = 1
    FlakyWrites = TRUE
CHECK_DEADLOCK FALSE
INVARIANTS
    SessionClosedOnce
    ConnectedMeansSubscribed
PROPERTIES
    OnlyCurrentSpeaks
