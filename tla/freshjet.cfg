SPECIFICATION FairSpec
CONSTANTS
    Callers = {c1, c2}
    Modes = {"cool"}
    Dimmed = {1, 128}
    MaxCalls = 2
    MaxDrops = 1
    MaxActs = 1
CHECK_DEADLOCK FALSE
INVARIANTS
    TypeOK
    ShowsTheUnit
    LastWordWins
    LightObeys
PROPERTIES
    Settles
