SPECIFICATION FairSpec
CONSTANTS
    Tabs = {tab1, tab2}
    MaxConns = 2
    Protocols = {"ddm1", "ddm2"}
CHECK_DEADLOCK FALSE
INVARIANTS
    TypeOK
    OneOwner
    NoOrphanLink
    OneDevice
    ShownIsTrue
PROPERTIES
    ConnectEnds
