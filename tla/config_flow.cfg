SPECIFICATION Spec
CONSTANTS
    Coolers = {"c"}
    FreshJets = {"f"}
    Others = {}
    Nothing = Nothing
    Flows = {1, 2}
INVARIANTS
    RightProtocol
    OneOffer
PROPERTIES
    EntriesKept
