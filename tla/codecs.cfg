\* Words of two bytes: TLC's integers have 32 bits.
SPECIFICATION Spec
CONSTANTS
    WordBytes = 2
    Grain = 10000
INVARIANTS
    Ddm1Faithful
    Ddm2Faithful
    WireIsUnambiguous
    EntitiesObey
    EntitiesTell
    ConsoleWriteBack
