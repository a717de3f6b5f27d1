CONSTANTS
    NoAnchor = NoAnchor
    Garbled = Garbled
    Entry = {e1, e2}
    Key = {k1, k2}
    Foreign = Foreign
    MaxEntries = 3
    MaxDamage = 2
    MaxSeq = 4
SPECIFICATION Spec
INVARIANTS
    TypeOK
    CleanMeansGenuine
    CleanMeansComplete
    UntouchedVerifies
    
PROPERTIES
    RekeyKeepsHistory
SYMMETRY Symmetry
CHECK_DEADLOCK FALSE
