CONSTANTS
    Process = {p1, p2}
    Path = {s1, s2}
    None = None
    PolicyName = {"unrestricted", "root"}
    MaxStarts = 5
    MaxLosses = 1
    MaxEdits = 2
SPECIFICATION Spec
SYMMETRY Symmetry
INVARIANTS
    TypeOK
    PrivilegeOrder
    NoKeyIsLost
    ShownTokenIsComplete
    EverythingOpens
    RestoredMeansComplete
PROPERTIES
    HistoriesNeverMerge
    CustomisedSurvivesStart
CHECK_DEADLOCK FALSE
