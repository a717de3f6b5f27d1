CONSTANTS
    Caller = {c1}
    AppToken = AppToken
    OtherToken = OtherToken
    Home = Home
    None = None
    Token = {AppToken, OtherToken}
    Path <- MCPath
    Policies <- MCPolicies
    MaxVersion = 3
    MaxPaths = 2
    MaxChanges = 2
    Profiles <- MCProfiles
    Sources <- MCSources
    Leaf <- MCLeaf
    Parent <- MCParent
SPECIFICATION Spec
INVARIANTS
    TypeOK
    DeliveredWasSo
    NothingUnaudited
    ChildEnvironment
PROPERTIES
    EveryCallEnds
CHECK_DEADLOCK FALSE
