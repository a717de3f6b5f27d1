CONSTANTS
    root = root
    app = app
    spare = spare
    live = live
    test = test
    None = None
    Malformed = Malformed
    Token = {root, app, spare}
    RootToken = root
    AppToken = app
    AppPolicy <- MCAppPolicy
    Stored <- MCStored
    Path <- MCPath
    Tag = {live, test}
    Patterns <- MCPatterns
    Candidates <- MCCandidates
    Requests <- MCRequests
    MaxSeconds = 5
    MaxClock = 1
    Worker = {w1, w2}
    MaxRequests = 3
SPECIFICATION Spec
SYMMETRY Symmetry
INVARIANTS
    TypeOK
    AllowedAtSomeMoment
    GrantsOnlyAsIssued
    MissingTagsOnlyNarrow
    ChangesAreAccountedFor
    GlobMatchesReference
CHECK_DEADLOCK FALSE
