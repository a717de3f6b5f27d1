CONSTANTS
    Listings <- MCListings
    Text <- MCText
    Char = {"a", "b"}
    MaxInput = 2
    Tags = {1, 2}
    Joined <- MCJoined
    Page = 2
    MaxVersions = 2
    None = None
SPECIFICATION Spec
INVARIANTS
    TypeOK
    ViewMatchesChips
PROPERTIES
    CancelRestores
