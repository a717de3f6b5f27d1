CONSTANTS
    NoAnchor = NoAnchor
    Garbled = Garbled
    Thread = {t1}
    Nobody = Nobody
    Down = Down
    Requests = {"rekey"}
    CrashPoints = {"rekey_with"}
    MaxRequests = 1
    MaxRestarts = 0
    MaxGeneration = 3
SPECIFICATION Spec
INVARIANT
    ChainUnderRecordedKey
CHECK_DEADLOCK FALSE
