CONSTANTS
    NoAnchor = NoAnchor
    Garbled = Garbled
    Thread = {t1, t2}
    Nobody = Nobody
    Down = Down
    Requests = {"write", "rekey"}
    CrashPoints = {}
    MaxRequests = 2
    MaxRestarts = 0
    MaxGeneration = 3
SPECIFICATION Spec
INVARIANT
    WrappedUnderRecordedKey
CHECK_DEADLOCK FALSE
