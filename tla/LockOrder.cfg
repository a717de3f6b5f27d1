CONSTANTS
    NoAnchor = NoAnchor
    Garbled = Garbled
    Thread = {t1, t2, t3}
    Nobody = Nobody
    Down = Down
    Requests = {"status", "read", "rekey"}
    CrashPoints = {}
    MaxRequests = 3
    MaxRestarts = 0
    MaxGeneration = 3
SPECIFICATION Spec
PROPERTY
    RequestsAnswered
CHECK_DEADLOCK FALSE
