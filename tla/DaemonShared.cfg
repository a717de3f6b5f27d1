CONSTANTS
    NoAnchor = NoAnchor
    Garbled = Garbled
    Thread = {t1, t2, t3}
    Nobody = Nobody
    Down = Down
    Requests = {"read", "write", "audit_verify", "rekey"}
    CrashPoints = {"gate", "keys", "store", "status", "rekey_with", "adopt", "waiting", "record", "append"}
    MaxRequests = 3
    MaxRestarts = 1
    MaxGeneration = 3
SPECIFICATION Spec
INVARIANTS
    MemoryMatchesDisk
PROPERTIES
    RotationsFollowEachOther
    RequestsAnswered
CHECK_DEADLOCK FALSE
