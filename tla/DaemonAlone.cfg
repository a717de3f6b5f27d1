CONSTANTS
    NoAnchor = NoAnchor
    Garbled = Garbled
    Thread = {t1}
    Nobody = Nobody
    Down = Down
    Requests = {"status", "read", "write", "delete", "audit_verify", "rekey"}
    CrashPoints = {"gate", "keys", "store", "status", "adopt", "waiting", "record", "append"}
    MaxRequests = 5
    MaxRestarts = 2
    MaxGeneration = 3
SPECIFICATION Spec
INVARIANTS
    TypeOK
    WrappedUnderRecordedKey
    ChainUnderRecordedKey
CHECK_DEADLOCK FALSE
