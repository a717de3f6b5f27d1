CONSTANTS
    a = a
    b = b
    Path = {p1, p2}
    Value = {a, b}
    NoValue = NoValue
    MaxVersion = 4
    DefaultMaxVersions = 2
    Bundle <- MCBundle
    CrashPoints = {"write"}
SPECIFICATION Spec
SYMMETRY Symmetry
INVARIANTS
    TypeOK
    CurrentNamesReadable
    CiphertextIffHeld
    RetentionWindow
PROPERTIES
    VersionsAreFinal
    ImplementsHistory
CHECK_DEADLOCK FALSE
