CONSTANTS
    a = a
    b = b
    Path = {p1, p2}
    Value = {a, b}
    NoValue = NoValue
    MaxVersion = 4
    DefaultMaxVersions = 2
    Bundle <- MCBundle
    CrashPoints = {"write", "delete"}
SPECIFICATION Spec
SYMMETRY Symmetry
INVARIANT
    CurrentNamesReadable
CHECK_DEADLOCK FALSE
