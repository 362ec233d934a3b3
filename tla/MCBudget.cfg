SPECIFICATION Spec
CONSTANTS
    k1 = k1
    k2 = k2
    k3 = k3
    k4 = k4
    c1 = c1
    c2 = c2
    Keys <- MCKeys
    Callers <- MCCallers
    MaxTotal = 3
    MaxInWindow = 2
    Window = 3
    MinInterval = 1
    TicksPerMs = 2
    Origin = 6
    Horizon = 14
    MaxRollbacks = 1
    Absent = Absent
SYMMETRY MCSymmetry
INVARIANTS
    TypeOK
    PermitsSpaced
    WindowBounded
    SnapshotForetells
PROPERTIES
    ImplementsAllowance
