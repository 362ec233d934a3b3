SPECIFICATION Spec
CONSTANTS
    i1 = i1
    i2 = i2
    i3 = i3
    s1 = s1
    s2 = s2
    s3 = s3
    c1 = c1
    c2 = c2
    Ids <- MCThreeIds
    Sources <- MCThreeSources
    Callers <- MCCallers
    Delays = {0, 1, 2}
    MaxTotal = 2
    Horizon = 2
    MaxRollbacks = 1
    Absent = Absent
    NoTime = NoTime
SYMMETRY MCSymmetry
INVARIANTS
    TypeOK
    SchemaHolds
    NeverEarly
PROPERTIES
    ImplementsLedger
