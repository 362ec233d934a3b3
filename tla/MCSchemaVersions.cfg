SPECIFICATION Spec
CONSTANTS
    o1 = o1
    o2 = o2
    Openers <- MCOpeners
    Files <- MCFiles
    NoOne = NoOne
SYMMETRY MCSymmetry
INVARIANTS
    TypeOK
    OpenIsUsable
PROPERTIES
    MigrationsAreAdditive
