SPECIFICATION OwnerFairSpec
CONSTANTS
    t1 = t1
    t2 = t2
    k1 = k1
    k2 = k2
    w1 = w1
    w2 = w2
    TaskIds <- MCTaskIds
    Keys <- MCKeys
    Definitions <- MCDefinitions
    Workers <- MCWorkers
    KindOf <- MCKindOf
    Accepts <- MCAccepts
    TicksPerMs = 1
    Horizon = 3
    MaxRollbacks = 1
    Absent = Absent
    NoLease = NoLease
INVARIANTS
    OwnerTypeOK
    AttemptHeldOnce
    LeasesDisjoint
PROPERTIES
    OnlyLateAnswersIntrude
    NoStarvation
