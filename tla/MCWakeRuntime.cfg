SPECIFICATION FairSpec
CONSTANTS
    a = a
    b = b
    c = c
    k1 = k1
    k2 = k2
    ActionIds <- MCActionIds
    Keys <- MCKeys
    Requests <- MCRequests
    Targets <- MCTargets
    Durations = {0, 2}
    Horizon = 4
    MaxRollbacks = 1
    MaxCrossings = 2
    Absent = Absent
    NoLease = NoLease
INVARIANTS
    TypeOK
    EffectAtMostOnce
    EffectOnRecord
    EffectFitsStatus
    SafeMeansQuiet
PROPERTIES
    ImplementsJournal
    RunningEnds
