SPECIFICATION FairSpec
CONSTANTS
    t1 = t1
    t2 = t2
    k1 = k1
    k2 = k2
    TaskIds <- MCTaskIds
    Keys <- MCKeys
    Definitions <- MCDefinitions
    TicksPerMs = 2
    Horizon = 6
    MaxRollbacks = 1
    Absent = Absent
    NoLease = NoLease
INVARIANTS
    TypeOK
    SchemaHolds
    NextRecoveryExact
    SafeMeansQuiet
PROPERTIES
    ImplementsLedger
    LeaseHonouredToTheMs
    ActiveEnds
    DrainingSettles
