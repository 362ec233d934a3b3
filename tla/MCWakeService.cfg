SPECIFICATION ServiceFairSpec
CONSTANTS
    i1 = i1
    i2 = i2
    c1 = c1
    c2 = c2
    owner_thread = owner_thread
    Ids <- MCIds
    Clients <- MCClients
    Owner = owner_thread
    Waiters <- MCWaiters
    Delays = {1, 2}
    MaxTotal = 2
    Horizon = 2
    MaxRequests = 0
    MaxInterrupts = 0
    MaxRollbacks = 0
    Absent = Absent
    NoDeadline = NoDeadline
INVARIANTS
    ServiceTypeOK
    ArmedInTime
    NoLostWakeup
PROPERTIES
    IntentsEnd
