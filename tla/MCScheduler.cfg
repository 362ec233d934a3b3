SPECIFICATION FairSpec
CONSTANTS
    w1 = w1
    w2 = w2
    Waiters <- MCTwoWaiters
    Horizon = 3
    MaxRequests = 3
    MaxInterrupts = 2
    MaxRollbacks = 1
    NoDeadline = NoDeadline
INVARIANTS
    TypeOK
PROPERTIES
    DeadlineKept
    StopReleases
    InterruptSeen
