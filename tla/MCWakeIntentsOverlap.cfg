SPECIFICATION Spec
CONSTANTS
    i1 = i1
    i2 = i2
    i3 = i3
    s1 = s1
    s2 = s2
    s3 = s3
    c1 = c1
    c2 = c2
    Ids <- MCTwoIds
    Sources <- MCTwoSources
    Callers <- MCCallers
    Delays = {1, 2}
    MaxTotal = 2
    Horizon = 3
    MaxRollbacks = 0
    Absent = Absent
    NoTime = NoTime
INVARIANTS
    ReviewMeansRollback
