SPECIFICATION FairSpec
CONSTANTS
    j1 = j1
    j2 = j2
    j3 = j3
    idA = idA
    idB = idB
    Row = {j1, j2, j3}
    NoRow = NoRow
    JobId = {idA, idB}
    JobOf <- MCJobOf
    Lasting = {}
    MaxAttempts = 2
    QueueCap = 2
    PurgeAge = 1
    AutoPurge = TRUE
    MaxTime = 2
    MaxRetries = 1
    MaxRestarts = 0
PROPERTY
    BackoffRetried
CHECK_DEADLOCK FALSE
