SPECIFICATION FairSpec
CONSTANTS
    j1 = j1
    j2 = j2
    j3 = j3
    idA = idA
    idB = idB
    Row = {j1, j2}
    NoRow = NoRow
    JobId = {idA, idB}
    JobOf <- MCJobOf
    Lasting = {j2}
    MaxAttempts = 2
    QueueCap = 2
    PurgeAge = 1
    AutoPurge = TRUE
    MaxTime = 2
    MaxRetries = 1
    MaxRestarts = 1
INVARIANTS
    AttemptsBounded
    DeadLetterJustified
    SuccessesAccounted
PROPERTIES
    BackoffRespected
    DismissedRests
    ReadyTaken
CHECK_DEADLOCK FALSE
