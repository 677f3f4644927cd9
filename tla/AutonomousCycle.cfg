SPECIFICATION FairSpec
CONSTANTS
    p1 = p1
    p2 = p2
    p3 = p3
    r1 = r1
    r2 = r2
    None = None
    Proc = {p1, p2, p3}
    RunId = {r1, r2}
    RunOf <- MCRunOf
    LockTtl = 1
    MinInterval = 1
    MaxRun = 1
    ReplayCap = 1
    MaxCrashes = 1
INVARIANTS
    UnracedLock
PROPERTIES
    IntervalKept
    LockExpires
CHECK_DEADLOCK FALSE
