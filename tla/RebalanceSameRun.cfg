SPECIFICATION FairSpec
CONSTANTS
    c1 = c1
    c2 = c2
    c3 = c3
    r1 = r1
    r2 = r2
    Call = {c1, c2, c3}
    RunId = {r1, r2}
    NoRun = NoRun
    IdOf <- MCIdOf
    CallersSerialise = FALSE
    InitialUsdt = 5
    Amounts = {2, 3}
    AmountOf <- MCAmountOf
    MaxAmount = 3
    MinOuts = {2}
    MaxOut = 3
    RpcEndpoints = 2
    RecentCap = 2
    DailyMax = 1
    Cooldown = 2
    MaxDay = 1
    MaxTime = 3
    MaxRestarts = 1
INVARIANT
    OneRebalanceInFlight
CHECK_DEADLOCK FALSE
