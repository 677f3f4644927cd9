SPECIFICATION Spec
CONSTANTS
    dep1 = dep1
    dep2 = dep2
    Deposit = {dep1, dep2}
    Amount <- MCAmount
    MaxAmount = 2
    DailyCap = 2
    Cooldown = 1
    Setting <- MCSetting
    Days = 2
    MaxReboots = 1
    r1 = r1
    r2 = r2
    r3 = r3
    d1 = d1
    d2 = d2
    Torn = Torn
    None = None
    Saver = {r1, r2, r3}
    Delegation = {d1, d2}
    InScope = {d1, d2}
    RowCap = 1
    MaxGateCrashes = 1
    c1 = c1
    c2 = c2
    Call = {c1, c2}
    Protocol <- MCProtocol
    Asked = {1}
    Usdt = 3
    Usdc = 1
    Target = 7000
    MinDrift = 500
    MaxStep = 2
    Rates = {5000, 15000}
    Slippage = 3300
    Windfall = 1
    MaxSupply = 3
    NonceRetry = 1
    Config <- MCConfig
    Routing <- MCRouting
INVARIANTS
    CapKept
    ReconcileHonest
    RevocationHolds
    DelegationHolds
    ExecutedBacked
    SupplyCovered
PROPERTIES
    DepositsApart
    ReserveKept
CHECK_DEADLOCK FALSE
