SPECIFICATION Spec
CONSTANTS
    r1 = r1
    r2 = r2
    plan = plan
    transfer = transfer
    c1 = c1
    c2 = c2
    None = None
    Run = {r1, r2}
    Intent = {plan, transfer}
    Call = {c1, c2}
    YieldIntent = {plan}
    RequoteIntent = {plan}
    Limits = {1, 2}
    PolymarketRun = {r1}
    MaxUnlimited = 2
    MaxForgotten = 1
SYMMETRY Symmetry
INVARIANTS
    SessionsShown
    PlanHandedOutOnce
    RequotesBounded
PROPERTIES
    ConfirmedOnly
