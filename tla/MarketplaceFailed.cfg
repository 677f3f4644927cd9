SPECIFICATION Spec
CONSTANTS
    k1 = k1
    k2 = k2
    p1 = p1
    ePaid = ePaid
    c1 = c1
    c2 = c2
    c3 = c3
    rA = rA
    rB = rB
    Key = {k1, k2}
    Payment = {p1}
    KeyOf <- MCKeyOf
    Event = {ePaid}
    Notice <- MCNotice
    Bodies <- MCFailedBody
    Call = {c1, c2, c3}
    RunOf <- MCRunOf
    PaymentOf <- MCPaymentOf
    ClaimOf <- MCClaimOf
    NoPayment = NoPayment
    UsesPerGrant = 1
    Lifetime = 1
    DailyMax = 1
    HistoryCap = 3
    EventCap = 1
    Overlap = FALSE
    GrantsApart = TRUE
    MaxTime = 2
    MaxDay = 1
    MaxGrants = 2
    MaxRestarts = 1
INVARIANT
    GrantOnlyWhenPaid
CHECK_DEADLOCK FALSE
