SPECIFICATION Spec
CONSTANTS
    admin = admin
    emergency = emergency
    router = router
    idA = idA
    idB = idB
    Eoa = {admin, emergency}
    Contract = {router}
    Admin = admin
    EmergencyAdmin = emergency
    CycleId = {idA, idB}
    NoCycle = NoCycle
    Amount = {1, 2}
    RiskConfig <- MCRiskConfig
    InitialRisk <- MCInitialRisk
    MaxTime = 4
    MaxNonce = 3
    MaxDepth = 2
INVARIANTS
    NotNested
    HaltsRecovered
PROPERTIES
    CooldownKept
    LedgerImplemented
