SPECIFICATION FairSpec
CONSTANTS
    w1 = w1
    w2 = w2
    w3 = w3
    accountA = accountA
    accountB = accountB
    t1 = t1
    t2 = t2
    Worker = {w1, w2, w3}
    NoWorker = NoWorker
    Account = {accountA, accountB}
    AccountOf <- MCAccountOf
    MaxErrors = 2
    MaxSends = 2
    Tick = {t1, t2}
    MinHold = 2
INVARIANTS
    OneWorkerPerAccount
PROPERTIES
    WorkerSteps
    WorkersProgress
