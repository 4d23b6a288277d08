CONSTANTS
    w1 = w1
    w2 = w2
    t1 = t1
    t2 = t2
    NoOwner = NoOwner
    GoneOwner = GoneOwner
    Task = {t1}
    Worker = {w1, w2}
    ReserveQuota = {1, 2}
    ActualQuota = {0, 2}
    Preference = {"wallet_only", "subscription_only", "wallet_first", "subscription_first"}
    WalletQuota = 1
    SubTotal = 2
    AllowOverflow = TRUE
    TokenQuota = 3
    TokenUnlimited = FALSE
    RetryTimes = 1
    MaxAttempts = 2
    MaxStalls = 2
    MaxFaults = 1
    MaxResets = 1
    MaxPeriods = 1
SPECIFICATION Spec
INVARIANTS TypeOK StatusMatchesBilling GeneratesAlone FundsConserved
PROPERTIES ImplementsLedger NoCallAfterFinal AttemptsCounted
SYMMETRY WorkerSymmetry
CHECK_DEADLOCK FALSE
