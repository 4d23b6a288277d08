CONSTANTS
    w1 = w1
    w2 = w2
    t1 = t1
    t2 = t2
    NoOwner = NoOwner
    GoneOwner = GoneOwner
    Task = {t1}
    Worker = {w1, w2}
    ReserveQuota = {1}
    ActualQuota = {1}
    Preference = {"wallet_only"}
    WalletQuota = 2
    SubTotal = 0
    AllowOverflow = FALSE
    TokenQuota = 2
    TokenUnlimited = FALSE
    RetryTimes = 0
    MaxAttempts = 2
    MaxStalls = 1
    MaxFaults = 1
    MaxResets = 1
    MaxPeriods = 0
SPECIFICATION FairSpec
PROPERTIES EveryTaskIsBilled ArchivingEnds
CHECK_DEADLOCK FALSE
