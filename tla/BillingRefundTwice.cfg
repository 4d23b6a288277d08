CONSTANTS
    a = a
    b = b
    Request = {a, b}
    Playground = {b}
    Forced = {b}
    Estimate = {0, 1, 3}
    Actual = {1, 3}
    Preference = {"subscription_only", "wallet_first", "subscription_first"}
    WalletQuota = 3
    TokenQuota = 2
    TokenUnlimited = FALSE
    SubTotal = 2
    AllowOverflow = TRUE
    TrustQuota = 1
    BatchModes = {TRUE, FALSE}
    MaxFaults = 3
    MaxPeriods = 1
SPECIFICATION Spec
INVARIANT SubscriptionRefundedOnce
CHECK_DEADLOCK FALSE
