SPECIFICATION Spec
CONSTANTS
    r1 = r1
    r2 = r2
    Requests = {r1}
    Quotas = {0, 2}
    Preferences = {"subscription_first"}
    Enabled = {"wallet", "requests", "tokens", "subscription"}
    Playground = {}
    Forced = {}
    Unlimited = FALSE
    TrustQuota = 2
    RequestsTrust = 1
    DefaultEstimate = 2
    MaxAttempts = 3
    SubTotal = 2
    Wallet = 3
    RequestCount = 0
    Tokens = 1
    WalletBlocked = 0
    WalletPackage = 1
    InitKey = 3
    MaxFaults = 1
    InitBalance <- MCInitBalance
    InitPackage <- MCInitPackage
    Blocked <- MCBlocked
    BillingPriorities <- MCPriorities
INVARIANT
    SubscriptionRefundIdempotent
CHECK_DEADLOCK FALSE
