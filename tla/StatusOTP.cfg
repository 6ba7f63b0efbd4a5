SPECIFICATION MCSpec
CONSTANTS
    Client = {c1, c2}
    MaxTxns = 2
    None = None
    OtpTTL = 2
    RateTTL = 2
    RetryLimit = 2
    RateLimit = 1
    MaxFaults = 1
INVARIANTS
    RetryLimitHoldsInTurn
    AcceptedOnceInTurn
PROPERTIES
    RateLimitLifts
CHECK_DEADLOCK FALSE
