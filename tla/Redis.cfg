SPECIFICATION RedisSpec
CONSTANTS
    p1 = p1
    p2 = p2
    q1 = q1
    q2 = q2
    acct = acct
    betweenness = betweenness
    micro = micro
    Payments <- MCPayments
    AmountOf <- MCAmounts
    Readers <- MCReaders
    Keys = {"1h", "24h"}
    Length <- MCLength
    Expiry <- MCExpiry
    Lag = 1
    LastTime = 5
    Accounts <- MCAccounts
    Patchers <- MCPatchers
    Lifetime = 2
    EmbLifetime = 1
    RunLimit = 1
    LastHour = 4
    MaxRuns = 2
    Communities = TRUE
    None = None
SYMMETRY PatchSymmetry
INVARIANTS
    RedisTypeOK
    WindowComplete
    AnswerTimely
    StalenessHonest
    EmbeddingBacked
CHECK_DEADLOCK FALSE
