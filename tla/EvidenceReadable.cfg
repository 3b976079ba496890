SPECIFICATION PartsSpec
CONSTANTS
    r1 = r1
    r2 = r2
    p = p
    w1 = w1
    w2 = w2
    c1 = c1
    c2 = c2
    Callers <- OneCaller
    PoolSize = 1
    Requests <- BothRequests
    TransactionOf <- Payment
    Workers <- Pool
    MaxRetries <- CodeRetries
    None = None
    MaxFaults = 0
    MaxLosses = 0
    AttemptCap = 9
INVARIANT AlertReadable
CHECK_DEADLOCK FALSE
