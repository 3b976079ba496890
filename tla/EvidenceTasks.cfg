SPECIFICATION PartsSpec
CONSTANTS
    r1 = r1
    r2 = r2
    p = p
    w1 = w1
    w2 = w2
    c1 = c1
    c2 = c2
    Callers <- TwoCallers
    PoolSize = 1
    Requests <- OneRequest
    TransactionOf <- Payment
    Workers <- Pool
    MaxRetries <- CodeRetries
    None = None
    MaxFaults = 2
    MaxLosses = 1
    AttemptCap = 9
INVARIANTS
    PartsTypeOK
    NoTaskLost
    AttemptsBounded
PROPERTIES
    WithdrawnOnlyByRedelivery
    EventuallyExplained
    TasksSettle
    EveryoneServed
CHECK_DEADLOCK FALSE
