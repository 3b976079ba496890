SPECIFICATION FairSpec
CONSTANTS
    r1 = r1
    r2 = r2
    r3 = r3
    t1 = t1
    t2 = t2
    a = a
    b = b
    w1 = w1
    w2 = w2
    Requests <- Pair
    Transactions <- MCTransactions
    Accounts <- MCAccounts
    TransactionOf <- PairTransactionOf
    PartiesOf <- MCPartiesOf
    Workers <- MCWorkers
    Modes <- Live
    NoWorker = NoWorker
    MaxRequests = 2
    MaxFaults = 1
    MaxCrashes = 0
PROPERTY ErrorAnswered
CHECK_DEADLOCK FALSE
