SPECIFICATION Spec
CONSTANTS
    r1 = r1
    r2 = r2
    r3 = r3
    t1 = t1
    t2 = t2
    a = a
    b = b
    w1 = w1
    w2 = w2
    Requests <- MCRequests
    Transactions <- MCTransactions
    Accounts <- MCAccounts
    TransactionOf <- MCTransactionOf
    PartiesOf <- MCPartiesOf
    Workers <- MCWorkers
    Modes <- MCModes
    NoWorker = NoWorker
    MaxRequests = 2
    MaxFaults = 1
    MaxCrashes = 1
SYMMETRY Interchangeable
INVARIANTS
    TypeOK
    DurableTogether
    ParentRowsExist
    OkMeansRecorded
    EffectsFollowRecord
    AlertHasTrailTask
    LocksNeverCrossAwait
PROPERTY LedgerSpec
CHECK_DEADLOCK FALSE
