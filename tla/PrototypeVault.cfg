SPECIFICATION Spec
CONSTANTS
    benign = benign
    fraud = fraud
    fresh = fresh
    w1 = w1
    w2 = w2
    s1 = s1
    Workers <- MCWorkers
    Prototypes <- MCPrototypes
    LabelOf <- MCLabelOf
    InitialVault <- MCInitialVault
    Scores <- MCScores
    Torn = Torn
    Cap = 2
    K = 2
    MaxInjections = 3
    MaxFaults = 2
SYMMETRY SwapWorkers
INVARIANTS
    TypeOK
    SizeBounded
    MemoryAligned
    FilesAligned
    WrongScoreNeedsEviction
CHECK_DEADLOCK FALSE
