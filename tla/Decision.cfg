SPECIFICATION Spec
CONSTANTS
    s1 = s1
    s2 = s2
    s3 = s3
    s4 = s4
    c = c
    t1 = t1
    t2 = t2
    t3 = t3
    Missing = Missing
    Null = Null
    Fails = Fails
    NoName = NoName
    Nothing = Nothing
    People <- MCPeople
    Active <- MCActive
    Transfers <- MCTransfers
    MaxTransfers = 4
    FraudSeeds <- MCSeeds
    CommunityOf <- MCCommunities
    Rows <- MCRows
    Snapshots <- MCSnapshots
    MaxRows = 6
    Now = 99999
    Threads <- MCThreads
    Files = {"cal", "base", "legacy"}
    MaxCalls = 3
    MaxResets = 1
    Versions <- MCVersions
    Payments <- MCPayments
    Profiles <- MCProfiles
    GateInputs <- MCGateInputs
    ScorerInputs <- MCScorerInputs
    MetaInputs <- MCMetaInputs
    Ensemble <- MCEnsemble
    Ages <- MCAges
    Contexts <- MCContexts
    Jitters <- MCJitters
SYMMETRY ThreadSymmetry
INVARIANTS
    PartsTypeOK
    OrderIrrelevant
    CyclesFound
    FiguresAgree
    LoadedOnce
    OverrideNeverPasses
    ActionMatchesScore
PROPERTIES
    FraudStands
CHECK_DEADLOCK FALSE
