SPECIFICATION Spec
CONSTANTS
    a1 = a1
    a2 = a2
    p = p
    f1 = f1
    f2 = f2
    f3 = f3
    d1 = d1
    d2 = d2
    w1 = w1
    w2 = w2
    Alerts <- MCAlerts
    Fingerprints <- MCFingerprints
    FingerprintOf <- MCFingerprintOf
    Sparse <- MCSparse
    Feedbacks <- MCFeedbacks
    Reviews <- MCReviews
    Workers <- MCWorkers
    None = None
    MaxFaults = 2
    MaxCrashes = 1
SYMMETRY Interchangeable
INVARIANTS
    TypeOK
    RoutedTogether
    StatusFollowsFeedback
    VaultHoldsConfirmedFraud
    AuditExplainsStatus
    SerialReviewsDecideOnce
CHECK_DEADLOCK FALSE
