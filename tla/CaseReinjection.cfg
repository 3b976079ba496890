SPECIFICATION Spec
CONSTANTS
    a1 = a1
    a2 = a2
    p = p
    f1 = f1
    f2 = f2
    f3 = f3
    d1 = d1
    d2 = d2
    w1 = w1
    w2 = w2
    Alerts <- MCAlerts
    Fingerprints <- MCFingerprints
    FingerprintOf <- MCFingerprintOf
    Sparse <- MCSparse
    Feedbacks <- TwoFeedbacks
    Reviews <- MCReviews
    Workers <- MCWorkers
    None = None
    MaxFaults = 0
    MaxCrashes = 0
PROPERTY OnlyPendingInjected
CHECK_DEADLOCK FALSE
