SPECIFICATION Spec
CONSTANTS
    t1 = t1
    t2 = t2
    x = x
    None = None
    Threads <- MCThreads
    Patterns <- MCPatterns
    Payments <- MCPayments
    Earlier <- MCEarlier
    Detectors = {"isolation_forest", "ecod"}
    Escalation = 10
    ColumnWidth = 16
    CountCap = 3
    MaxFaults = 1
INVARIANT FindingQueued
CHECK_DEADLOCK FALSE
