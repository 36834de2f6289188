SPECIFICATION Spec
CONSTANTS
    t1 = t1
    t2 = t2
    p1 = p1
    p2 = p2
    None = None
    Threads = {t1}
    Active = {t1}
    External = {}
    Leaving = {}
    Runs = {p1, p2}
    SessionThread <- OwnThreads
    Second = 2
    MaxTime = 4
    ScanLimit = 1
    MaxRunning = 1
    MaxRetries = 1
    MaxInputs = 2
    FaultKinds = {"fail", "heartbeat", "suspend", "reset"}
    MaxFaults = 2
SYMMETRY Perms
INVARIANTS TypeOK OutputMatchesWatermark ResetIsFinal OneConsolidation BaselineIsConsolidated
CHECK_DEADLOCK FALSE
