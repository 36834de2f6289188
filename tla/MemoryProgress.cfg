SPECIFICATION FairSpec
CONSTANTS
    t1 = t1
    t2 = t2
    p1 = p1
    p2 = p2
    None = None
    Threads = {t1, t2}
    Active = {t2}
    External = {t1}
    Leaving = {t2}
    Runs = {p1, p2}
    SessionThread <- ResumesThread
    Second = 2
    MaxTime = 4
    ScanLimit = 1
    MaxRunning = 1
    MaxRetries = 1
    MaxInputs = 1
    FaultKinds = {"fail"}
    MaxFaults = 1
PROPERTIES PollutedIsForgotten EveryVersionIsExtracted
CHECK_DEADLOCK FALSE
