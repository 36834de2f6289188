SPECIFICATION FairSpec
CONSTANTS
    c1 = c1
    c2 = c2
    s1 = s1
    s2 = s2
    s3 = s3
    Clients = {c1, c2}
    Streams = {s1, s2, s3}
    ClientOf <- TwoAndOne
    MaxAssemblies = 1
    MaxLog = 3
    MaxBreaks = 1
INVARIANTS TypeOK OpenConnectionsAgree ForwardedInOrder NothingIsPassedOver
PROPERTY EndedTaskIsClosed
CHECK_DEADLOCK FALSE
