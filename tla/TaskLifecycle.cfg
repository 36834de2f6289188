SPECIFICATION MCSpec
CONSTANTS
    t1 = t1
    p1 = p1
    t2 = t2
    p2 = p2
    c1 = c1
    c2 = c2
    Missing = Missing
    Tasks = {t1}
    Paths = {p1}
    Contents = {c1, c2}
    BlobName <- OwnBlobs
    HunkIds = {1, 2}
    Ignored = {}
    Sensitive = {p1}
    EnvPaths = {}
    EnvContent = c1
    Head <- MCHead
    MaxSteps = 2
    GitProject = TRUE
    UseWorktree = FALSE
INVARIANTS TypeOK StatusAgreement
PROPERTIES RollbackIsExact
CHECK_DEADLOCK FALSE
