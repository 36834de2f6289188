SPECIFICATION MCRecoverySpec
CONSTANTS
    t1 = t1
    p1 = p1
    t2 = t2
    p2 = p2
    c1 = c1
    c2 = c2
    Missing = Missing
    Tasks = {t1, t2}
    Paths = {p1}
    Contents = {c1, c2}
    BlobName <- OwnBlobs
    HunkIds = {}
    Ignored = {}
    Sensitive = {p1}
    EnvPaths = {p1}
    EnvContent = c1
    Head <- MCHead
    MaxSteps = 3
    GitProject = TRUE
    UseWorktree = TRUE
INVARIANTS SnapshotMatchesBaseline TracebackCoversChanges
PROPERTIES MergeKeepsProjectEdits
CHECK_DEADLOCK FALSE
