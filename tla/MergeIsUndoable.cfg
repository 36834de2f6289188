SPECIFICATION HSpec
CONSTANTS
    t1 = t1
    p1 = p1
    p2 = p2
    c1 = c1
    c2 = c2
    c3 = c3
    Missing = Missing
    Tasks = {t1}
    Paths = {p1}
    Contents = {c1, c2, c3}
    BlobName <- OwnBlobs
    HunkIds = {}
    Ignored = {}
    Sensitive = {}
    EnvPaths = {}
    EnvContent = c1
    Head <- MCHead
    GitProject = FALSE
    UseWorktree = FALSE
    MaxEdits = 4
INVARIANT MergeIsUndoable
CHECK_DEADLOCK FALSE
