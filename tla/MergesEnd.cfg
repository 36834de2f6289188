SPECIFICATION FairSpec
CONSTANTS
    c1 = c1
    c2 = c2
    c3 = c3
    c4 = c4
    t1 = t1
    t2 = t2
    None = None
    Calls = {c1, c2, c3}
    Tasks = {t1}
    NPaths = 1
    Missing = "-"
    Contents = {"-", "o"}
    Original = "o"
    KindOf <- OneRollback
    TaskOf <- OneOfOtherTask
    MaxEdits = 1
PROPERTY EveryCallEnds
CHECK_DEADLOCK FALSE
