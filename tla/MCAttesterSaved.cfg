CONSTANTS
    Keys = {k1, k2}
    Callers = {c1, c2}
    x = x
    y = y
    Blocks = {x, y}
    Data <- ConflictData
    ChanCap = 1
    BatchCap = 2
    PruneEnabled = FALSE
    PruneEpochs = 1
    MaxCalls = 3
    MaxFail = 0
    MaxCrash = 0
SPECIFICATION Spec
INVARIANT SavedWhenReported
CHECK_DEADLOCK FALSE
