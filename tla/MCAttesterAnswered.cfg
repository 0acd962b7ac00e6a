CONSTANTS
    Keys = {k1}
    Callers = {c1}
    x = x
    y = y
    Blocks = {x, y}
    Data <- ConflictData
    ChanCap = 1
    BatchCap = 2
    PruneEnabled = FALSE
    PruneEpochs = 1
    MaxCalls = 2
    MaxFail = 0
    MaxCrash = 0
SPECIFICATION FairSpec
PROPERTY WaiterIsAnswered
CHECK_DEADLOCK FALSE
