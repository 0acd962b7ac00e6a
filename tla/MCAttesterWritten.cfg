CONSTANTS
    Keys = {k1, k2}
    Callers = {c1, c2}
    x = x
    y = y
    Blocks = {x, y}
    Data <- PlainData
    ChanCap = 1
    BatchCap = 2
    PruneEnabled = FALSE
    PruneEpochs = 1
    MaxCalls = 2
    MaxFail = 2
    MaxCrash = 0
SPECIFICATION FairSpec
PROPERTY QueuedIsWritten
CHECK_DEADLOCK FALSE
