CONSTANTS
    Keys = {k1, k2}
    Callers = {c1, c2}
    x = x
    y = y
    Blocks = {x, y}
    Data <- PruneData
    ChanCap = 1
    BatchCap = 2
    PruneEnabled = TRUE
    PruneEpochs = 1
    MaxCalls = 3
    MaxFail = 1
    MaxCrash = 1
SYMMETRY Symmetry
SPECIFICATION Spec
INVARIANTS TypeOK NoSlashableSent OwnRecordLast GrowingTargetsSafe
ACTION_CONSTRAINT OneFault
CHECK_DEADLOCK FALSE
