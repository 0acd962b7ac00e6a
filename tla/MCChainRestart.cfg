SPECIFICATION Spec
CONSTANTS
    Blocks <- MCBlocks
    Parent <- MCParent
    Slot <- MCSlot
    J <- MCJ
    F <- MCF
    Workers = {"w1"}
    Timely = FALSE
    Resync = FALSE
    InitSyncCap = 2
    PruneThreshold = 1
    MaxFaults = 0
    SlotsPerEpoch = 2
INVARIANT RestartPossible
CHECK_DEADLOCK FALSE
