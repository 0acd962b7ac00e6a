SPECIFICATION PartsSpec
CONSTANTS
    PBlocks <- MCBlocks
    PParent <- MCParent
    PSlot <- MCSlot
    PInvalid = {3}
    PSlotsPerEpoch = 1
    PLastSlot = 3
    MaxBlocksPerSlot = 2
    MaxPendFaults = 1
    PWatched = 2
    Requests = {1, 2}
    Targets = {1, 2}
    MaxRequests = 3
    MaxCancels = 1
    MaxResyncs = 1
    SkipWatched = 1
    DataRequests = {1, 2, 3}
    MaxHeads = 1
    MaxDataFaults = 1
    DataWatched = 1
    ChainSlots = {2, 3, 7}
    BestFinalizedSlot = 6
    HighestExpected = 8
    BlocksPerRequest = 2
    LookaheadSteps = 2
    MaxFetchFaults = 1
INVARIANTS
    PartsTypeOK
    QueuedOnce
    AnswerAtTarget MarkHasOwner
    OneComputes LossNeedsFault
    TickedMachineExists ScheduledHasRequest  

    
    
CHECK_DEADLOCK FALSE
