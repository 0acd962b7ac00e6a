SPECIFICATION StoresSpec
CONSTANTS
    v1 = v1
    v2 = v2
    Genesis = 1
    BlockRoots = {1, 2, 3, 4}
    Validators = {v1, v2}
    BalanceVectors <- TwoBalances
    Epochs = {0, 1}
    TargetEpochs = {1, 2}
    PruneThreshold = 1
    UnknownVotes = FALSE
    PubKeys = {k1}
    Callers = {c1, c2}
    Slots = {0, 1, 4, 6}
    Roots = {r1, r2}
    ZeroRoot = ZeroRoot
    NoRoot = NoRoot
    SlotsPerEpoch = 2
    WeakSubjectivityPeriod = 2
    MaxCalls = 3
INVARIANTS
    TypeOK
    LinksAreSound
    WeightIsCountedVotes
    HeadIsGhost
    
    ProposeTypeOK
    NoDoubleProposal
PROPERTY LowestNeverMoves
CHECK_DEADLOCK FALSE
