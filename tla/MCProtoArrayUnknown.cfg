SPECIFICATION Spec
CONSTANTS
    v1 = v1
    v2 = v2
    Genesis = 1
    BlockRoots = {1, 2, 3}
    Validators = {v1, v2}
    BalanceVectors <- TwoBalances
    Epochs = {0}
    TargetEpochs = {1, 2}
    PruneThreshold = 1
    UnknownVotes = TRUE
INVARIANTS
    WeightIsCountedVotes
CHECK_DEADLOCK FALSE
