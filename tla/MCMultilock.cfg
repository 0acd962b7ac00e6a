SPECIFICATION FairSpec
CONSTANTS
    Procs = {p1, p2, p3}
    NumKeys = 2
    Chans = {1, 2, 3, 4, 5}
    NoChan = NoChan
    NoProc = NoProc
    KeySets = {{1}, {2}, {1, 2}}
INVARIANTS TypeOK MutualExclusion SendsNeverBlock ParkedHasHolder NoDeadlockedSet NothingLeaks
PROPERTY LockProgress
