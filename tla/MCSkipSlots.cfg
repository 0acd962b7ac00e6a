SPECIFICATION SkipFairSpec
CONSTANTS
    Requests = {1, 2}
    Targets = {1, 2}
    MaxRequests = 3
    MaxCancels = 0
    MaxResyncs = 1
    SkipWatched = 1
PROPERTY SyncedCallReturns
CHECK_DEADLOCK FALSE
