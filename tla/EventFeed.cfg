SPECIFICATION FairSpec
CONSTANTS
    MaxLog = 2
    MaxOutbound = 4
    MaxQueue = 1
    MaxCrashes = 1
    MaxLosses = 1
INVARIANT CursorCovered
PROPERTY ImplementsFeed
PROPERTY CatchesUp
CHECK_DEADLOCK FALSE
