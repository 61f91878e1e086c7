SPECIFICATION Spec
CONSTANTS
    MaxLog = 1
    MaxOutbound = 6
    MaxQueue = 1
    MaxCrashes = 1
    MaxLosses = 0
INVARIANT ScreenComplete
CHECK_DEADLOCK FALSE
