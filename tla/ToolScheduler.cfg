SPECIFICATION FairSpec
CONSTANTS
    N = 4
    Bound = 2
INVARIANTS ResultsInModelOrder EveryCallAnswered ExclusiveAlone AbortDrains RequestsInOrder
PROPERTIES ScheduleEnds
CHECK_DEADLOCK FALSE
