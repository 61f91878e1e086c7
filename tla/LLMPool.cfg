SPECIFICATION FairSpec
CONSTANTS
    Workers = {w1, w2, w3}
    Capacity = 1
    MaxTickets = 4
INVARIANT NobodyStranded
PROPERTIES ServedInOrder ImplementsSlotPool AcquireEnds
CHECK_DEADLOCK FALSE
