SPECIFICATION Spec
CONSTANTS
    Workers = {w1, w2, w3}
    Turns = {w1, w2}
    Capacity = 1
INVARIANTS EveryStreamHoldsASlot
CHECK_DEADLOCK FALSE
