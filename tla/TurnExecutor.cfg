SPECIFICATION FairSpec
CONSTANTS
    Workers = {w1, w2, w3}
    Bodies <- MCBodies
    Session <- MCSession
    Capacity = 2
    None = "none"
INVARIANTS InFlightExact NobodySleepsBesideWork QuiescedIsFinal
PROPERTIES AcceptedBodiesRun DrainEnds
CHECK_DEADLOCK FALSE
