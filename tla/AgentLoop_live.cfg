SPECIFICATION FairSpec
CONSTANTS
    Calls <- PokedCalls
    Kind <- Poked
    MaxInbox = 1
    MaxTurnSteps = 2
    Controls = {"cancel", "suspend"}
    MaxControls = 1
    Watches = TRUE
    Disposes = TRUE
    None = "none"
PROPERTIES EveryTurnEnds SettlesAfterTerminal
CHECK_DEADLOCK FALSE
