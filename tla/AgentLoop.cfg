SPECIFICATION Spec
CONSTANTS
    Calls <- ChatCalls
    Kind <- Chat
    MaxInbox = 2
    MaxTurnSteps = 1
    Controls = {"cancel"}
    MaxControls = 1
    Watches = FALSE
    Disposes = TRUE
    None = "none"
INVARIANTS OneDriver OneTerminalPerTurn ItemsConserved
CHECK_DEADLOCK FALSE
