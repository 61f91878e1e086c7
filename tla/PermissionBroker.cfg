SPECIFICATION FairSpec
CONSTANTS
    Requests = {r1}
    ForceAsk = {}
    Clients = {c1, c2}
    Timeouts = TRUE
INVARIANTS PostedDialogsClose NothingPendingAfterShutdown ClaimedOrPending
PROPERTIES FirstDecisionWins RequestBeforeNotice EveryRequestAnswered
CHECK_DEADLOCK FALSE
