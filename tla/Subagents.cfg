SPECIFICATION FairSpec
CONSTANTS
    Children = {c1}
    Senders = {s1}
    MaxSlots = 2
    MaxInbox = 1
    MaxWakes = 1
    MaxEpochs = 2
    MaxCrashes = 1
    Kills = TRUE
    Resumes = TRUE
    None = None
INVARIANTS OneFanInPerEpoch NoticeFollowsFanIn
PROPERTIES EveryFanInNoticed 
CHECK_DEADLOCK FALSE
