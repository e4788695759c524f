SPECIFICATION ResumeSpec
CONSTANTS
    Messages = {m1, m2}
    MaxSteps = 0
    MaxCancels = 1
    MaxMaintenance = 0
    MaxNesting = 2
    MaxRefusals = 1
    MaxCrashes = 1
SYMMETRY Symmetry
INVARIANTS
    LogIsWellFormed
    InboxIsReplay
    RepairTellsStarted
    EveryMessageAccounted
    AccountHidesNothing
CHECK_DEADLOCK FALSE
