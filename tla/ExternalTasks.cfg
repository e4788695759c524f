SPECIFICATION FairSpec
CONSTANTS
    Tasks = {t1}
    Callbacks = {c1}
    Scanner = scanner
    None = none
    MaxCrashes = 1
INVARIANT
    SubmittedOnce
PROPERTIES
    WaitEnds
    EndStays
CHECK_DEADLOCK FALSE
