CONSTANTS
    j1 = j1
    h1 = h1
    h2 = h2
    none = none
    None = none
    Jobs <- MCJobs
    Handles <- MCHandles
    MaxWorkers = 2
    MaxEvents = 3
SPECIFICATION FairSpec
INVARIANTS
    TypeOK
    OutcomeInLog
    ExecutedOnce
    StreamDeliversOutcome
    ShutdownDrains
PROPERTIES
    OutcomeFinal
    SessionReleased
    JobSettles
CHECK_DEADLOCK FALSE
