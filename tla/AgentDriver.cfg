SPECIFICATION FairSpec
CONSTANTS
    Messages = {m1, m2}
    MaxSteps = 0
    MaxCancels = 1
    MaxMaintenance = 1
    MaxNesting = 2
    MaxRefusals = 1
INVARIANTS
    TypeOK
    IdleOwesNothing
PROPERTIES
    WakesAreServed
    AgentConverges
CHECK_DEADLOCK FALSE
