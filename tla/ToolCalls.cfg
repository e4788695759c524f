SPECIFICATION FairSpec
CONSTANTS
    NCalls = 3
    MaxParallel = 2
    MaxReclassified = 1
INVARIANTS
    ModelOrder
    ExclusiveAlone
    PoolBounded
    OverMeansOver
    TranscriptTellsTruth
PROPERTY
    SchedulerReturns
CHECK_DEADLOCK FALSE
