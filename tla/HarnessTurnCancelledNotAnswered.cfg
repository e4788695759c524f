CONSTANTS
    w1 = w1
    w2 = w2
    w3 = w3
    t1 = t1
    t2 = t2
    d1 = d1
    d2 = d2
    f1 = f1
    f2 = f2
    none = none
    None = none
    Workers <- MCWorkers
    Turns <- OnlyTurn
    Digests <- MCDigests
    Frames <- MCFrames
    TurnOf <- Retried
    DigestOf <- SameDigest
    MayLapse = FALSE
    MayStall = FALSE
SPECIFICATION Spec
INVARIANT
    CancelledNotAnswered
CHECK_DEADLOCK FALSE
