CONSTANTS
    w1 = w1
    w2 = w2
    w3 = w3
    t1 = t1
    t2 = t2
    d1 = d1
    d2 = d2
    f1 = f1
    f2 = f2
    none = none
    None = none
    Workers <- MCWorkers
    Turns <- MCTurns
    Digests <- MCDigests
    Frames <- MCFrames
    TurnOf <- TwoTurns
    DigestOf <- SameDigest
    MayLapse = TRUE
    MayStall = FALSE
SPECIFICATION Spec
INVARIANT
    AttemptsPaired

    
CHECK_DEADLOCK FALSE
