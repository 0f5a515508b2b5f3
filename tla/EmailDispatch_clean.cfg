SPECIFICATION Spec
CONSTANTS
    w1 = w1
    w2 = w2
    w3 = w3
    prospect = prospect
    attorney = attorney
    NoWorker = NoWorker
    Skip = Skip
    Workers = {w1, w2, w3}
    Wanted = {prospect, attorney}
    MaxAttempts = 2
    MaxAmbiguous = 1
    MaxCrashes = 1
    MaxDbFaults = 0
    MaxLockLosses = 0
INVARIANT Settled
PROPERTY ImplementsLedger
