SPECIFICATION Spec
CONSTANTS
    w1 = w1
    w2 = w2
    prospect = prospect
    attorney = attorney
    NoWorker = NoWorker
    Skip = Skip
    Workers = {w1, w2}
    Wanted = {prospect, attorney}
    MaxAttempts = 2
    MaxAmbiguous = 0
    MaxCrashes = 0
    MaxDbFaults = 1
    MaxLockLosses = 0
INVARIANT DeliveriesSerialized
