SPECIFICATION Spec
CONSTANTS
    w1 = w1
    w2 = w2
    prospect = prospect
    attorney = attorney
    NoWorker = NoWorker
    Skip = Skip
    Workers = {w1, w2}
    Wanted = {prospect, attorney}
    MaxAttempts = 1
    MaxAmbiguous = 0
    MaxCrashes = 1
    MaxDbFaults = 1
    MaxLockLosses = 1
INVARIANT TypeOK
INVARIANT NoDuplicateRows
INVARIANT SentMeansDelivered
INVARIANT ReturnedMeansRecorded
INVARIANT OverlapExplained
INVARIANT CopiesExplained
PROPERTY CallsReturn
