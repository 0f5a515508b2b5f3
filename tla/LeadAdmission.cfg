SPECIFICATION Spec
CONSTANTS
    Visitors = {v1}
    Drafts <- AllDrafts
    MaxName = 2
    MaxBytes = 3
    Overhead = 2
    Framing = 1
    Limit = 2
    Period = 2
    MaxTime = 4
    MaxRestarts = 1
INVARIANT TypeOK
INVARIANT FormMirrorsApi
INVARIANT ShownIsTrue
INVARIANT BurstExplained
INVARIANT LimitedExplained
