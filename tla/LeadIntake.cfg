SPECIFICATION Spec
CONSTANTS
    v1 = v1
    Visitors = {v1}
    MaxTries = 3
    MaxStoreFaults = 2
    MaxInsertFaults = 1
    MaxTornCommits = 1
    MaxLostAnswers = 2
    MaxCrashes = 1
INVARIANT TypeOK
INVARIANT CreatedIsComplete
INVARIANT DanglingExplained
INVARIANT OrphansExplained
INVARIANT SecondLeadExplained
PROPERTY CreatedIsDispatched
PROPERTY FormSettles
