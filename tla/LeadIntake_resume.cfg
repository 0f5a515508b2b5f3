SPECIFICATION Spec
CONSTANTS
    v1 = v1
    Visitors = {v1}
    MaxTries = 2
    MaxStoreFaults = 0
    MaxInsertFaults = 1
    MaxTornCommits = 1
    MaxLostAnswers = 0
    MaxCrashes = 0
INVARIANT LeadHasResume
