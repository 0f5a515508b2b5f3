SPECIFICATION Spec
CONSTANTS
    MaxLeads = 4
    PageSize = 2
    MaxPage = 4
    MaxOffset = 5
INVARIANT TypeOK
INVARIANT MissedExplained
INVARIANT EmptyExplained
PROPERTY PageEnds
