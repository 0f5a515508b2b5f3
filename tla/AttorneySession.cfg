SPECIFICATION Spec
CONSTANTS
    Users = {u1, u2}
    Paths = {list, lead}
    Home = list
    NoPath = NoPath
    MaxTokens = 2
INVARIANT TypeOK
INVARIANT MisattributionExplained
INVARIANT SignedOutExplained
INVARIANT ShownIsWanted
PROPERTY VisitSettles
