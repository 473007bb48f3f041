CONSTANTS
    N = 3
    Ranks = {0, 1, 2}
    MaxWord = 7
    Lens = {1, 3}
    Builds <- AllBuilds
SPECIFICATION PairSpec
INVARIANTS
    PairTypeOK
    RewriteSplit
    BulkIsComplete
    SortedAndTiled
    SecondaryFollowsPrimary
PROPERTIES
    PairReturns
