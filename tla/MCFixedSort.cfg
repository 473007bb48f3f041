CONSTANTS
    N = 4
    Keys = {1, 2, 3, 4}
    TmpLens = {0, 1, 2, 3}
SPECIFICATION FairSpec
INVARIANTS
    TypeOK
    BlocksKept
PROPERTIES
    SortReturns
