CONSTANTS
    N = 3
    Keys = {1, 2, 3}
    TmpLens = {2}
SPECIFICATION Spec
INVARIANTS
    SortedInPlace
