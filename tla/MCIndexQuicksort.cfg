CONSTANTS
    N = 5
    Ranks = {0, 1, 2, 3, 4}
    MaxWord = 7
SPECIFICATION FairSpec
INVARIANTS
    TypeOK
    EachRangeOnce
    OrderedAcrossSpans
PROPERTIES
    SettledSlotsStay
    SortTerminates
    ImplementsSort
