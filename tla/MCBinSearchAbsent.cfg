CONSTANTS
    MaxRecords = 5
    Ranks = {0, 1, 2, 3, 4, 5, 6}
    MaxWord = 15
SPECIFICATION Spec
INVARIANTS
    AbsentGivesEnd
