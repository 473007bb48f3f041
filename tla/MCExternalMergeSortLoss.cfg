CONSTANTS
    Records = {1, 2}
    Strangers = {}
    MaxInput = 4
    RunSizes = {1, 2, 3}
    Comparators = {"least"}
    MaxOut = 3
SPECIFICATION Spec
INVARIANTS
    SortKeepsRecords
CHECK_DEADLOCK FALSE
