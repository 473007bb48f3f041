CONSTANTS
    Records = {1, 2}
    Strangers = {0, 3}
    MaxInput = 4
    RunSizes = {1, 2, 3}
    Comparators = {"faults", "least", "greatest"}
    MaxOut = 3
SPECIFICATION Spec
INVARIANTS
    TypeOK
    HeapHoldsOpenFiles
    ReplacedOnlyWhenEmpty
PROPERTIES
    InitialRunsEnd
CHECK_DEADLOCK FALSE
