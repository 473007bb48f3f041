CONSTANTS
    Records <- SmallRecords
    MaxRecords = 3
    MaxBytes = 4
    MaxObjects = 2
    Calls <- AllCalls
    Compare <- LexCompare
SPECIFICATION Spec
INVARIANTS
    TypeOK
    MappingIsCurrent
    SortedFlagIsTrue
PROPERTIES
    SortedStoreSurvives
    InsertDiesOnlyWhileReading
    SortedSearchAnswers
    ImplementsStore
CHECK_DEADLOCK FALSE
