CONSTANTS
    Sizes = {1, 2}
    GivenIds = {0}
    BufSize = 2
    MaxWords = 4
    MaxStarts = 2
SPECIFICATION Spec
INVARIANTS
    AppendedEntriesDescribeRecords
CHECK_DEADLOCK FALSE
