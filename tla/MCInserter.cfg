CONSTANTS
    Sizes = {1, 2}
    GivenIds = {0}
    BufSize = 2
    MaxWords = 4
    MaxStarts = 2
SPECIFICATION Spec
INVARIANTS
    TypeOK
    IndexNeverAhead
    EntriesDescribeRecords
    IndexesAgree
    ClosedIsWhole
PROPERTIES
    CrashLosesOneBuffer
CHECK_DEADLOCK FALSE
