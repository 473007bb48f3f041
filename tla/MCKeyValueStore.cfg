CONSTANTS
    Keys = {3, 9}
    Payloads <- SmallPayloads
    Records <- KeyValueRecords
    MaxRecords = 4
    MaxBytes = 18
    MaxObjects = 2
    Calls = {"set", "get", "sort", "begin", "reopen"}
    Compare <- StoreCompare
SPECIFICATION KeyValueSpec
PROPERTIES
    GetAnswersKey
    SetDiesOnlyWhileReading
CHECK_DEADLOCK FALSE
