SPECIFICATION TrackerSpec
CONSTANTS
    None = None
    NoBytes = NoBytes
    c = c
    p = p
    r = r
    other = other
    Keys <- MCKeys
    Values = {"v1", "v2"}
    TreeDepth = 2
    KeyIndex <- MCKeyIndex
    Router = r
    Contracts <- MCContracts
    Receipts = {p}
    ChangeLists <- MCChangeLists
    IbcContractId = r
    MaxLedger = 4
    MaxFailures = 2
    MaxRestarts = 1
INVARIANTS
    NeverBehind
    NewestHeightConsistent
PROPERTIES
    ServedRootsStable
    
CHECK_DEADLOCK FALSE
