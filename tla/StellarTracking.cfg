SPECIFICATION FairTrackingSpec
CONSTANTS
    None = None
    NoBytes = NoBytes
    c = c
    p = p
    r = r
    other = other
    n1 = n1
    Keys <- MCKeys
    Values = {"v1", "v2"}
    TreeDepth = 1
    KeyIndex <- MCKeyIndex
    Router = r
    Contracts <- MCContracts
    Receipts = {p}
    ChangeLists <- MCChangeLists
    IbcContractId = r
    MaxLedger = 3
    MaxFailures = 1
    MaxRestarts = 0
    WasmHeights = {1, 2, 3}
    WasmTimes = {}
    LedgerHashes = {}
    StateRoots = {}
    Validators = {n1}
    TrustedValidators = {n1}
    Envelopes = {}
INVARIANTS
    
    ReceiptAbsenceTrueSinceBase
    HeadersNeverConflict

    
CHECK_DEADLOCK FALSE
