SPECIFICATION WasmSpec
CONSTANTS
    None = None
    NoBytes = NoBytes
    Keys = {}
    Values = {}
    TreeDepth = 0
    KeyIndex <- MCKeyIndex
    n1 = n1
    n2 = n2
    WasmHeights = {1, 2, 3, 4}
    WasmTimes = {1}
    LedgerHashes = {"a"}
    StateRoots = {"r1", "r2"}
    Validators = {n1, n2}
    TrustedValidators = {n1}
    Envelopes <- MCEnvelopes
INVARIANTS
    LatestIsHighestStored
    
PROPERTIES
    ConsensusStatesPermanent
CHECK_DEADLOCK FALSE
