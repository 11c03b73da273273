SPECIFICATION SmtSpec
CONSTANTS
    None = None
    NoBytes = NoBytes
    p1 = p1
    p2 = p2
    p3 = p3
    Keys <- MCKeys
    Values = {NoBytes, "v1", "v2"}
    TreeDepth = 3
    KeyIndex <- MCKeyIndex
INVARIANTS
    FreshProofsVerify
    StaleProofsSound
    VerifiersAgree
    RootBindsTree
