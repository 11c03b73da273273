SPECIFICATION ClientSpec
CONSTANTS
    None = None
    k1 = k1
    k2 = k2
    r1 = r1
    r2 = r2
    AttestorKeys <- MCKeys
    Roots <- MCRoots
    Counterparties <- MCCounterparties
    ClientInputs <- MCClientInputs
    ClientMessages <- MCClientMessages
    ClientTypes = {"ibc-client"}
    MaxClients = 2
    MaxTime = 2
    MaxHeight = 3
INVARIANTS
    ClientTypeOK
    StateFitsLightClient
    FreezeReachesLightClient
PROPERTIES
    FrozenIsFinal
    TrustOnlyGrows
    BindingsPermanent
CHECK_DEADLOCK FALSE
