SPECIFICATION FairBridgeSpec
CONSTANTS
    None = None
    k1 = k1
    k2 = k2
    a1 = a1
    ClientLc = "attestation"
    Client <- MCClient
    AttestorKeys <- MCKeys
    Roots <- MCRoots
    Counterparties <- MCCounterparties
    ClientInputs <- MCAttInputs
    ClientMessages = {}
    ClientTypes = {"client"}
    MaxClients = 1
    BlockInterval = 1
    TicksPerSecond = 2
    MaxTime = 3
    MaxHeight = 4
    Ports = {"transfer"}
    Apps = {a1}
    Values = {"data"}
    PayloadLists <- MCPayloadLists
    AckLists <- MCAckLists
    Proofs = {}
    MaxSeq = 1
INVARIANTS
    TrueHeadersNeverFreeze
PROPERTIES
    ImplementsLifecycle
    EverySentPacketResolves
CHECK_DEADLOCK FALSE
