SPECIFICATION RouterSpec
CONSTANTS
    None = None
    r1 = r1
    r2 = r2
    a1 = a1
    AttestorKeys = {}
    Roots <- MCRoots
    Counterparties <- MCCounterparties
    ClientInputs <- MCClientInputs
    ClientMessages <- MCClientMessages
    ClientTypes = {"07-tendermint"}
    MaxClients = 1
    MaxTime = 2
    MaxHeight = 2
    Ports = {"transfer"}
    Apps = {a1}
    Values = {"data"}
    PayloadLists <- MCPayloadLists
    AckLists <- MCAckLists
    Proofs = {"proof"}
    MaxSeq = 2
INVARIANTS
    OneOutcome
    OutcomeOfSentPacket
    DeliveredOnce
    
PROPERTIES
    ReceiptsPermanent
    FrozenMovesNoPacket
CHECK_DEADLOCK FALSE
