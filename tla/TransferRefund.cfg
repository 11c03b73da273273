SPECIFICATION FairTransferBridgeSpec
CONSTANTS
    None = None
    u1 = u1
    k1 = k1
    ClientLc = "tendermint"
    Client <- MCClient
    AttestorKeys = {k1}
    Roots <- MCRoots
    Counterparties <- MCCounterparties
    ClientInputs <- MCTmInputs
    ClientMessages = {}
    ClientTypes = {"client"}
    MaxClients = 1
    BlockInterval = 1
    TicksPerSecond = 2
    MaxTime = 2
    MaxHeight = 3
    Ports = {"transfer", "other"}
    OtherPort = "other"
    TransferApp = "transfer_app"
    OtherApp = "other_app"
    Apps = {"transfer_app", "other_app"}
    Values <- MCValues
    PayloadLists <- MCPayloadLists
    AckLists <- MCAckLists
    Proofs = {}
    MaxSeq = 1
    Escrow = Escrow
    Users <- MCUsers
    Receivers <- MCReceivers
    Denoms = {"XLM"}
    Amounts = {1}
    Payloads = {}
    AppAcks = {}
    Caps = {0}
    SecsPerDay = 2
    MaxIssued = 1
PROPERTIES
    ErrorAckRefunds
CHECK_DEADLOCK FALSE
