SPECIFICATION TransferSpec
CONSTANTS
    None = None
    u1 = u1
    u2 = u2
    Escrow = Escrow
    Users <- MCUsers
    Denoms = {"XLM"}
    Amounts = {0, 1, 2}
    Payloads <- MCPayloads
    AppAcks = {"0x01", "{result}", "error"}
    Caps = {0, 2}
    SecsPerDay = 2
    MaxIssued = 4
    MaxTime = 3
    MaxHeight = 1
INVARIANTS
    TransferTypeOK
    SupplyConserved
    
CHECK_DEADLOCK FALSE
