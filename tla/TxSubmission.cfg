SPECIFICATION TxSpec
CONSTANTS
    recvA = recvA
    recvB = recvB
    create = create
    a = a
    b = b
    pkt = pkt
    clt = clt
    Requests <- MCRequests
    Kind <- MCKind
    Subject <- MCSubject
    Signer <- MCSigner
    Attested = {}
    MaxFaults = 2
INVARIANTS
    
    
    EffectsAccountedFor
PROPERTIES
    EveryMessageSettles
CHECK_DEADLOCK FALSE
