--------------------------- MODULE MCTxSubmission ---------------------------
(* Two relayers deliver one packet from accounts a and b; the relayer at a  *)
(* creates a client meanwhile.                                              *)
EXTENDS TxSubmission, TLC

CONSTANTS recvA, recvB, create, a, b, pkt, clt

MCRequests == {recvA, recvB, create}

MCKind == (recvA :> "RecvPacket" @@ recvB :> "RecvPacket" @@ create :> "CreateClient")

MCSubject == (recvA :> pkt @@ recvB :> pkt @@ create :> clt)

MCSigner == (recvA :> a @@ recvB :> b @@ create :> a)
=============================================================================
