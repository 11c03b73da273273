--------------------------- MODULE TransferBridge ---------------------------
(***************************************************************************)
(* The transfer contract behind the router of PacketBridge: a packet and   *)
(* the token movement that goes with it are one transaction, so a callback *)
(* that panics also keeps the router from recording the packet's outcome.  *)
(* A second application, that keeps no state and accepts everything,       *)
(* shares the router.  Packets carry one payload, as initiate_transfer     *)
(* sends them.                                                             *)
(***************************************************************************)
EXTENDS PacketBridge, IbcTransfer

CONSTANTS
    TransferApp,    \* address of the transfer contract on the router's ports
    OtherApp,
    OtherPort,
    Receivers       \* receivers of outgoing transfers

bridgeTransferVars == <<bridgeVars, transferVars>>

ASSUME TransferBridgeAssumption ==
    /\ TransferApp # OtherApp
    /\ \A ps \in PayloadLists : Len(ps) = 1

AppAt(port) == portApp[port]

-----------------------------------------------------------------------------

TransferBridgeInit == BridgeInit /\ TransferInit

BindPort ==
    /\ \/ RegisterPort(PORT, TransferApp)
       \/ RegisterPort(OtherPort, OtherApp)
    /\ UNCHANGED transferVars

(* initiate_transfer with the send_packet call it makes. *)
SendTransfer ==
    \E u \in Users, d \in Denoms, amt \in Amounts, rcv \in Receivers, timeout \in Times :
        /\ InitiateTransfer(u, d, amt)
        /\ SendPacket(Client, timeout, <<TransferPayload(OutgoingValue(u, d, amt, rcv))>>,
                      {TransferApp})

SendOther ==
    /\ \E timeout \in Times, ps \in PayloadLists : SendPacket(Client, timeout, ps, {OtherApp})
    /\ UNCHANGED transferVars

(* The callback of the application a payload belongs to. *)
CallOnRecv(payload, ack) ==
    IF AppAt(payload.dest_port) = TransferApp
        THEN OnRecvPacket(payload) /\ ack = SuccessAck
        ELSE UNCHANGED transferVars

CallOnAck(payload, ack) ==
    IF AppAt(payload.source_port) = TransferApp
        THEN OnAcknowledgementPacket(payload, ack)
        ELSE UNCHANGED transferVars

CallOnTimeout(payload) ==
    IF AppAt(payload.source_port) = TransferApp
        THEN OnTimeoutPacket(payload)
        ELSE UNCHANGED transferVars

(* The packets a relayer has seen leave either chain. *)
PacketsIn == {cosmosSent[s] : s \in Seqs} \ {None}

PacketsOut == {sendEvent[<<Client, s>>] : s \in Seqs} \ {None}

RelayTransferRecv ==
    \E p \in PacketsIn, h \in 1..cosmosHeight, acks \in AckLists :
        /\ RecvPacket(p, ProofAt(h), h, acks)
        /\ Honest(h, PACKET_COMMITMENT_DISCRIMINATOR, p.sequence, CommitV2Packet(p))
        /\ CallOnRecv(p.payloads[1], acks[1])

RelayTransferAck ==
    \E p \in PacketsOut, h \in 1..cosmosHeight, acks \in AckLists :
        /\ AcknowledgePacket(p, acks, ProofAt(h), h)
        /\ Honest(h, ACK_COMMITMENT_DISCRIMINATOR, p.sequence, CommitV2Acknowledgement(acks))
        /\ CallOnAck(p.payloads[1], AckOf(acks, 1))

RelayTransferTimeout ==
    \E p \in PacketsOut, h \in 1..cosmosHeight :
        /\ TimeoutPacket(p, ProofAt(h), h)
        /\ Honest(h, PACKET_RECEIPT_DISCRIMINATOR, p.sequence, EmptyValue)
        /\ CallOnTimeout(p.payloads[1])

TransferBridgeNext ==
    \/ /\ BindPort \/ SendTransfer \/ SendOther
          \/ RelayTransferRecv \/ RelayTransferAck \/ RelayTransferTimeout
       /\ UNCHANGED <<clientVars, now, cosmosVars>>
    \/ /\ \/ \E u \in Users, d \in Denoms, amt \in Amounts : Mint(u, d, amt)
          \/ \E d \in Denoms, cap \in Caps : SetRateLimit(d, cap)
       /\ UNCHANGED bridgeVars
    \/ RelayUpdate /\ UNCHANGED <<now, packetVars, cosmosVars, transferVars>>
    \/ LedgerClose /\ UNCHANGED <<clientVars, packetVars, cosmosVars, transferVars>>
    \/ CosmosNext /\ UNCHANGED <<routerVars, transferVars>>

TransferBridgeSpec == TransferBridgeInit /\ [][TransferBridgeNext]_bridgeTransferVars

(* The fairness of PacketBridge, for the calls composed here. *)
FairTransferBridgeSpec ==
    /\ TransferBridgeSpec
    /\ WF_bridgeTransferVars(RelayUpdate /\ UNCHANGED <<now, packetVars, cosmosVars, transferVars>>)
    /\ WF_bridgeTransferVars(RelayTransferAck /\ UNCHANGED <<clientVars, now, cosmosVars>>)
    /\ WF_bridgeTransferVars(RelayTransferTimeout /\ UNCHANGED <<clientVars, now, cosmosVars>>)
    /\ WF_bridgeTransferVars(CosmosBlock /\ UNCHANGED <<routerVars, transferVars>>)

-----------------------------------------------------------------------------

SentTransfers(d) ==
    {s \in Seqs : LET p == sendEvent[<<Client, s>>]
                  IN  /\ p # None
                      /\ AppAt(p.payloads[1].source_port) = TransferApp
                      /\ p.payloads[1].value.data.denom = d}

AmountOf(s) == sendEvent[<<Client, s>>].payloads[1].value.data.amount

Failed(s) ==
    \/ TimedOut(<<Client, s>>) # <<>>
    \/ /\ Acknowledged(<<Client, s>>) # <<>>
       /\ ~IsSuccessAck(AckOf(Acknowledged(<<Client, s>>)[1].acks, 1))

(* The escrow of a denom holds exactly the transfers the router recorded,    *)
(* less those whose failure it recorded: a packet never leaves without its   *)
(* tokens in escrow, and tokens never enter it without a packet.             *)
EscrowMatchesPackets ==
    \A d \in Denoms :
        balance[<<Escrow, d>>] =
            MapThenSumSet(AmountOf, {s \in SentTransfers(d) : ~Failed(s)})

(* What the counterparty minted against Stellar tokens, on every packet it    *)
(* received and answered with success, is in escrow here.                     *)
VouchersBacked ==
    \A d \in Denoms :
        MapThenSumSet(AmountOf,
            {s \in SentTransfers(d) : /\ cosmosReceived[s] # None
                                      /\ IsSuccessAck(cosmosReceived[s].acks[1])})
            <= balance[<<Escrow, d>>]

(* Tokens appear here by mint, or by a packet the counterparty sent: however *)
(* often a packet is relayed, its amount is credited once.                   *)
CreditedOncePerPacket ==
    \A d \in Denoms :
        TotalBalance(d) = issued[<<"mint", d>>] +
            MapThenSumSet(LAMBDA s : cosmosSent[s].payloads[1].value.data.amount,
                {s \in Seqs : /\ packetReceipt[<<Client, s>>]
                              /\ AppAt(cosmosSent[s].payloads[1].dest_port) = TransferApp
                              /\ cosmosSent[s].payloads[1].value.data.denom = d})

(* A transfer that did not go through is undone: once the counterparty has    *)
(* answered with an error, that acknowledgement is processed here, which is   *)
(* the transaction that pays the sender back out of the escrow.               *)
ErrorAckRefunds ==
    \A s \in Seqs :
        (/\ cosmosReceived[s] # None
         /\ AppAt(sendEvent[<<Client, s>>].payloads[1].source_port) = TransferApp
         /\ ~IsSuccessAck(cosmosReceived[s].acks[1]))
            ~> Acknowledged(<<Client, s>>) # <<>>
=============================================================================
