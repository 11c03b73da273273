---------------------------- MODULE PacketBridge ----------------------------
(***************************************************************************)
(* The router with its light client, the counterparty chain and relayers.  *)
(*                                                                         *)
(* The counterparty (Cosmos, ibc-go) is external; it is modelled from what *)
(* the router expects of it.  Blocks come at fixed intervals, and a header *)
(* commits to the state before its transactions.  Relayers submit all they *)
(* have seen, at any time, in any order and as often as they like: a call  *)
(* may be late, repeated or never made.  Whoever attests to the            *)
(* counterparty (the attestors, or the relayers of a tendermint client,    *)
(* whose proofs the contract does not check) attests to what it stored.    *)
(***************************************************************************)
EXTENDS IbcRouter, TendermintCodec

CONSTANTS
    ClientLc,       \* the light client deployed for the client
    BlockInterval,  \* seconds between blocks of the counterparty
    Client          \* the local client of the one pairing of the model

VARIABLES
    cosmosHeight,     \* the block being executed
    cosmosHistory,    \* height -> the state its header commits to
    cosmosSent,       \* sequence -> packet sent to this chain
    cosmosOutcome,    \* sequence -> outcome of that packet
    cosmosReceived    \* sequence -> packet received from this chain, and acks

cosmosVars == <<cosmosHeight, cosmosHistory, cosmosSent, cosmosOutcome, cosmosReceived>>

bridgeVars == <<routerVars, cosmosVars>>

Peer == CHOOSE cp \in Counterparties : TRUE

\* In seconds, and, for tendermint, as late as it can be within that second.
BlockTime(h) == 1 + (h - 1) * BlockInterval

BlockTicks(h) == (BlockTime(h) + 1) * TicksPerSecond - 1

CosmosState == [sent |-> cosmosSent, outcome |-> cosmosOutcome, received |-> cosmosReceived]

PeerPath(discriminator, seq) ==
    CounterpartyV2Path(Peer.commitment_prefix, Peer.client_id, discriminator, seq)

(* What the store of the counterparty holds, and does not hold, at height h. *)
Facts(h) ==
    LET st == cosmosHistory[h]
        holds(disc, seq, v) == [path |-> PeerPath(disc, seq), value |-> v]
    IN  {holds(PACKET_COMMITMENT_DISCRIMINATOR, s, CommitV2Packet(st.sent[s])) :
            s \in {q \in Seqs : st.sent[q] # None /\ st.outcome[q] = None}}
        \cup
        {holds(ACK_COMMITMENT_DISCRIMINATOR, s, CommitV2Acknowledgement(st.received[s].acks)) :
            s \in {q \in Seqs : st.received[q] # None}}
        \cup
        {holds(PACKET_RECEIPT_DISCRIMINATOR, s, EmptyValue) :
            s \in {q \in Seqs : st.received[q] = None}}

Attestors == CHOOSE keys \in [1..Cardinality(AttestorKeys) -> AttestorKeys] :
                 \A k \in AttestorKeys : \E i \in DOMAIN keys : keys[i] = k

Attested(data) ==
    [kind |-> "attestation_proof", attestation_data |-> data,
     signer_indices |-> [i \in DOMAIN Attestors |-> i - 1],
     signatures     |-> [i \in DOMAIN Attestors |-> Signature(Attestors[i], data)]]

(* The proof a relayer has for height h, and the claims it supports.  The     *)
(* attestation client checks the claim itself; a relayer that serves a        *)
(* tendermint client makes only such claims.                                  *)
ProofAt(h) == Attested([kind |-> "packet_attestation", height |-> h, packets |-> Facts(h)])

Honest(h, discriminator, seq, value) ==
    ClientLc = "tendermint" =>
        [path |-> PeerPath(discriminator, seq), value |-> value] \in Facts(h)

ProofsSoFar == {ProofAt(h) : h \in 1..cosmosHeight}

(* The client message for block h. *)
HeaderAt(h) ==
    IF ClientLc = "tendermint"
        THEN tendermint_header_to_soroban_xdr(
                 [height |-> h, time |-> BlockTicks(h), app_hash |-> h])
        ELSE Attested([kind |-> "state_attestation", height |-> h,
                       timestamp |-> BlockTime(h)])

-----------------------------------------------------------------------------

(* The client has been created at height 1 and paired with its counterparty. *)
BridgeInit ==
    /\ cosmosHeight = 1
    /\ cosmosSent = [s \in Seqs |-> None]
    /\ cosmosOutcome = [s \in Seqs |-> None]
    /\ cosmosReceived = [s \in Seqs |-> None]
    /\ cosmosHistory = [h \in Heights |-> IF h = 1 THEN CosmosState ELSE None]
    /\ now = 0
    /\ PacketInit
    /\ clientTypeAddr = [t \in ClientTypes |-> ClientLc]
    /\ nextClientId = [t \in ClientTypes |-> 1]
    /\ clientLcAddr = [c \in ClientIds |-> ClientLc]
    /\ counterparty = [c \in ClientIds |-> Peer]
    /\ routerFrozen = [c \in ClientIds |-> FALSE]
    /\ \E in \in ClientInputs :
           lcState = [c \in ClientIds |->
                         Initialise(ClientLc, in.client_state, in.consensus_state, in.height)]

(* Relayers and applications calling the router.  The proof of one height may *)
(* be submitted with another one.                                             *)
RelayUpdate == \E h \in 1..cosmosHeight : UpdateClient(Client, HeaderAt(h))

RelaySend ==
    \E timeout \in Times, ps \in PayloadLists : SendPacket(Client, timeout, ps, Apps)

RelayRecv ==
    \E proof \in ProofsSoFar, p \in InPackets, h \in 1..cosmosHeight, acks \in AckLists :
        /\ RecvPacket(p, proof, h, acks)
        /\ Honest(h, PACKET_COMMITMENT_DISCRIMINATOR, p.sequence, CommitV2Packet(p))

RelayAck ==
    \E proof \in ProofsSoFar, p \in OutPackets, h \in 1..cosmosHeight,
       acks \in AckLists \cup {<<ErrorAckHash>>} :
        /\ AcknowledgePacket(p, acks, proof, h)
        /\ Honest(h, ACK_COMMITMENT_DISCRIMINATOR, p.sequence, CommitV2Acknowledgement(acks))

RelayTimeout ==
    \E proof \in ProofsSoFar, p \in OutPackets, h \in 1..cosmosHeight :
        /\ TimeoutPacket(p, proof, h)
        /\ Honest(h, PACKET_RECEIPT_DISCRIMINATOR, p.sequence, EmptyValue)

(* The counterparty begins its next block. *)
CosmosBlock ==
    /\ cosmosHeight < MaxHeight
    /\ cosmosHeight' = cosmosHeight + 1
    /\ cosmosHistory' = [cosmosHistory EXCEPT ![cosmosHeight'] = CosmosState]
    /\ UNCHANGED <<cosmosSent, cosmosOutcome, cosmosReceived>>

CosmosSend(s, timeout, ps) ==
    /\ cosmosSent[s] = None
    /\ \A q \in 1..(s - 1) : cosmosSent[q] # None
    /\ timeout > BlockTime(cosmosHeight)
    /\ cosmosSent' = [cosmosSent EXCEPT ![s] =
           [sequence |-> s, source_client |-> Peer.client_id, dest_client |-> Client,
            timeout_timestamp |-> timeout, payloads |-> ps]]
    /\ UNCHANGED <<cosmosHeight, cosmosHistory, cosmosOutcome, cosmosReceived>>

(* A packet whose commitment was stored here, received before its timeout. *)
CosmosRecv(s, acks) ==
    /\ sendEvent[<<Client, s>>] # None
    /\ cosmosReceived[s] = None
    /\ BlockTime(cosmosHeight) < sendEvent[<<Client, s>>].timeout_timestamp
    /\ Len(acks) = Len(sendEvent[<<Client, s>>].payloads)
    /\ cosmosReceived' = [cosmosReceived EXCEPT ![s] =
           [packet |-> sendEvent[<<Client, s>>], acks |-> acks]]
    /\ UNCHANGED <<cosmosHeight, cosmosHistory, cosmosSent, cosmosOutcome>>

(* An acknowledgement stored here. *)
CosmosAck(s, acks) ==
    /\ cosmosSent[s] # None
    /\ cosmosOutcome[s] = None
    /\ ackCommitment[<<Client, s>>] = CommitV2Acknowledgement(acks)
    /\ cosmosOutcome' = [cosmosOutcome EXCEPT ![s] = [kind |-> "answered", answer |-> acks]]
    /\ UNCHANGED <<cosmosHeight, cosmosHistory, cosmosSent, cosmosReceived>>

(* A ledger closed here at or after the timeout without a receipt. *)
CosmosTimeout(s) ==
    /\ cosmosSent[s] # None
    /\ cosmosOutcome[s] = None
    /\ now >= cosmosSent[s].timeout_timestamp
    /\ ~packetReceipt[<<Client, s>>]
    /\ cosmosOutcome' = [cosmosOutcome EXCEPT ![s] = [kind |-> "timeout"]]
    /\ UNCHANGED <<cosmosHeight, cosmosHistory, cosmosSent, cosmosReceived>>

StellarNext ==
    \/ RelayUpdate /\ UNCHANGED <<now, packetVars>>
    \/ LedgerClose /\ UNCHANGED <<clientVars, packetVars>>
    \/ (RelaySend \/ RelayRecv \/ RelayAck \/ RelayTimeout
        \/ \E port \in Ports, app \in Apps : RegisterPort(port, app))
       /\ UNCHANGED <<clientVars, now>>

CosmosNext ==
    \/ CosmosBlock
    \/ \E s \in Seqs, timeout \in Times, ps \in PayloadLists : CosmosSend(s, timeout, ps)
    \/ \E s \in Seqs, acks \in AckLists : CosmosRecv(s, acks)
    \/ \E s \in Seqs, acks \in AckLists \cup {<<ErrorAckHash>>} : CosmosAck(s, acks)
    \/ \E s \in Seqs : CosmosTimeout(s)

BridgeNext ==
    \/ StellarNext /\ UNCHANGED cosmosVars
    \/ CosmosNext /\ UNCHANGED routerVars

BridgeSpec == BridgeInit /\ [][BridgeNext]_bridgeVars

(* Relayers keep the client up to date and relay outcomes, and blocks keep    *)
(* coming.  Nothing obliges the counterparty to receive a packet, nor an      *)
(* application to send one.                                                   *)
BridgeFairness ==
    /\ WF_bridgeVars(RelayUpdate /\ UNCHANGED <<now, packetVars, cosmosVars>>)
    /\ WF_bridgeVars(RelayAck /\ UNCHANGED <<clientVars, now, cosmosVars>>)
    /\ WF_bridgeVars(RelayTimeout /\ UNCHANGED <<clientVars, now, cosmosVars>>)
    /\ WF_bridgeVars(CosmosBlock /\ UNCHANGED routerVars)

FairBridgeSpec == BridgeSpec /\ BridgeFairness

-----------------------------------------------------------------------------

(* The packets of both directions, as PacketLifecycle sees them. *)
PacketIds == {"out", "in"} \X Seqs

OutDelivered(s) ==
    IF cosmosReceived[s] = None THEN None
    ELSE [content |-> cosmosReceived[s].packet, answer |-> cosmosReceived[s].acks]

InDelivered(s) ==
    LET calls == Received(<<Client, s>>)
    IN  IF calls = <<>> THEN None
        ELSE [content |-> calls[1].packet, answer |-> calls[1].acks]

OutOutcome(s) ==
    CASE Acknowledged(<<Client, s>>) # <<>> ->
             [kind |-> "answered", answer |-> Acknowledged(<<Client, s>>)[1].acks]
      [] TimedOut(<<Client, s>>) # <<>> -> [kind |-> "timeout"]
      [] OTHER -> None

Lifecycle == INSTANCE PacketLifecycle WITH
    Ids       <- PacketIds,
    Contents  <- OutPackets \cup InPackets,
    Answers   <- AckLists \cup {<<ErrorAckHash>>},
    sent      <- [i \in PacketIds |-> IF i[1] = "out" THEN sendEvent[<<Client, i[2]>>]
                                                     ELSE cosmosSent[i[2]]],
    delivered <- [i \in PacketIds |-> IF i[1] = "out" THEN OutDelivered(i[2])
                                                     ELSE InDelivered(i[2])],
    outcome   <- [i \in PacketIds |-> IF i[1] = "out" THEN OutOutcome(i[2])
                                                     ELSE cosmosOutcome[i[2]]]

(* Router, light client, counterparty and relayers together implement the    *)
(* packet lifecycle, in both directions: in particular no packet is both     *)
(* received and timed out, however late, stale or repeated the relayers'     *)
(* calls are, and an acknowledgement reaches the sender as it was written.   *)
ImplementsLifecycle == Lifecycle!Spec

(* Relaying true headers, late, out of order or twice, never freezes the     *)
(* client: update_client does not take a repeated header for misbehaviour.   *)
TrueHeadersNeverFreeze ==
    ~routerFrozen[Client] /\ ~LcFrozen(clientLcAddr[Client], lcState[Client])

(* Every packet sent from this chain gets an outcome: if the counterparty    *)
(* received it the acknowledgement clears the commitment, and otherwise the  *)
(* timeout does.                                                             *)
EverySentPacketResolves ==
    \A s \in Seqs :
        sendEvent[<<Client, s>>] # None ~> packetCommitment[<<Client, s>>] = None
=============================================================================
