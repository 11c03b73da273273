----------------------------- MODULE IbcRouter -----------------------------
(***************************************************************************)
(* The ibc-router contract: ports (port_router.rs), the ICS-24 store       *)
(* (ibc_store.rs) and the packet handlers (packet_handler.rs), on top of   *)
(* the clients of Ics02Client.                                             *)
(*                                                                         *)
(* A handler that calls back into applications takes what the callbacks    *)
(* return as a parameter; a callback that panics is a call that does not   *)
(* happen.  The behaviour of an application is added where it is composed  *)
(* with the router; here a callback may return any acknowledgement.        *)
(***************************************************************************)
EXTENDS Ics02Client, LedgerClock

CONSTANTS
    Ports,          \* port ids that pass validate_port_id
    Apps,           \* addresses of application contracts
    Values,         \* payload values
    PayloadLists,   \* payload vectors a packet may carry
    AckLists,       \* acknowledgement vectors, and what callbacks return
    Proofs,         \* proof arguments
    MaxSeq          \* bound on sequence numbers

VARIABLES
    portApp,            \* DataKey::Port(port_id)
    nextSeqSend,        \* DataKey::NextSeqSend(client_id)
    packetCommitment,   \* the store at {client_id} || 0x01 || sequence
    packetReceipt,      \* the store at {client_id} || 0x02 || sequence
    ackCommitment,      \* the store at {client_id} || 0x03 || sequence
    sendEvent,          \* the packet of the SendPacket event of a sequence
    callbacks           \* what was handed to the applications: packets, acks

packetVars == <<portApp, nextSeqSend, packetCommitment, packetReceipt,
                ackCommitment, sendEvent, callbacks>>

routerVars == <<clientVars, now, packetVars>>

Seqs == 1..MaxSeq

(* The keys of the three path families: a local client and a sequence. *)
Keys == ClientIds \X Seqs

CallbackKinds == {"on_recv_packet", "on_acknowledgement_packet", "on_timeout_packet"}

Payload == [source_port : Ports, dest_port : Ports, value : Values]

RemoteIds == {cp.client_id : cp \in Counterparties}

(* Packets of this chain and packets of the counterparty. *)
OutPackets ==
    [sequence : Seqs, source_client : ClientIds, dest_client : RemoteIds,
     timeout_timestamp : Times, payloads : PayloadLists]

InPackets ==
    [sequence : Seqs, source_client : RemoteIds, dest_client : ClientIds,
     timeout_timestamp : Times, payloads : PayloadLists]

ASSUME RouterAssumption ==
    /\ MaxSeq \in Nat
    /\ PayloadLists \subseteq Seq(Payload)
    /\ None \notin OutPackets
    /\ None \notin {CommitV2Packet(p) : p \in OutPackets}
    /\ None \notin {CommitV2Acknowledgement(acks) : acks \in AckLists \cup {<<ErrorAckHash>>}}

-----------------------------------------------------------------------------

PacketInit ==
    /\ portApp = [port \in Ports |-> None]
    /\ nextSeqSend = [c \in ClientIds |-> 0]
    /\ packetCommitment = [k \in Keys |-> None]
    /\ packetReceipt = [k \in Keys |-> FALSE]
    /\ ackCommitment = [k \in Keys |-> None]
    /\ sendEvent = [k \in Keys |-> None]
    /\ callbacks = [kc \in CallbackKinds \X Keys |-> <<>>]

(* The admin binds a port to an application, once. *)
RegisterPort(port, app) ==
    /\ portApp[port] = None
    /\ portApp' = [portApp EXCEPT ![port] = app]
    /\ UNCHANGED <<nextSeqSend, packetCommitment, packetReceipt, ackCommitment,
                   sendEvent, callbacks>>

NextSequence(c) == nextSeqSend[c] + 1

(* Every payload's application has authorised the call; the packet gets the *)
(* next sequence of the client and its commitment is stored.                *)
SendPacket(c, timeout, payloads, auths) ==
    LET seq    == NextSequence(c)
        packet == [sequence |-> seq, source_client |-> c,
                   dest_client |-> counterparty[c].client_id,
                   timeout_timestamp |-> timeout, payloads |-> payloads]
    IN  /\ payloads # <<>>
        /\ counterparty[c] # None
        /\ timeout > now
        /\ \A i \in DOMAIN payloads :
               /\ portApp[payloads[i].source_port] # None
               /\ portApp[payloads[i].source_port] \in auths
        /\ seq <= MaxSeq
        /\ nextSeqSend' = [nextSeqSend EXCEPT ![c] = seq]
        /\ packetCommitment' = [packetCommitment EXCEPT ![<<c, seq>>] = CommitV2Packet(packet)]
        /\ sendEvent' = [sendEvent EXCEPT ![<<c, seq>>] = packet]
        /\ UNCHANGED <<portApp, packetReceipt, ackCommitment, callbacks>>

(* The router's verify_membership and verify_non_membership: the client's own *)
(* light client decides, at a path under the counterparty's prefix.           *)
Proven(c, h, proof, client_id, discriminator, seq, value) ==
    VerifyMembership(clientLcAddr[c], lcState[c], h, proof,
        CounterpartyV2Path(counterparty[c].commitment_prefix, client_id, discriminator, seq),
        value)

ProvenAbsent(c, h, proof, client_id, discriminator, seq) ==
    VerifyNonMembership(clientLcAddr[c], lcState[c], h, proof,
        CounterpartyV2Path(counterparty[c].commitment_prefix, client_id, discriminator, seq))

HasPacketReceiptNever(k) == FALSE

HasPacketReceipt(k) == packetReceipt[k]

(* The client has a counterparty, and the other end of the packet is it. *)
FromCounterparty(c, client_id) ==
    counterparty[c] # None /\ counterparty[c].client_id = client_id

(* dispatch_recv_callbacks: the acknowledgements stored for a packet whose  *)
(* callbacks returned appAcks; a packet without payloads gets the error one. *)
RecvAcks(p, appAcks) == IF p.payloads = <<>> THEN <<ErrorAckHash>> ELSE appAcks

(* dispatch_ack_callbacks: the acknowledgement handed to payload i. *)
AckOf(acks, i) == IF i <= Len(acks) THEN acks[i] ELSE ErrorAckHash

Dispatch(kind, k, p, acks) ==
    [callbacks EXCEPT ![<<kind, k>>] = Append(@, [packet |-> p, acks |-> acks])]

RecvPacket(p, proof, h, appAcks) ==
    LET c == p.dest_client
        k == <<c, p.sequence>>
    IN  /\ FromCounterparty(c, p.source_client)
        /\ p.timeout_timestamp > now
        /\ ~HasPacketReceipt(k)
        /\ Proven(c, h, proof, p.source_client, PACKET_COMMITMENT_DISCRIMINATOR,
                  p.sequence, CommitV2Packet(p))
        /\ packetReceipt' = [packetReceipt EXCEPT ![k] = TRUE]
        /\ \A i \in DOMAIN p.payloads : portApp[p.payloads[i].dest_port] # None
        /\ Len(appAcks) = Len(p.payloads)
        /\ callbacks' = Dispatch("on_recv_packet", k, p, RecvAcks(p, appAcks))
        /\ ackCommitment' = [ackCommitment EXCEPT ![k] =
               CommitV2Acknowledgement(RecvAcks(p, appAcks))]
        /\ UNCHANGED <<portApp, nextSeqSend, packetCommitment, sendEvent>>

WriteAcknowledgementAgain(c, seq, acks) ==
    /\ HasPacketReceipt(<<c, seq>>)
    /\ ackCommitment' = [ackCommitment EXCEPT ![<<c, seq>>] = CommitV2Acknowledgement(acks)]
    /\ UNCHANGED <<portApp, nextSeqSend, packetCommitment, packetReceipt, sendEvent, callbacks>>

(* A receipt without an acknowledgement gets one, from any caller. *)
WriteAcknowledgement(c, seq, acks) ==
    /\ HasPacketReceipt(<<c, seq>>)
    /\ ackCommitment[<<c, seq>>] = None
    /\ ackCommitment' = [ackCommitment EXCEPT ![<<c, seq>>] = CommitV2Acknowledgement(acks)]
    /\ UNCHANGED <<portApp, nextSeqSend, packetCommitment, packetReceipt, sendEvent, callbacks>>

IsCommittedUncompared(p) ==
    /\ packetCommitment[<<p.source_client, p.sequence>>] # None
    /\ FromCounterparty(p.source_client, p.dest_client)

(* What acknowledge_packet and timeout_packet check of the packet itself: it *)
(* is the one committed to, and it went to the client's counterparty.        *)
IsCommitted(p) ==
    LET c == p.source_client
    IN  /\ packetCommitment[<<c, p.sequence>>] # None
        /\ packetCommitment[<<c, p.sequence>>] = CommitV2Packet(p)
        /\ FromCounterparty(c, p.dest_client)

DeletePacketCommitmentNot(k) == packetCommitment

DeletePacketCommitment(k) == [packetCommitment EXCEPT ![k] = None]

AcknowledgePacket(p, acks, proof, h) ==
    LET c == p.source_client
        k == <<c, p.sequence>>
    IN  /\ IsCommitted(p)
        /\ Proven(c, h, proof, p.dest_client, ACK_COMMITMENT_DISCRIMINATOR,
                  p.sequence, CommitV2Acknowledgement(acks))
        /\ \A i \in DOMAIN p.payloads : portApp[p.payloads[i].source_port] # None
        /\ callbacks' = Dispatch("on_acknowledgement_packet", k, p, acks)
        /\ packetCommitment' = DeletePacketCommitment(k)
        /\ UNCHANGED <<portApp, nextSeqSend, packetReceipt, ackCommitment, sendEvent>>

TimeoutPassedAtOrAfter(c, h, timeout) ==
    TimestampAtHeight(clientLcAddr[c], lcState[c], h) >= timeout

(* The counterparty's clock, as the client trusts it at the proof's height. *)
TimeoutPassed(c, h, timeout) ==
    TimestampAtHeight(clientLcAddr[c], lcState[c], h) > timeout

TimeoutPacket(p, proof, h) ==
    LET c == p.source_client
        k == <<c, p.sequence>>
    IN  /\ IsCommitted(p)
        /\ TimeoutPassed(c, h, p.timeout_timestamp)
        /\ ProvenAbsent(c, h, proof, p.dest_client, PACKET_RECEIPT_DISCRIMINATOR, p.sequence)
        /\ \A i \in DOMAIN p.payloads : portApp[p.payloads[i].source_port] # None
        /\ callbacks' = Dispatch("on_timeout_packet", k, p, <<>>)
        /\ packetCommitment' = DeletePacketCommitment(k)
        /\ UNCHANGED <<portApp, nextSeqSend, packetReceipt, ackCommitment, sendEvent>>

PacketNext ==
    \/ \E port \in Ports, app \in Apps : RegisterPort(port, app)
    \/ \E c \in ClientIds, timeout \in Times, ps \in PayloadLists, auths \in SUBSET Apps :
           SendPacket(c, timeout, ps, auths)
    \/ \E p \in InPackets, proof \in Proofs, h \in Heights, acks \in AckLists :
           RecvPacket(p, proof, h, acks)
    \/ \E k \in Keys, acks \in AckLists : WriteAcknowledgement(k[1], k[2], acks)
    \/ \E p \in OutPackets, acks \in AckLists, proof \in Proofs, h \in Heights :
           AcknowledgePacket(p, acks, proof, h)
    \/ \E p \in OutPackets, proof \in Proofs, h \in Heights : TimeoutPacket(p, proof, h)

RouterInit == ClientInit /\ now = 0 /\ PacketInit

RouterNext ==
    \/ ClientNext /\ UNCHANGED <<now, packetVars>>
    \/ LedgerClose /\ UNCHANGED <<clientVars, packetVars>>
    \/ PacketNext /\ UNCHANGED <<clientVars, now>>

RouterSpec == RouterInit /\ [][RouterNext]_routerVars
-----------------------------------------------------------------------------
(***************************************************************************)
(* The router also exports the primitives of its store as entrypoints,     *)
(* which no component of the repository calls.  OpenSpec lets them be      *)
(* called; every other specification is about the handlers.                *)
(***************************************************************************)

Received(k) == callbacks[<<"on_recv_packet", k>>]
Acknowledged(k) == callbacks[<<"on_acknowledgement_packet", k>>]
TimedOut(k) == callbacks[<<"on_timeout_packet", k>>]

(* Bound: a commitment is written back at most once after an outcome. *)
MaxOutcomes == 2

SetPacketCommitment(k, commitment) ==
    /\ Len(Acknowledged(k)) + Len(TimedOut(k)) < MaxOutcomes
    /\ packetCommitment' = [packetCommitment EXCEPT ![k] = commitment]
    /\ UNCHANGED <<portApp, nextSeqSend, packetReceipt, ackCommitment, sendEvent, callbacks>>

DeleteCommitmentEntry(k) ==
    /\ packetCommitment' = DeletePacketCommitment(k)
    /\ UNCHANGED <<portApp, nextSeqSend, packetReceipt, ackCommitment, sendEvent, callbacks>>

SetPacketReceipt(k) ==
    /\ packetReceipt' = [packetReceipt EXCEPT ![k] = TRUE]
    /\ UNCHANGED <<portApp, nextSeqSend, packetCommitment, ackCommitment, sendEvent, callbacks>>

SetAckCommitment(k, acks) ==
    /\ ackCommitment' = [ackCommitment EXCEPT ![k] = CommitV2Acknowledgement(acks)]
    /\ UNCHANGED <<portApp, nextSeqSend, packetCommitment, packetReceipt, sendEvent, callbacks>>

StoreNext ==
    \/ \E k \in Keys, p \in OutPackets : SetPacketCommitment(k, CommitV2Packet(p))
    \/ \E k \in Keys : DeleteCommitmentEntry(k)
    \/ \E k \in Keys : SetPacketReceipt(k)
    \/ \E k \in Keys, acks \in AckLists : SetAckCommitment(k, acks)

OpenNext == RouterNext \/ (StoreNext /\ UNCHANGED <<clientVars, now>>)

OpenSpec == RouterInit /\ [][OpenNext]_routerVars

-----------------------------------------------------------------------------

Commitments == {CommitV2Packet(p) : p \in OutPackets}
AckCommitments == {CommitV2Acknowledgement(acks) : acks \in AckLists \cup {<<ErrorAckHash>>}}
Calls == [packet : OutPackets \cup InPackets, acks : AckLists \cup {<<>>, <<ErrorAckHash>>}]

(* Type invariant of the router's packet entries. *)
RouterTypeOK ==
    /\ now \in Times
    /\ portApp \in [Ports -> Apps \cup {None}]
    /\ nextSeqSend \in [ClientIds -> 0..MaxSeq]
    /\ packetCommitment \in [Keys -> Commitments \cup {None}]
    /\ packetReceipt \in [Keys -> BOOLEAN]
    /\ ackCommitment \in [Keys -> AckCommitments \cup {None}]
    /\ sendEvent \in [Keys -> OutPackets \cup {None}]
    /\ callbacks \in [CallbackKinds \X Keys -> Seq(Calls)]

(* Sequences of a client are handed out without gaps, and one at a time: the *)
(* SendPacket events of a client are those of 1..NextSeqSend, each for its   *)
(* own packet.                                                               *)
SequencesDense ==
    \A c \in ClientIds : \A seq \in Seqs :
        /\ (seq <= nextSeqSend[c]) <=> (sendEvent[<<c, seq>>] # None)
        /\ sendEvent[<<c, seq>>] # None =>
               /\ sendEvent[<<c, seq>>].sequence = seq
               /\ sendEvent[<<c, seq>>].source_client = c

(* A packet that was sent is either in flight, with its commitment stored,  *)
(* or has had exactly one outcome: its applications saw one acknowledgement *)
(* or one timeout, never both, never twice.                                 *)
OneOutcome ==
    \A k \in Keys :
        LET outcomes == Len(Acknowledged(k)) + Len(TimedOut(k))
        IN  /\ outcomes <= 1
            /\ (packetCommitment[k] # None) <=> (sendEvent[k] # None /\ outcomes = 0)

(* The outcome handed to the applications is that of the very packet they   *)
(* sent, although the commitment checked by acknowledge_packet and          *)
(* timeout_packet covers neither its sequence nor its source client.        *)
OutcomeOfSentPacket ==
    \A k \in Keys :
        /\ packetCommitment[k] # None => packetCommitment[k] = CommitV2Packet(sendEvent[k])
        /\ Acknowledged(k) # <<>> => Acknowledged(k)[1].packet = sendEvent[k]
        /\ TimedOut(k) # <<>> => TimedOut(k)[1].packet = sendEvent[k]

(* A packet is delivered at most once per client and sequence, a receipt is *)
(* stored exactly for the delivered ones, and each has its acknowledgement: *)
(* no packet is left received and unanswered.                               *)
DeliveredOnce ==
    \A k \in Keys :
        /\ Len(Received(k)) <= 1
        /\ packetReceipt[k] <=> Received(k) # <<>>
        /\ packetReceipt[k] <=> ackCommitment[k] # None
        /\ packetReceipt[k] => ackCommitment[k] = CommitV2Acknowledgement(Received(k)[1].acks)

(* Packets go to and come from the registered counterparty only. *)
CounterpartyOnly ==
    \A k \in Keys :
        /\ sendEvent[k] # None =>
               counterparty[k[1]] # None /\ sendEvent[k].dest_client = counterparty[k[1]].client_id
        /\ Received(k) # <<>> =>
               counterparty[k[1]] # None
               /\ Received(k)[1].packet.source_client = counterparty[k[1]].client_id

ReceiptsKept ==
    \A k \in Keys :
        packetReceipt[k] => packetReceipt'[k] /\ ackCommitment'[k] = ackCommitment[k]

(* Receipts are never removed and an acknowledgement never changes: what was *)
(* delivered cannot be delivered, or answered, a second time.                *)
ReceiptsPermanent == [][ReceiptsKept]_routerVars

FrozenStopsPackets ==
    \A c \in ClientIds :
        clientLcAddr[c] = "tendermint" /\ routerFrozen[c] =>
            \A kind \in CallbackKinds, seq \in Seqs :
                callbacks'[<<kind, <<c, seq>>>>] = callbacks[<<kind, <<c, seq>>>>]

(* No packet is received, acknowledged or timed out through a frozen        *)
(* tendermint client, although the packet handlers never read the router's  *)
(* Frozen flag: the light client refuses the proof.                         *)
FrozenMovesNoPacket == [][FrozenStopsPackets]_routerVars

(* A packet is timed out only when the client trusts a counterparty time    *)
(* later than its timeout.                                                  *)
TimeoutElapsed ==
    \A k \in Keys :
        TimedOut(k) # <<>> =>
            \E h \in Heights :
                TimestampAtHeight(clientLcAddr[k[1]], lcState[k[1]], h)
                    > TimedOut(k)[1].packet.timeout_timestamp

(* Delivery stays at-most-once even when the store's primitives are called    *)
(* directly: no entrypoint removes a receipt.                                 *)
DeliveredAtMostOnce ==
    \A k \in Keys :
        /\ Len(Received(k)) <= 1
        /\ Received(k) # <<>> => packetReceipt[k]
=============================================================================
