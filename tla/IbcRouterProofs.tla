-------------------------- MODULE IbcRouterProofs --------------------------
(***************************************************************************)
(* Proofs about IbcRouter, for any light client, any counterparties, any   *)
(* packets and proofs submitted, and any bounds.                           *)
(*                                                                         *)
(* The packet invariants are proved together, on top of the client         *)
(* invariant.  The commitment acknowledge_packet and timeout_packet        *)
(* compare with covers neither the sequence nor the source client, so that *)
(* the outcome is that of the packet sent needs SequencesDense; that a     *)
(* commitment is stored exactly while there is no outcome needs that an    *)
(* unsent sequence has none (UnsentHasNoOutcome).                          *)
(***************************************************************************)
EXTENDS IbcRouter, Ics02ClientProofs

UnsentHasNoOutcome ==
    \A k \in Keys : sendEvent[k] = None => Acknowledged(k) = <<>> /\ TimedOut(k) = <<>>

PacketInv ==
    /\ RouterTypeOK
    /\ SequencesDense
    /\ OneOutcome
    /\ OutcomeOfSentPacket
    /\ DeliveredOnce
    /\ CounterpartyOnly
    /\ UnsentHasNoOutcome

RouterInv == ClientInv /\ PacketInv

-----------------------------------------------------------------------------
(* Packets and sequences of callbacks. *)

(* What send_packet assembles for a client with a counterparty is a packet. *)
LEMMA SentPacketType ==
    ASSUME ClientInv, NEW c \in ClientIds, counterparty[c] # None,
           NEW seq \in Seqs, NEW timeout \in Times, NEW ps \in PayloadLists
    PROVE  [sequence |-> seq, source_client |-> c,
            dest_client |-> counterparty[c].client_id,
            timeout_timestamp |-> timeout, payloads |-> ps] \in OutPackets
  BY DEF ClientInv, ClientTypeOK, OutPackets, RemoteIds

(* Two packets under the same key with the same commitment are the same. *)
LEMMA CommitmentDetermines ==
    ASSUME NEW p \in OutPackets, NEW q \in OutPackets,
           p.sequence = q.sequence, p.source_client = q.source_client,
           CommitV2Packet(p) = CommitV2Packet(q)
    PROVE  p = q
  <1>1. /\ p.dest_client = q.dest_client
        /\ p.timeout_timestamp = q.timeout_timestamp
        /\ p.payloads = q.payloads
    BY DEF CommitV2Packet
  <1> QED BY <1>1 DEF OutPackets

(* A packet's keys. *)
LEMMA PacketKeys ==
    /\ \A p \in OutPackets : <<p.source_client, p.sequence>> \in Keys
    /\ \A p \in InPackets : <<p.dest_client, p.sequence>> \in Keys
  BY DEF OutPackets, InPackets, Keys

(* A dispatched callback is appended to those of its kind and key. *)
LEMMA DispatchAppends ==
    ASSUME callbacks \in [CallbackKinds \X Keys -> Seq(Calls)],
           NEW kc \in CallbackKinds \X Keys, NEW call \in Calls,
           callbacks' = [callbacks EXCEPT ![kc] = Append(@, call)]
    PROVE  /\ callbacks' \in [CallbackKinds \X Keys -> Seq(Calls)]
           /\ callbacks'[kc] = Append(callbacks[kc], call)
           /\ \A other \in CallbackKinds \X Keys :
                  other # kc => callbacks'[other] = callbacks[other]
  OBVIOUS

-----------------------------------------------------------------------------
(* The invariant is established, and preserved by every action. *)

(* Nothing has been sent, received or dispatched. *)
LEMMA RouterInitInv == RouterInit => RouterInv
  <1> SUFFICES ASSUME RouterInit PROVE RouterInv
    OBVIOUS
  <1> USE DEF RouterInit, PacketInit
  <1>1. ClientInv
    BY ClientInitInv
  <1>2. RouterTypeOK
    BY BoundsAssumption, RouterAssumption DEF RouterTypeOK, Times
  <1>3. /\ \A k \in Keys : Received(k) = <<>> /\ Acknowledged(k) = <<>> /\ TimedOut(k) = <<>>
        /\ \A k \in Keys : sendEvent[k] = None /\ packetCommitment[k] = None
        /\ \A k \in Keys : ~packetReceipt[k] /\ ackCommitment[k] = None
    BY DEF Received, Acknowledged, TimedOut, CallbackKinds
  <1>4. SequencesDense
    BY <1>3 DEF SequencesDense, Seqs, Keys
  <1>5. OneOutcome
    BY <1>3 DEF OneOutcome
  <1>6. OutcomeOfSentPacket /\ CounterpartyOnly /\ UnsentHasNoOutcome
    BY <1>3 DEF OutcomeOfSentPacket, CounterpartyOnly, UnsentHasNoOutcome
  <1>7. DeliveredOnce
    BY <1>3 DEF DeliveredOnce
  <1> QED BY <1>1, <1>2, <1>4, <1>5, <1>6, <1>7 DEF RouterInv, PacketInv

(* A call that changes no packet entry, and replaces no counterparty. *)
LEMMA OtherStepInv ==
    ASSUME PacketInv, UNCHANGED packetVars, now' \in Times,
           \A c \in ClientIds : counterparty[c] # None => counterparty'[c] = counterparty[c]
    PROVE  PacketInv'
  <1> USE DEF PacketInv, packetVars, Received, Acknowledged, TimedOut
  <1>1. RouterTypeOK'
    BY DEF RouterTypeOK
  <1>2. SequencesDense'
    BY DEF SequencesDense
  <1>3. OneOutcome'
    BY DEF OneOutcome
  <1>4. OutcomeOfSentPacket'
    BY DEF OutcomeOfSentPacket
  <1>5. DeliveredOnce'
    BY DEF DeliveredOnce
  <1>6. CounterpartyOnly'
    BY DEF CounterpartyOnly, Keys
  <1>7. UnsentHasNoOutcome'
    BY DEF UnsentHasNoOutcome
  <1> QED BY <1>1, <1>2, <1>3, <1>4, <1>5, <1>6, <1>7

(* Binding a port. *)
LEMMA RegisterPortInv ==
    ASSUME RouterInv, NEW port \in Ports, NEW app \in Apps, RegisterPort(port, app),
           UNCHANGED <<clientVars, now>>
    PROVE  PacketInv'
  <1>1. RouterTypeOK'
    <2>1. /\ portApp' \in [Ports -> Apps \cup {None}]
          /\ UNCHANGED <<now, nextSeqSend, packetCommitment, packetReceipt, ackCommitment,
                         sendEvent, callbacks>>
      BY DEF RegisterPort, RouterInv, PacketInv, RouterTypeOK
    <2> QED BY <2>1 DEF RouterInv, PacketInv, RouterTypeOK
  <1>2. UNCHANGED <<nextSeqSend, packetCommitment, packetReceipt, ackCommitment, sendEvent,
                    callbacks, counterparty>>
    BY DEF RegisterPort, clientVars
  <1>3. PacketInv
    BY DEF RouterInv
  <1>4. SequencesDense'
    BY <1>2, <1>3 DEF PacketInv, SequencesDense
  <1>5. OneOutcome' /\ OutcomeOfSentPacket'
    BY <1>2, <1>3 DEF PacketInv, OneOutcome, OutcomeOfSentPacket, Acknowledged, TimedOut
  <1>6. DeliveredOnce' /\ CounterpartyOnly'
    BY <1>2, <1>3 DEF PacketInv, DeliveredOnce, CounterpartyOnly, Received
  <1>7. UnsentHasNoOutcome'
    BY <1>2, <1>3 DEF PacketInv, UnsentHasNoOutcome, Acknowledged, TimedOut
  <1> QED BY <1>1, <1>4, <1>5, <1>6, <1>7 DEF PacketInv

(* Sending: the key is new, and gets its commitment and its event. *)
LEMMA SendPacketInv ==
    ASSUME RouterInv, NEW c \in ClientIds, NEW timeout \in Times, NEW ps \in PayloadLists,
           NEW auths, SendPacket(c, timeout, ps, auths), UNCHANGED <<clientVars, now>>
    PROVE  PacketInv'
  <1> DEFINE seq == nextSeqSend[c] + 1
             k == <<c, seq>>
             packet == [sequence |-> seq, source_client |-> c,
                        dest_client |-> counterparty[c].client_id,
                        timeout_timestamp |-> timeout, payloads |-> ps]
  <1>1. seq \in Seqs /\ k \in Keys
    BY RouterAssumption
    DEF SendPacket, NextSequence, RouterInv, PacketInv, RouterTypeOK, Seqs, Keys
  <1>2. packet \in OutPackets
    BY <1>1, SentPacketType DEF SendPacket, RouterInv
  <1>3. CommitV2Packet(packet) \in Commitments /\ CommitV2Packet(packet) # None /\ packet # None
    BY <1>2, RouterAssumption DEF Commitments
  <1>4. /\ nextSeqSend' = [nextSeqSend EXCEPT ![c] = seq]
        /\ packetCommitment' = [packetCommitment EXCEPT ![k] = CommitV2Packet(packet)]
        /\ sendEvent' = [sendEvent EXCEPT ![k] = packet]
        /\ UNCHANGED <<portApp, packetReceipt, ackCommitment, callbacks, counterparty, now>>
        /\ counterparty[c] # None
    BY DEF SendPacket, NextSequence, clientVars
  <1>5. /\ packet.sequence = seq
        /\ packet.source_client = c
        /\ packet.dest_client = counterparty[c].client_id
    OBVIOUS
  <1> HIDE DEF packet
  <1>6. RouterTypeOK'
    BY <1>1, <1>2, <1>3, <1>4 DEF RouterInv, PacketInv, RouterTypeOK, Seqs
  <1>7. sendEvent[k] = None
    BY <1>1 DEF RouterInv, PacketInv, RouterTypeOK, SequencesDense, Seqs
  <1>8. /\ sendEvent'[k] = packet
        /\ packetCommitment'[k] = CommitV2Packet(packet)
        /\ \A l \in Keys \ {k} : /\ sendEvent'[l] = sendEvent[l]
                                 /\ packetCommitment'[l] = packetCommitment[l]
        /\ \A l \in Keys : /\ Received(l)' = Received(l)
                           /\ Acknowledged(l)' = Acknowledged(l)
                           /\ TimedOut(l)' = TimedOut(l)
    BY <1>1, <1>4 DEF RouterInv, PacketInv, RouterTypeOK, Received, Acknowledged, TimedOut
  <1>9. SequencesDense'
    <2> SUFFICES ASSUME NEW d \in ClientIds, NEW n \in Seqs
                 PROVE  /\ (n <= nextSeqSend'[d]) <=> (sendEvent'[<<d, n>>] # None)
                        /\ sendEvent'[<<d, n>>] # None =>
                               /\ sendEvent'[<<d, n>>].sequence = n
                               /\ sendEvent'[<<d, n>>].source_client = d
      BY DEF SequencesDense
    <2>1. /\ <<d, n>> \in Keys
          /\ nextSeqSend[d] \in Nat
          /\ n \in Nat
          /\ nextSeqSend'[d] = IF d = c THEN seq ELSE nextSeqSend[d]
      BY <1>4 DEF Keys, RouterInv, PacketInv, RouterTypeOK, Seqs
    <2>2. /\ (n <= nextSeqSend[d]) <=> (sendEvent[<<d, n>>] # None)
          /\ sendEvent[<<d, n>>] # None =>
                 /\ sendEvent[<<d, n>>].sequence = n
                 /\ sendEvent[<<d, n>>].source_client = d
      BY DEF RouterInv, PacketInv, SequencesDense
    <2>3. CASE <<d, n>> = k
      <3>1. d = c /\ n = seq
        BY <2>3
      <3>2. n <= nextSeqSend'[d]
        BY <2>1, <3>1
      <3>3. sendEvent'[<<d, n>>] = packet
        BY <2>3, <1>8
      <3> QED BY <3>1, <3>2, <3>3, <1>3, <1>5
    <2>4. CASE <<d, n>> # k
      <3>1. sendEvent'[<<d, n>>] = sendEvent[<<d, n>>]
        BY <2>1, <2>4, <1>8
      <3>2. (n <= nextSeqSend'[d]) <=> (n <= nextSeqSend[d])
        BY <2>1, <2>4
      <3> QED BY <2>2, <3>1, <3>2
    <2> QED BY <2>3, <2>4
  <1> HIDE DEF k
  <1>10. Acknowledged(k) = <<>> /\ TimedOut(k) = <<>>
    BY <1>1, <1>7 DEF RouterInv, PacketInv, UnsentHasNoOutcome
  <1>11. OneOutcome'
    <2>1. ASSUME NEW l \in Keys
          PROVE  /\ Len(Acknowledged(l)') + Len(TimedOut(l)') <= 1
                 /\ (packetCommitment'[l] # None) <=>
                    (sendEvent'[l] # None /\ Len(Acknowledged(l)') + Len(TimedOut(l)') = 0)
      <3>1. CASE l = k
        BY <3>1, <1>1, <1>3, <1>8, <1>10
      <3>2. CASE l # k
        <4>1. /\ Acknowledged(l)' = Acknowledged(l) /\ TimedOut(l)' = TimedOut(l)
              /\ sendEvent'[l] = sendEvent[l] /\ packetCommitment'[l] = packetCommitment[l]
          BY <3>2, <1>8
        <4> QED BY <4>1 DEF RouterInv, PacketInv, OneOutcome
      <3> QED BY <3>1, <3>2
    <2> QED BY <2>1 DEF OneOutcome
  <1>12. OutcomeOfSentPacket'
    <2>1. ASSUME NEW l \in Keys
          PROVE  /\ packetCommitment'[l] # None =>
                        packetCommitment'[l] = CommitV2Packet(sendEvent'[l])
                 /\ Acknowledged(l)' # <<>> => Acknowledged(l)'[1].packet = sendEvent'[l]
                 /\ TimedOut(l)' # <<>> => TimedOut(l)'[1].packet = sendEvent'[l]
      <3>1. CASE l = k
        BY <3>1, <1>1, <1>8, <1>10
      <3>2. CASE l # k
        <4>1. /\ Acknowledged(l)' = Acknowledged(l) /\ TimedOut(l)' = TimedOut(l)
              /\ sendEvent'[l] = sendEvent[l] /\ packetCommitment'[l] = packetCommitment[l]
          BY <3>2, <1>8
        <4> QED BY <4>1 DEF RouterInv, PacketInv, OutcomeOfSentPacket
      <3> QED BY <3>1, <3>2
    <2> QED BY <2>1 DEF OutcomeOfSentPacket
  <1>13. DeliveredOnce'
    BY <1>4, <1>8 DEF RouterInv, PacketInv, DeliveredOnce
  <1>14. CounterpartyOnly'
    <2>1. k[1] = c
      BY DEF k
    <2>2. ASSUME NEW l \in Keys, sendEvent'[l] # None
          PROVE  /\ counterparty'[l[1]] # None
                 /\ sendEvent'[l].dest_client = counterparty'[l[1]].client_id
      <3>1. CASE l = k
        BY <3>1, <2>1, <1>4, <1>5, <1>8
      <3>2. CASE l # k
        <4>1. sendEvent'[l] = sendEvent[l] /\ counterparty' = counterparty
          BY <3>2, <1>4, <1>8
        <4> QED BY <2>2, <4>1 DEF RouterInv, PacketInv, CounterpartyOnly
      <3> QED BY <3>1, <3>2
    <2>3. ASSUME NEW l \in Keys, Received(l)' # <<>>
          PROVE  /\ counterparty'[l[1]] # None
                 /\ Received(l)'[1].packet.source_client = counterparty'[l[1]].client_id
      <3>1. Received(l)' = Received(l) /\ counterparty' = counterparty
        BY <1>4, <1>8
      <3> QED BY <2>3, <3>1 DEF RouterInv, PacketInv, CounterpartyOnly
    <2> QED BY <2>2, <2>3 DEF CounterpartyOnly
  <1>15. UnsentHasNoOutcome'
    BY <1>1, <1>8, <1>10 DEF RouterInv, PacketInv, UnsentHasNoOutcome
  <1> QED BY <1>6, <1>9, <1>11, <1>12, <1>13, <1>14, <1>15 DEF PacketInv

(* Receiving: the key had no receipt, so no delivery and no acknowledgement. *)
LEMMA RecvPacketInv ==
    ASSUME RouterInv, NEW p \in InPackets, NEW proof, NEW h, NEW appAcks \in AckLists,
           RecvPacket(p, proof, h, appAcks), UNCHANGED <<clientVars, now>>
    PROVE  PacketInv'
  <1> DEFINE c == p.dest_client
             k == <<c, p.sequence>>
             acks == RecvAcks(p, appAcks)
             call == [packet |-> p, acks |-> acks]
  <1>1. k \in Keys /\ c \in ClientIds
    BY PacketKeys DEF InPackets
  <1>2. acks \in AckLists \cup {<<ErrorAckHash>>}
    BY DEF RecvAcks
  <1>3. CommitV2Acknowledgement(acks) \in AckCommitments /\ CommitV2Acknowledgement(acks) # None
    BY <1>2, RouterAssumption DEF AckCommitments
  <1>4. /\ packetReceipt' = [packetReceipt EXCEPT ![k] = TRUE]
        /\ callbacks' = Dispatch("on_recv_packet", k, p, acks)
        /\ ackCommitment' = [ackCommitment EXCEPT ![k] = CommitV2Acknowledgement(acks)]
        /\ UNCHANGED <<portApp, nextSeqSend, packetCommitment, sendEvent, counterparty, now>>
        /\ ~packetReceipt[k]
        /\ counterparty[c] # None
        /\ counterparty[c].client_id = p.source_client
    BY DEF RecvPacket, FromCounterparty, HasPacketReceipt, clientVars
  <1> HIDE DEF acks
  <1>5. Received(k) = <<>>
    BY <1>1, <1>4 DEF RouterInv, PacketInv, DeliveredOnce
  <1>6. /\ callbacks' \in [CallbackKinds \X Keys -> Seq(Calls)]
        /\ Received(k)' = Append(Received(k), call)
        /\ \A l \in Keys : l # k => Received(l)' = Received(l)
        /\ \A l \in Keys : Acknowledged(l)' = Acknowledged(l) /\ TimedOut(l)' = TimedOut(l)
    <2>1. /\ callbacks \in [CallbackKinds \X Keys -> Seq(Calls)]
          /\ <<"on_recv_packet", k>> \in CallbackKinds \X Keys
          /\ call \in Calls
      BY <1>1, <1>2 DEF RouterInv, PacketInv, RouterTypeOK, CallbackKinds, Calls
    <2>2. /\ callbacks' \in [CallbackKinds \X Keys -> Seq(Calls)]
          /\ callbacks'[<<"on_recv_packet", k>>] = Append(callbacks[<<"on_recv_packet", k>>], call)
          /\ \A kc \in CallbackKinds \X Keys :
                 kc # <<"on_recv_packet", k>> => callbacks'[kc] = callbacks[kc]
      <3>1. callbacks' = [callbacks EXCEPT ![<<"on_recv_packet", k>>] = Append(@, call)]
        BY <1>4 DEF Dispatch
      <3> HIDE DEF k, call
      <3> QED BY <2>1, <3>1, DispatchAppends
    <2> HIDE DEF k
    <2> QED BY <2>2 DEF CallbackKinds, Received, Acknowledged, TimedOut
  <1>7. /\ Received(k)' # <<>>
        /\ Len(Received(k)') = 1
        /\ Received(k)'[1] = call
    <2> HIDE DEF k, call
    <2>1. Received(k)' = <<call>>
      BY <1>5, <1>6
    <2> QED BY <2>1
  <1> HIDE DEF k
  <1>8. RouterTypeOK'
    BY <1>1, <1>3, <1>4, <1>6 DEF RouterInv, PacketInv, RouterTypeOK
  <1>9. SequencesDense'
    BY <1>4 DEF RouterInv, PacketInv, SequencesDense
  <1>10. OneOutcome'
    BY <1>4, <1>6 DEF RouterInv, PacketInv, OneOutcome
  <1>11. OutcomeOfSentPacket'
    BY <1>4, <1>6 DEF RouterInv, PacketInv, OutcomeOfSentPacket
  <1>12. DeliveredOnce'
    <2> SUFFICES ASSUME NEW l \in Keys
                 PROVE  /\ Len(Received(l)') <= 1
                        /\ packetReceipt'[l] <=> Received(l)' # <<>>
                        /\ packetReceipt'[l] <=> ackCommitment'[l] # None
                        /\ packetReceipt'[l] =>
                               ackCommitment'[l] = CommitV2Acknowledgement(Received(l)'[1].acks)
      BY DEF DeliveredOnce
    <2>1. CASE l = k
      <3>1. packetReceipt'[l] /\ ackCommitment'[l] = CommitV2Acknowledgement(acks)
        BY <2>1, <1>1, <1>4 DEF RouterInv, PacketInv, RouterTypeOK
      <3> QED BY <2>1, <3>1, <1>3, <1>7
    <2>2. CASE l # k
      <3>1. /\ packetReceipt'[l] = packetReceipt[l]
            /\ ackCommitment'[l] = ackCommitment[l]
            /\ Received(l)' = Received(l)
        BY <2>2, <1>4, <1>6 DEF RouterInv, PacketInv, RouterTypeOK
      <3> QED BY <3>1 DEF RouterInv, PacketInv, DeliveredOnce
    <2> QED BY <2>1, <2>2
  <1>13. CounterpartyOnly'
    <2> SUFFICES ASSUME NEW l \in Keys
                 PROVE  /\ sendEvent'[l] # None =>
                               /\ counterparty'[l[1]] # None
                               /\ sendEvent'[l].dest_client = counterparty'[l[1]].client_id
                        /\ Received(l)' # <<>> =>
                               /\ counterparty'[l[1]] # None
                               /\ Received(l)'[1].packet.source_client =
                                      counterparty'[l[1]].client_id
      BY DEF CounterpartyOnly
    <2>1. CASE l = k
      <3>1. l[1] = c /\ Received(l)'[1].packet = p
        BY <2>1, <1>7 DEF k
      <3>2. counterparty'[l[1]] # None /\ counterparty'[l[1]].client_id = p.source_client
        BY <3>1, <1>4
      <3>3. sendEvent'[l] # None => sendEvent'[l].dest_client = counterparty'[l[1]].client_id
        BY <1>4 DEF RouterInv, PacketInv, CounterpartyOnly
      <3> QED BY <3>1, <3>2, <3>3
    <2>2. CASE l # k
      BY <2>2, <1>4, <1>6 DEF RouterInv, PacketInv, CounterpartyOnly
    <2> QED BY <2>1, <2>2
  <1>14. UnsentHasNoOutcome'
    BY <1>4, <1>6 DEF RouterInv, PacketInv, UnsentHasNoOutcome
  <1> QED BY <1>8, <1>9, <1>10, <1>11, <1>12, <1>13, <1>14 DEF PacketInv

(* Every receipt already has its acknowledgement, so write_acknowledgement  *)
(* finds nothing to do.                                                     *)
LEMMA WriteAcknowledgementIdle ==
    ASSUME RouterInv, NEW k \in Keys, NEW acks
    PROVE  ~WriteAcknowledgement(k[1], k[2], acks)
  <1>1. k = <<k[1], k[2]>>
    BY DEF Keys
  <1> QED BY <1>1
          DEF WriteAcknowledgement, HasPacketReceipt, RouterInv, PacketInv, DeliveredOnce

(* An outcome: the packet is the one sent, it had none before, and its      *)
(* commitment is removed with it.                                           *)
LEMMA OutcomeInv ==
    ASSUME RouterInv, NEW p \in OutPackets, NEW acks \in AckLists \cup {<<>>},
           NEW kind \in {"on_acknowledgement_packet", "on_timeout_packet"},
           IsCommitted(p),
           callbacks' = Dispatch(kind, <<p.source_client, p.sequence>>, p, acks),
           packetCommitment' = DeletePacketCommitment(<<p.source_client, p.sequence>>),
           UNCHANGED <<portApp, nextSeqSend, packetReceipt, ackCommitment, sendEvent>>,
           UNCHANGED <<clientVars, now>>
    PROVE  PacketInv'
  <1> DEFINE k == <<p.source_client, p.sequence>>
             call == [packet |-> p, acks |-> acks]
  <1>1. k \in Keys
    BY PacketKeys
  <1>2. packetCommitment[k] # None /\ packetCommitment[k] = CommitV2Packet(p)
    BY DEF IsCommitted
  <1>3. /\ sendEvent[k] # None
        /\ Len(Acknowledged(k)) + Len(TimedOut(k)) = 0
    BY <1>1, <1>2 DEF RouterInv, PacketInv, OneOutcome
  <1>4. p = sendEvent[k]
    <2>1. sendEvent[k] \in OutPackets
      BY <1>1, <1>3 DEF RouterInv, PacketInv, RouterTypeOK
    <2>2. sendEvent[k].sequence = p.sequence /\ sendEvent[k].source_client = p.source_client
      BY <1>3 DEF RouterInv, PacketInv, SequencesDense, OutPackets
    <2>3. CommitV2Packet(sendEvent[k]) = CommitV2Packet(p)
      BY <1>1, <1>2 DEF RouterInv, PacketInv, OutcomeOfSentPacket
    <2> QED BY <2>1, <2>2, <2>3, CommitmentDetermines
  <1> HIDE DEF k
  <1>5. Acknowledged(k) = <<>> /\ TimedOut(k) = <<>>
    <2>1. Acknowledged(k) \in Seq(Calls) /\ TimedOut(k) \in Seq(Calls)
      BY <1>1 DEF RouterInv, PacketInv, RouterTypeOK, CallbackKinds, Acknowledged, TimedOut
    <2> QED BY <2>1, <1>3
  <1>6. /\ callbacks' \in [CallbackKinds \X Keys -> Seq(Calls)]
        /\ callbacks'[<<kind, k>>] = Append(callbacks[<<kind, k>>], call)
        /\ \A kc \in CallbackKinds \X Keys : kc # <<kind, k>> => callbacks'[kc] = callbacks[kc]
    <2>1. /\ callbacks \in [CallbackKinds \X Keys -> Seq(Calls)]
          /\ <<kind, k>> \in CallbackKinds \X Keys
          /\ call \in Calls
      BY <1>1 DEF RouterInv, PacketInv, RouterTypeOK, CallbackKinds, Calls
    <2>2. callbacks' = [callbacks EXCEPT ![<<kind, k>>] = Append(@, call)]
      BY DEF k, Dispatch
    <2> HIDE DEF call
    <2> QED BY <2>1, <2>2, DispatchAppends
  <1>7. /\ \A l \in Keys : Received(l)' = Received(l)
        /\ \A l \in Keys : l # k =>
               Acknowledged(l)' = Acknowledged(l) /\ TimedOut(l)' = TimedOut(l)
    BY <1>6 DEF Received, Acknowledged, TimedOut, CallbackKinds
  <1>8. \/ Acknowledged(k)' = Append(Acknowledged(k), call) /\ TimedOut(k)' = TimedOut(k)
        \/ TimedOut(k)' = Append(TimedOut(k), call) /\ Acknowledged(k)' = Acknowledged(k)
    BY <1>1, <1>6 DEF Acknowledged, TimedOut, CallbackKinds
  <1>9. /\ Len(Acknowledged(k)') + Len(TimedOut(k)') = 1
        /\ Acknowledged(k)' # <<>> => Acknowledged(k)'[1] = call
        /\ TimedOut(k)' # <<>> => TimedOut(k)'[1] = call
    <2> HIDE DEF call
    <2>1. \/ Acknowledged(k)' = <<call>> /\ TimedOut(k)' = <<>>
          \/ TimedOut(k)' = <<call>> /\ Acknowledged(k)' = <<>>
      BY <1>5, <1>8
    <2>2. Len(<<call>>) = 1 /\ Len(<<>>) = 0 /\ <<call>>[1] = call
      OBVIOUS
    <2>3. CASE Acknowledged(k)' = <<call>> /\ TimedOut(k)' = <<>>
      BY <2>2, <2>3
    <2>4. CASE TimedOut(k)' = <<call>> /\ Acknowledged(k)' = <<>>
      BY <2>2, <2>4
    <2> QED BY <2>1, <2>3, <2>4
  <1>10. /\ packetCommitment'[k] = None
         /\ \A l \in Keys : l # k => packetCommitment'[l] = packetCommitment[l]
    BY <1>1 DEF k, DeletePacketCommitment, RouterInv, PacketInv, RouterTypeOK
  <1>11. RouterTypeOK'
    BY <1>1, <1>6 DEF k, DeletePacketCommitment, RouterInv, PacketInv, RouterTypeOK
  <1>12. SequencesDense'
    BY DEF RouterInv, PacketInv, SequencesDense
  <1>13. OneOutcome'
    <2>1. sendEvent'[k] # None
      BY <1>3
    <2>2. ASSUME NEW l \in Keys
          PROVE  /\ Len(Acknowledged(l)') + Len(TimedOut(l)') <= 1
                 /\ (packetCommitment'[l] # None) <=>
                    (sendEvent'[l] # None /\ Len(Acknowledged(l)') + Len(TimedOut(l)') = 0)
      <3>1. CASE l = k
        BY <3>1, <2>1, <1>9, <1>10
      <3>2. CASE l # k
        <4>1. /\ Acknowledged(l)' = Acknowledged(l) /\ TimedOut(l)' = TimedOut(l)
              /\ sendEvent'[l] = sendEvent[l] /\ packetCommitment'[l] = packetCommitment[l]
          BY <3>2, <1>7, <1>10
        <4> QED BY <4>1 DEF RouterInv, PacketInv, OneOutcome
      <3> QED BY <3>1, <3>2
    <2> QED BY <2>2 DEF OneOutcome
  <1>14. OutcomeOfSentPacket'
    <2>1. ASSUME NEW l \in Keys
          PROVE  /\ packetCommitment'[l] # None =>
                        packetCommitment'[l] = CommitV2Packet(sendEvent'[l])
                 /\ Acknowledged(l)' # <<>> => Acknowledged(l)'[1].packet = sendEvent'[l]
                 /\ TimedOut(l)' # <<>> => TimedOut(l)'[1].packet = sendEvent'[l]
      <3>1. CASE l = k
        <4>1. call.packet = sendEvent'[l]
          BY <3>1, <1>4
        <4> HIDE DEF call
        <4> QED BY <3>1, <4>1, <1>9, <1>10
      <3>2. CASE l # k
        <4>1. /\ Acknowledged(l)' = Acknowledged(l) /\ TimedOut(l)' = TimedOut(l)
              /\ sendEvent'[l] = sendEvent[l] /\ packetCommitment'[l] = packetCommitment[l]
          BY <3>2, <1>7, <1>10
        <4> QED BY <4>1 DEF RouterInv, PacketInv, OutcomeOfSentPacket
      <3> QED BY <3>1, <3>2
    <2> QED BY <2>1 DEF OutcomeOfSentPacket
  <1>15. DeliveredOnce'
    BY <1>7 DEF RouterInv, PacketInv, DeliveredOnce
  <1>16. CounterpartyOnly'
    BY <1>7 DEF clientVars, RouterInv, PacketInv, CounterpartyOnly
  <1>17. UnsentHasNoOutcome'
    BY <1>3, <1>7 DEF RouterInv, PacketInv, UnsentHasNoOutcome
  <1> QED BY <1>11, <1>12, <1>13, <1>14, <1>15, <1>16, <1>17 DEF PacketInv

(* One acknowledgement or timeout, as the handlers make it. *)
LEMMA AcknowledgePacketInv ==
    ASSUME RouterInv, NEW p \in OutPackets, NEW acks \in AckLists, NEW proof, NEW h,
           AcknowledgePacket(p, acks, proof, h), UNCHANGED <<clientVars, now>>
    PROVE  PacketInv'
  BY OutcomeInv DEF AcknowledgePacket

(* A timeout hands no acknowledgement over. *)
LEMMA TimeoutPacketInv ==
    ASSUME RouterInv, NEW p \in OutPackets, NEW proof, NEW h,
           TimeoutPacket(p, proof, h), UNCHANGED <<clientVars, now>>
    PROVE  PacketInv'
  BY OutcomeInv DEF TimeoutPacket

(* Every step of the router keeps the invariant. *)
LEMMA RouterNextInv == RouterInv /\ [RouterNext]_routerVars => RouterInv'
  <1> SUFFICES ASSUME RouterInv, [RouterNext]_routerVars PROVE RouterInv'
    OBVIOUS
  <1>1. CASE ClientNext /\ UNCHANGED <<now, packetVars>>
    <2>1. ClientInv'
      BY <1>1, ClientNextInv DEF RouterInv
    <2>2. \A c \in ClientIds : counterparty[c] # None => counterparty'[c] = counterparty[c]
      BY <1>1, StepKeepsBindings DEF RouterInv, BindingsKept, clientVars
    <2>3. now' \in Times
      BY <1>1 DEF RouterInv, PacketInv, RouterTypeOK
    <2>4. PacketInv'
      BY <1>1, <2>2, <2>3, OtherStepInv DEF RouterInv
    <2> QED BY <2>1, <2>4 DEF RouterInv
  <1>2. CASE LedgerClose /\ UNCHANGED <<clientVars, packetVars>>
    <2>1. ClientInv'
      BY <1>2, ClientNextInv DEF RouterInv
    <2>2. now' \in Times /\ counterparty' = counterparty
      BY <1>2, BoundsAssumption
      DEF LedgerClose, Times, RouterInv, PacketInv, RouterTypeOK, clientVars
    <2>3. PacketInv'
      BY <1>2, <2>2, OtherStepInv DEF RouterInv
    <2> QED BY <2>1, <2>3 DEF RouterInv
  <1>3. CASE PacketNext /\ UNCHANGED <<clientVars, now>>
    <2>1. ClientInv'
      BY <1>3, ClientNextInv DEF RouterInv
    <2>2. PacketInv'
      BY <1>3, RegisterPortInv, SendPacketInv, RecvPacketInv, WriteAcknowledgementIdle,
         AcknowledgePacketInv, TimeoutPacketInv DEF PacketNext
    <2> QED BY <2>1, <2>2 DEF RouterInv
  <1>4. CASE UNCHANGED routerVars
    <2>1. UNCHANGED <<clientVars, packetVars, now>>
      BY <1>4 DEF routerVars
    <2>2. ClientInv'
      BY <2>1, ClientNextInv DEF RouterInv
    <2>3. now' \in Times /\ counterparty' = counterparty
      BY <2>1 DEF RouterInv, PacketInv, RouterTypeOK, clientVars
    <2>4. PacketInv'
      BY <2>1, <2>3, OtherStepInv DEF RouterInv
    <2> QED BY <2>2, <2>4 DEF RouterInv
  <1> QED BY <1>1, <1>2, <1>3, <1>4 DEF RouterNext

(* The inductive invariant holds in every reachable state of the router. *)
THEOREM RouterInvariant == RouterSpec => []RouterInv
  BY RouterInitInv, RouterNextInv, PTL DEF RouterSpec

(* The router's packet entries keep their types. *)
THEOREM RouterTypesCorrect == RouterSpec => []RouterTypeOK
  <1>1. RouterInv => RouterTypeOK
    BY DEF RouterInv, PacketInv
  <1> QED BY <1>1, RouterInvariant, PTL

(* Sequences are handed out densely. *)
THEOREM SequencesAlwaysDense == RouterSpec => []SequencesDense
  <1>1. RouterInv => SequencesDense
    BY DEF RouterInv, PacketInv
  <1> QED BY <1>1, RouterInvariant, PTL

(* A sent packet is in flight or has had exactly one outcome. *)
THEOREM AlwaysOneOutcome == RouterSpec => []OneOutcome
  <1>1. RouterInv => OneOutcome
    BY DEF RouterInv, PacketInv
  <1> QED BY <1>1, RouterInvariant, PTL

(* The outcome handed to the applications is that of the packet they sent. *)
THEOREM AlwaysOutcomeOfSentPacket == RouterSpec => []OutcomeOfSentPacket
  <1>1. RouterInv => OutcomeOfSentPacket
    BY DEF RouterInv, PacketInv
  <1> QED BY <1>1, RouterInvariant, PTL

(* Every packet is delivered at most once, and answered when delivered. *)
THEOREM AlwaysDeliveredOnce == RouterSpec => []DeliveredOnce
  <1>1. RouterInv => DeliveredOnce
    BY DEF RouterInv, PacketInv
  <1> QED BY <1>1, RouterInvariant, PTL

(* Packets go to and come from the registered counterparty only. *)
THEOREM AlwaysCounterpartyOnly == RouterSpec => []CounterpartyOnly
  <1>1. RouterInv => CounterpartyOnly
    BY DEF RouterInv, PacketInv
  <1> QED BY <1>1, RouterInvariant, PTL

-----------------------------------------------------------------------------
(* What a step may never do. *)

(* Which handlers touch receipts, acknowledgements and callbacks. *)
LEMMA PacketFrames ==
    ASSUME PacketNext
    PROVE  \/ UNCHANGED <<packetReceipt, ackCommitment, callbacks>>
           \/ \E p \in InPackets, proof \in Proofs, h \in Heights, acks \in AckLists :
                  RecvPacket(p, proof, h, acks)
           \/ \E k \in Keys, acks \in AckLists : WriteAcknowledgement(k[1], k[2], acks)
           \/ \E p \in OutPackets, acks \in AckLists, proof \in Proofs, h \in Heights :
                  AcknowledgePacket(p, acks, proof, h)
           \/ \E p \in OutPackets, proof \in Proofs, h \in Heights : TimeoutPacket(p, proof, h)
  <1>1. ASSUME NEW port, NEW app, RegisterPort(port, app)
        PROVE  UNCHANGED <<packetReceipt, ackCommitment, callbacks>>
    BY <1>1 DEF RegisterPort
  <1>2. ASSUME NEW c, NEW timeout, NEW ps, NEW auths, SendPacket(c, timeout, ps, auths)
        PROVE  UNCHANGED <<packetReceipt, ackCommitment, callbacks>>
    BY <1>2 DEF SendPacket
  <1> QED BY <1>1, <1>2 DEF PacketNext

(* No step removes a receipt or changes a stored acknowledgement. *)
LEMMA StepKeepsReceipts == RouterInv /\ [RouterNext]_routerVars => [ReceiptsKept]_routerVars
  <1> SUFFICES ASSUME RouterInv, RouterNext, NEW k \in Keys, packetReceipt[k]
               PROVE  packetReceipt'[k] /\ ackCommitment'[k] = ackCommitment[k]
    BY DEF ReceiptsKept, routerVars
  <1>1. CASE UNCHANGED <<packetReceipt, ackCommitment>>
    BY <1>1
  <1>2. ASSUME NEW p \in InPackets, NEW proof, NEW h, NEW acks, RecvPacket(p, proof, h, acks)
        PROVE  packetReceipt'[k] /\ ackCommitment'[k] = ackCommitment[k]
    <2> DEFINE j == <<p.dest_client, p.sequence>>
    <2>1. /\ ~packetReceipt[j]
          /\ packetReceipt' = [packetReceipt EXCEPT ![j] = TRUE]
          /\ ackCommitment' = [ackCommitment EXCEPT ![j] =
                                   CommitV2Acknowledgement(RecvAcks(p, acks))]
      BY <1>2 DEF RecvPacket, HasPacketReceipt
    <2> HIDE DEF j
    <2> QED BY <2>1 DEF RouterInv, PacketInv, RouterTypeOK
  <1>3. ASSUME NEW j \in Keys, NEW acks, WriteAcknowledgement(j[1], j[2], acks)
        PROVE  packetReceipt'[k] /\ ackCommitment'[k] = ackCommitment[k]
    BY <1>3, WriteAcknowledgementIdle
  <1>4. ASSUME NEW p, NEW acks, NEW proof, NEW h,
               AcknowledgePacket(p, acks, proof, h) \/ TimeoutPacket(p, proof, h)
        PROVE  UNCHANGED <<packetReceipt, ackCommitment>>
    BY <1>4 DEF AcknowledgePacket, TimeoutPacket
  <1>5. CASE PacketNext
    BY <1>1, <1>2, <1>3, <1>4, <1>5, PacketFrames
  <1> QED BY <1>1, <1>5 DEF RouterNext, packetVars

(* Receipts and acknowledgements are permanent. *)
THEOREM ReceiptsAlwaysPermanent == RouterSpec => ReceiptsPermanent
  BY StepKeepsReceipts, RouterInvariant, PTL DEF RouterSpec, ReceiptsPermanent

(* A frozen tendermint client accepts no proof. *)
LEMMA FrozenProvesNothing ==
    ASSUME ClientInv, NEW c \in ClientIds, clientLcAddr[c] = "tendermint", routerFrozen[c],
           NEW h, NEW proof, NEW path, NEW value
    PROVE  /\ ~VerifyMembership(clientLcAddr[c], lcState[c], h, proof, path, value)
           /\ ~VerifyNonMembership(clientLcAddr[c], lcState[c], h, proof, path)
  <1>1. lcState[c].cs.is_frozen
    BY DEF ClientInv, FreezeReachesLightClient, LcFrozen
  <1> QED BY <1>1
    DEF VerifyMembership, VerifyNonMembership, TmVerifyMembership, TmVerifyNonMembership

(* No step dispatches a callback for a packet of a frozen tendermint client. *)
LEMMA StepStopsFrozen == RouterInv /\ [RouterNext]_routerVars => [FrozenStopsPackets]_routerVars
  <1> SUFFICES ASSUME RouterInv, RouterNext, NEW c \in ClientIds,
                      clientLcAddr[c] = "tendermint", routerFrozen[c],
                      NEW kind \in CallbackKinds, NEW seq \in Seqs
               PROVE  callbacks'[<<kind, <<c, seq>>>>] = callbacks[<<kind, <<c, seq>>>>]
    BY DEF FrozenStopsPackets, routerVars
  <1> DEFINE kc == <<kind, <<c, seq>>>>
  <1>1. kc \in CallbackKinds \X Keys
    BY DEF Keys
  <1>2. ASSUME NEW k \in Keys, NEW kd \in CallbackKinds, NEW p, NEW acks, k[1] # c,
               callbacks' = Dispatch(kd, k, p, acks)
        PROVE  callbacks'[kc] = callbacks[kc]
    <2>1. <<kd, k>> # kc
      BY <1>2
    <2>2. callbacks \in [CallbackKinds \X Keys -> Seq(Calls)]
      BY DEF RouterInv, PacketInv, RouterTypeOK
    <2> HIDE DEF kc
    <2> QED BY <1>1, <1>2, <2>1, <2>2 DEF Dispatch
  <1>3. ASSUME NEW p \in InPackets, NEW proof, NEW h, NEW acks, RecvPacket(p, proof, h, acks)
        PROVE  callbacks'[kc] = callbacks[kc]
    <2>1. p.dest_client # c
      BY <1>3, FrozenProvesNothing DEF RecvPacket, Proven, RouterInv
    <2> QED BY <1>2, <1>3, <2>1, PacketKeys DEF RecvPacket, CallbackKinds
  <1>4. ASSUME NEW p \in OutPackets, NEW acks, NEW proof, NEW h,
               AcknowledgePacket(p, acks, proof, h)
        PROVE  callbacks'[kc] = callbacks[kc]
    <2>1. p.source_client # c
      BY <1>4, FrozenProvesNothing DEF AcknowledgePacket, Proven, RouterInv
    <2> QED BY <1>2, <1>4, <2>1, PacketKeys DEF AcknowledgePacket, CallbackKinds
  <1>5. ASSUME NEW p \in OutPackets, NEW proof, NEW h, TimeoutPacket(p, proof, h)
        PROVE  callbacks'[kc] = callbacks[kc]
    <2>1. p.source_client # c
      BY <1>5, FrozenProvesNothing DEF TimeoutPacket, ProvenAbsent, RouterInv
    <2> QED BY <1>2, <1>5, <2>1, PacketKeys DEF TimeoutPacket, CallbackKinds
  <1>6. CASE PacketNext
    BY <1>3, <1>4, <1>5, <1>6, PacketFrames DEF WriteAcknowledgement
  <1> QED BY <1>6 DEF RouterNext, packetVars

(* Nothing moves through a frozen tendermint client. *)
THEOREM FrozenNeverMovesPackets == RouterSpec => FrozenMovesNoPacket
  BY StepStopsFrozen, RouterInvariant, PTL DEF RouterSpec, FrozenMovesNoPacket

-----------------------------------------------------------------------------
(* The router with the primitives of its store called by anyone.  Of the    *)
(* invariants above only that of delivery is left, so it is proved on its   *)
(* own.                                                                     *)

OpenInv ==
    /\ packetReceipt \in [Keys -> BOOLEAN]
    /\ callbacks \in [CallbackKinds \X Keys -> Seq(Calls)]
    /\ DeliveredAtMostOnce

(* recv_packet delivers where there was no receipt, and leaves one. *)
LEMMA RecvPacketOpenInv ==
    ASSUME OpenInv, NEW p \in InPackets, NEW proof, NEW h, NEW appAcks \in AckLists,
           RecvPacket(p, proof, h, appAcks)
    PROVE  OpenInv'
  <1> DEFINE k == <<p.dest_client, p.sequence>>
             acks == RecvAcks(p, appAcks)
             call == [packet |-> p, acks |-> acks]
  <1>1. k \in Keys /\ "on_recv_packet" \in CallbackKinds
    BY PacketKeys DEF CallbackKinds
  <1>2. acks \in AckLists \cup {<<>>, <<ErrorAckHash>>}
    BY DEF RecvAcks
  <1>3. /\ packetReceipt' = [packetReceipt EXCEPT ![k] = TRUE]
        /\ callbacks' = Dispatch("on_recv_packet", k, p, acks)
        /\ ~packetReceipt[k]
    BY DEF RecvPacket, HasPacketReceipt
  <1> HIDE DEF k, acks
  <1>4. /\ callbacks' \in [CallbackKinds \X Keys -> Seq(Calls)]
        /\ callbacks'[<<"on_recv_packet", k>>] = Append(callbacks[<<"on_recv_packet", k>>], call)
        /\ \A kc \in CallbackKinds \X Keys :
               kc # <<"on_recv_packet", k>> => callbacks'[kc] = callbacks[kc]
    <2>1. /\ callbacks \in [CallbackKinds \X Keys -> Seq(Calls)]
          /\ <<"on_recv_packet", k>> \in CallbackKinds \X Keys
          /\ call \in Calls
      BY <1>1, <1>2 DEF OpenInv, Calls
    <2>2. callbacks' = [callbacks EXCEPT ![<<"on_recv_packet", k>>] = Append(@, call)]
      BY <1>3 DEF Dispatch
    <2> HIDE DEF call
    <2> QED BY <2>1, <2>2, DispatchAppends
  <1>5. Received(k) = <<>>
    BY <1>1, <1>3 DEF OpenInv, DeliveredAtMostOnce
  <1>6. Len(Received(k)') = 1
    <2> HIDE DEF call
    <2>1. Received(k)' = Append(Received(k), call)
      BY <1>4 DEF Received
    <2>2. Received(k)' = <<call>>
      BY <2>1, <1>5
    <2> QED BY <2>2
  <1>7. ASSUME NEW l \in Keys, l # k
        PROVE  Received(l)' = Received(l) /\ packetReceipt'[l] = packetReceipt[l]
    BY <1>1, <1>3, <1>4, <1>7 DEF Received, OpenInv
  <1>8. packetReceipt' \in [Keys -> BOOLEAN] /\ packetReceipt'[k]
    BY <1>1, <1>3 DEF OpenInv
  <1>9. DeliveredAtMostOnce'
    <2>1. ASSUME NEW l \in Keys
          PROVE  Len(Received(l)') <= 1 /\ (Received(l)' # <<>> => packetReceipt'[l])
      <3>1. CASE l = k
        BY <3>1, <1>6, <1>8
      <3>2. CASE l # k
        BY <3>2, <1>7 DEF OpenInv, DeliveredAtMostOnce
      <3> QED BY <3>1, <3>2
    <2> QED BY <2>1 DEF DeliveredAtMostOnce
  <1> QED BY <1>4, <1>8, <1>9 DEF OpenInv

(* An outcome dispatches a callback of another kind. *)
LEMMA OutcomeOpenInv ==
    ASSUME OpenInv, NEW p \in OutPackets, NEW acks \in AckLists \cup {<<>>},
           NEW kind \in {"on_acknowledgement_packet", "on_timeout_packet"},
           callbacks' = Dispatch(kind, <<p.source_client, p.sequence>>, p, acks),
           UNCHANGED packetReceipt
    PROVE  OpenInv'
  <1> DEFINE k == <<p.source_client, p.sequence>>
             call == [packet |-> p, acks |-> acks]
  <1>1. k \in Keys /\ kind \in CallbackKinds /\ kind # "on_recv_packet"
    BY PacketKeys DEF CallbackKinds
  <1>2. callbacks' = [callbacks EXCEPT ![<<kind, k>>] = Append(@, call)]
    BY DEF Dispatch
  <1> HIDE DEF k
  <1>3. /\ callbacks' \in [CallbackKinds \X Keys -> Seq(Calls)]
        /\ \A kc \in CallbackKinds \X Keys :
               kc # <<kind, k>> => callbacks'[kc] = callbacks[kc]
    <2>1. /\ callbacks \in [CallbackKinds \X Keys -> Seq(Calls)]
          /\ <<kind, k>> \in CallbackKinds \X Keys
          /\ call \in Calls
      BY <1>1 DEF OpenInv, Calls
    <2> HIDE DEF call
    <2> QED BY <2>1, <1>2, DispatchAppends
  <1>4. \A l \in Keys : Received(l)' = Received(l)
    BY <1>1, <1>3 DEF Received, CallbackKinds
  <1>5. DeliveredAtMostOnce'
    BY <1>4 DEF OpenInv, DeliveredAtMostOnce
  <1> QED BY <1>3, <1>5 DEF OpenInv

(* The primitives write commitments and acknowledgements, which delivery    *)
(* does not depend on, and set receipts, which none of them removes.        *)
LEMMA StoreOpenInv == OpenInv /\ StoreNext => OpenInv'
  <1> SUFFICES ASSUME OpenInv, StoreNext PROVE OpenInv'
    OBVIOUS
  <1>1. UNCHANGED callbacks
    BY DEF StoreNext, SetPacketCommitment, DeleteCommitmentEntry, SetPacketReceipt,
           SetAckCommitment
  <1>2. \/ UNCHANGED packetReceipt
        \/ \E k \in Keys : packetReceipt' = [packetReceipt EXCEPT ![k] = TRUE]
    BY DEF StoreNext, SetPacketCommitment, DeleteCommitmentEntry, SetPacketReceipt,
           SetAckCommitment
  <1>3. /\ packetReceipt' \in [Keys -> BOOLEAN]
        /\ \A l \in Keys : packetReceipt[l] => packetReceipt'[l]
    BY <1>2 DEF OpenInv
  <1>4. \A l \in Keys : Received(l)' = Received(l)
    BY <1>1 DEF Received
  <1>5. DeliveredAtMostOnce'
    BY <1>3, <1>4 DEF OpenInv, DeliveredAtMostOnce
  <1> QED BY <1>1, <1>3, <1>5 DEF OpenInv

(* Every step, of the handlers or of the primitives. *)
LEMMA OpenNextInv == OpenInv /\ [OpenNext]_routerVars => OpenInv'
  <1> SUFFICES ASSUME OpenInv, [OpenNext]_routerVars PROVE OpenInv'
    OBVIOUS
  <1>1. ASSUME UNCHANGED <<packetReceipt, callbacks>> PROVE OpenInv'
    BY <1>1 DEF OpenInv, DeliveredAtMostOnce, Received
  <1>2. CASE PacketNext
    <2>1. CASE \E p \in InPackets, proof \in Proofs, h \in Heights, acks \in AckLists :
                   RecvPacket(p, proof, h, acks)
      BY <2>1, RecvPacketOpenInv
    <2>2. CASE \E p \in OutPackets, acks \in AckLists, proof \in Proofs, h \in Heights :
                   AcknowledgePacket(p, acks, proof, h)
      BY <2>2, OutcomeOpenInv DEF AcknowledgePacket
    <2>3. CASE \E p \in OutPackets, proof \in Proofs, h \in Heights : TimeoutPacket(p, proof, h)
      BY <2>3, OutcomeOpenInv DEF TimeoutPacket
    <2>4. ASSUME NEW k \in Keys, NEW acks \in AckLists, WriteAcknowledgement(k[1], k[2], acks)
          PROVE  OpenInv'
      BY <1>1, <2>4 DEF WriteAcknowledgement
    <2> QED BY <1>1, <1>2, <2>1, <2>2, <2>3, <2>4, PacketFrames
  <1>3. CASE StoreNext
    BY <1>3, StoreOpenInv
  <1> QED BY <1>1, <1>2, <1>3 DEF OpenNext, RouterNext, packetVars, routerVars

(* With every entrypoint of the router open to every caller, a packet is    *)
(* still delivered to its application at most once: recv_packet asks for    *)
(* the receipt, and no entrypoint removes one.                              *)
THEOREM AlwaysDeliveredAtMostOnce == OpenSpec => []DeliveredAtMostOnce
  <1>1. RouterInit => OpenInv
    BY DEF RouterInit, PacketInit, OpenInv, DeliveredAtMostOnce, Received, CallbackKinds
  <1>2. OpenInv => DeliveredAtMostOnce
    BY DEF OpenInv
  <1> QED BY <1>1, <1>2, OpenNextInv, PTL DEF OpenSpec
=============================================================================
