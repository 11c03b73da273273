----------------------------- MODULE Ics24Host -----------------------------
(***************************************************************************)
(* ICS-24 paths and commitments of the router (ics24_host.rs).             *)
(*                                                                         *)
(* SHA-256 is taken to be collision free, so a hash is represented by what *)
(* it is computed from.  What a commitment does NOT cover is kept: the     *)
(* packet commitment covers the destination client, the timeout and the    *)
(* payloads, but neither the sequence nor the source client, which are     *)
(* part of the path only.                                                  *)
(***************************************************************************)

PACKET_COMMITMENT_DISCRIMINATOR == 1
PACKET_RECEIPT_DISCRIMINATOR    == 2
ACK_COMMITMENT_DISCRIMINATOR    == 3

(* {client_id} || discriminator || be64(sequence), behind the merkle prefix *)
(* the counterparty registered with.  The id is the only part of variable   *)
(* length, so two keys are equal only when all three parts are.             *)
CounterpartyV2Path(prefix, client_id, discriminator, sequence) ==
    <<prefix, client_id, discriminator, sequence>>

(* The value of a path that holds nothing (attested as an empty string). *)
EmptyValue == [hash |-> "empty"]

ErrorAckHash == "UNIVERSAL_ERROR_ACKNOWLEDGEMENT"

CommitV2Packet(packet) ==
    [hash              |-> "packet",
     dest_client       |-> packet.dest_client,
     timeout_timestamp |-> packet.timeout_timestamp,
     payloads          |-> packet.payloads]

CommitV2Acknowledgement(acks) ==
    [hash |-> "ack", acks |-> acks]
=============================================================================
