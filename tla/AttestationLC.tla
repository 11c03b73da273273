--------------------------- MODULE AttestationLC ---------------------------
(***************************************************************************)
(* The attestation light client contract: a client trusts what a quorum of *)
(* its attestors signed.  The operations are functions of one client's     *)
(* state, which holds the stored AttestorClientState together with the     *)
(* timestamps stored under Consensus(client_id, height).                   *)
(*                                                                         *)
(* An Ed25519 signature is represented by the key and the data it signs.   *)
(***************************************************************************)
EXTENDS Soroban, Ics24Host

CONSTANT AttestorKeys   \* public keys

MaxSigners == 64    \* slots of the `seen` array in verify_quorum

AttestorClientState ==
    [attestor_keys     : Seq(AttestorKeys),
     min_required_sigs : Nat,
     latest_height     : Nat,
     frozen            : BOOLEAN]

AttStates ==
    [cs        : AttestorClientState,
     consensus : [Heights -> Nat \cup {None}]]

Signature(key, data) == [key |-> key, data |-> data]

(* Every signature counts for an attestor of its own and verifies, and there *)
(* are at least min_required_sigs of them; otherwise the call panics.         *)
VerifyQuorum(cs, proof) ==
    LET idx == proof.signer_indices
        sig == proof.signatures
    IN  /\ Len(sig) = Len(idx)
        /\ Len(sig) >= cs.min_required_sigs
        /\ \A i \in DOMAIN idx :
               /\ idx[i] < Len(cs.attestor_keys)
               /\ idx[i] < MaxSigners
               /\ \A j \in 1..(i - 1) : idx[j] # idx[i]
               /\ sig[i] = Signature(cs.attestor_keys[idx[i] + 1],
                                     proof.attestation_data)

(* The timestamp of a consensus state that does not decode is 0. *)
DecodeInitialTimestamp(consensus_state) ==
    IF consensus_state.kind = "state_attestation"
        THEN consensus_state.timestamp ELSE 0

AttInitialise(client_state, consensus_state, height) ==
    [cs        |-> client_state.state,
     consensus |-> [h \in Heights |->
                       IF h = height THEN DecodeInitialTimestamp(consensus_state)
                                     ELSE None]]

(* decode_proof and decode_attestation succeed on a client message. *)
IsStateAttestation(msg) ==
    msg.kind = "attestation_proof" /\ msg.attestation_data.kind = "state_attestation"

(* check_for_misbehaviour returns (does not panic) ... *)
AttCheckReturns(st, msg) ==
    st.cs.frozen \/ (IsStateAttestation(msg) /\ VerifyQuorum(st.cs, msg))

AttCheckForMisbehaviourLater(st, msg) ==
    /\ ~st.cs.frozen
    /\ LET existing == st.consensus[msg.attestation_data.height]
       IN  existing # None /\ existing > msg.attestation_data.timestamp

AttCheckForMisbehaviourRepeated(st, msg) ==
    ~st.cs.frozen /\ st.consensus[msg.attestation_data.height] # None

(* ... and what it returns. *)
AttCheckForMisbehaviour(st, msg) ==
    /\ ~st.cs.frozen
    /\ LET existing == st.consensus[msg.attestation_data.height]
       IN  existing # None /\ existing # msg.attestation_data.timestamp

AttUpdateReturns(st, msg) ==
    ~st.cs.frozen /\ IsStateAttestation(msg) /\ VerifyQuorum(st.cs, msg)

AttUpdateState(st, msg) ==
    LET att == msg.attestation_data
    IN  [cs        |-> [st.cs EXCEPT !.latest_height = IF att.height > @ THEN att.height ELSE @],
         consensus |-> [st.consensus EXCEPT ![att.height] = att.timestamp]]

AttUpdateStateOnMisbehaviour(st) == [st EXCEPT !.cs.frozen = TRUE]

AttVerifyMembershipAnyHeight(st, height, proof, path, value) ==
    /\ st.consensus[height] # None
    /\ VerifyQuorum(st.cs, proof)
    /\ [path |-> path, value |-> value] \in proof.attestation_data.packets

(* The proof attests that `path` holds `value` at `height`. *)
AttVerifyMembership(st, height, proof, path, value) ==
    /\ st.consensus[height] # None
    /\ proof.kind = "attestation_proof"
    /\ VerifyQuorum(st.cs, proof)
    /\ proof.attestation_data.kind = "packet_attestation"
    /\ proof.attestation_data.height = height
    /\ \E pkt \in proof.attestation_data.packets :
           pkt.path = path /\ pkt.value = value

AttVerifyNonMembership(st, height, proof, path) ==
    AttVerifyMembership(st, height, proof, path, EmptyValue)

AttTimestampAtHeightZero(st, height) == 0

AttTimestampAtHeight(st, height) ==
    IF st.consensus[height] = None THEN 0 ELSE st.consensus[height]
=============================================================================
