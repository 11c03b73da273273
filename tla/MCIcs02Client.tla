--------------------------- MODULE MCIcs02Client ---------------------------
(* A small instance of Ics02Client: one client type that may be pinned to   *)
(* any of the three light clients in turn, and two clients.                 *)
EXTENDS Ics02Client

CONSTANTS k1, k2, r1, r2

MCKeys == {k1, k2}
MCRoots == {r1, r2}

MCCounterparties ==
    {[client_id |-> id, commitment_prefix |-> "ibc"] : id \in {<<"08-wasm", 0>>, <<"08-wasm", 1>>}}

AttestorState == [attestor_keys |-> <<k1, k2>>, min_required_sigs |-> 2,
                  latest_height |-> 1, frozen |-> FALSE]

TmState == [latest_height |-> 1, is_frozen |-> FALSE]

(* A tendermint client may be created with a consensus state above its       *)
(* latest height or frozen, an attestation client from bytes that do not     *)
(* decode.                                                                   *)
MCClientInputs ==
    {[client_state    |-> [kind |-> "attestor_client_state", state |-> AttestorState],
      consensus_state |-> cons, height |-> 1] :
        cons \in {[kind |-> "state_attestation", timestamp |-> 1], [kind |-> "other"]}}
    \cup
    {[client_state    |-> [kind |-> "tendermint_client_state", state |-> TmState],
      consensus_state |-> [kind |-> "tendermint_consensus_state",
                           state |-> [timestamp_secs |-> 1, root |-> r1]],
      height          |-> h] : h \in {1, 2}}
    \cup
    {[client_state    |-> [kind |-> "tendermint_client_state",
                           state |-> [TmState EXCEPT !.is_frozen = TRUE]],
      consensus_state |-> [kind |-> "tendermint_consensus_state",
                           state |-> [timestamp_secs |-> 1, root |-> r1]],
      height          |-> 1]}

SignedBy(indices, data) ==
    [kind |-> "attestation_proof", attestation_data |-> data, signer_indices |-> indices,
     signatures |-> [i \in DOMAIN indices |-> Signature(<<k1, k2>>[indices[i] + 1], data)]]

(* Attestations by a quorum, by one attestor twice and by one only. *)
MCClientMessages ==
    {SignedBy(idx, [kind |-> "state_attestation", height |-> h, timestamp |-> ts]) :
        idx \in {<<0, 1>>, <<1, 1>>, <<0>>}, h \in Heights, ts \in 1..MaxTime}
    \cup
    [kind : {"tendermint_header"}, target_height : Heights,
     timestamp_secs : 1..MaxTime, app_hash : MCRoots]
=============================================================================
