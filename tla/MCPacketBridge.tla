--------------------------- MODULE MCPacketBridge ---------------------------
(* Small instances of PacketBridge, one per light client.                   *)
EXTENDS PacketBridge

CONSTANTS k1, k2, a1

MCKeys == {k1, k2}

MCCounterparties == {[client_id |-> <<"08-wasm", 0>>, commitment_prefix |-> "ibc"]}

MCClient == <<"client", 0>>

MCRoots == Heights

MCAttInputs ==
    {[client_state    |-> [kind |-> "attestor_client_state",
                           state |-> [attestor_keys |-> Attestors, min_required_sigs |-> 2,
                                      latest_height |-> 1, frozen |-> FALSE]],
      consensus_state |-> [kind |-> "state_attestation", timestamp |-> BlockTime(1)],
      height          |-> 1]}

ThePayload == [source_port |-> "transfer", dest_port |-> "transfer", value |-> "data"]

MCPayloadLists == {<<ThePayload>>}

MCAckLists == {<<"ok">>, <<"error">>}
=============================================================================
