---------------------------- MODULE MCIbcRouter ----------------------------
(* A small instance of IbcRouter on the tendermint light client.            *)
EXTENDS IbcRouter

CONSTANTS r1, r2, a1

MCRoots == {r1, r2}

MCCounterparties ==
    {[client_id |-> id, commitment_prefix |-> "ibc"] : id \in {<<"08-wasm", 0>>, <<"08-wasm", 1>>}}

MCClientInputs ==
    {[client_state    |-> [kind |-> "tendermint_client_state",
                           state |-> [latest_height |-> 1, is_frozen |-> FALSE]],
      consensus_state |-> [kind |-> "tendermint_consensus_state",
                           state |-> [timestamp_secs |-> 0, root |-> r1]],
      height          |-> 1]}

MCClientMessages ==
    [kind : {"tendermint_header"}, target_height : {2}, timestamp_secs : {MaxTime},
     app_hash : MCRoots]

ThePayload == [source_port |-> "transfer", dest_port |-> "transfer", value |-> "data"]

MCPayloadLists == {<<>>, <<ThePayload>>}

MCAckLists == {<<>>, <<"ok">>}
=============================================================================
