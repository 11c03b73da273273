-------------------------- MODULE MCWasmLightClient --------------------------
(* Two validators, one of them trusted; headers signed by either, by none   *)
(* or by a trusted validator with a signature that does not verify.         *)
EXTENDS WasmLightClient

CONSTANTS n1, n2

MCKeyIndex == [k \in Keys |-> 0]

MCEnvelopes ==
    {{}, {[node_id |-> n1, valid |-> TRUE]}, {[node_id |-> n1, valid |-> FALSE]},
     {[node_id |-> n2, valid |-> TRUE]}}
=============================================================================
