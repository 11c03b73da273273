-------------------------- MODULE TendermintCodec --------------------------
(***************************************************************************)
(* What the gateway makes of the relayer's tendermint messages before it   *)
(* hands them to the router: crates/core/src/ibc/soroban.rs.  A tendermint *)
(* time has a part below the second; the contract's times are whole        *)
(* seconds.                                                                *)
(***************************************************************************)
EXTENDS TendermintLC

CONSTANT TicksPerSecond     \* the resolution of tendermint times

ASSUME CodecAssumption == TicksPerSecond \in Nat \ {0}

unix_secondsRoundedUp(time) == (time + TicksPerSecond - 1) \div TicksPerSecond

unix_seconds(time) == time \div TicksPerSecond

ClientStateToSoroban(cs) ==
    [kind  |-> "tendermint_client_state",
     state |-> [latest_height |-> cs.latest_height, is_frozen |-> cs.frozen_height # None]]

ConsensusStateToSoroban(cons) ==
    [kind  |-> "tendermint_consensus_state",
     state |-> [timestamp_secs |-> unix_seconds(cons.timestamp), root |-> cons.root]]

tendermint_header_to_soroban_xdr(header) ==
    [kind           |-> "tendermint_header",
     target_height  |-> header.height,
     timestamp_secs |-> unix_seconds(header.time),
     app_hash       |-> header.app_hash]
=============================================================================
