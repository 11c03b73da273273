---------------------------- MODULE LightClient ----------------------------
(***************************************************************************)
(* The interface through which the router invokes a light client contract: *)
(* env.invoke_contract(lc_addr, ...) runs the contract deployed at lc_addr *)
(* on the state it keeps for the client.  A light client is named by what  *)
(* is deployed at its address.                                             *)
(***************************************************************************)
EXTENDS AttestationLC, TendermintLC, MockLC

LcAddresses == {"attestation", "tendermint", "mock"}

LcStates == AttStates \cup TmStates \cup MockStates

(* What the light client at `lc` makes of the bytes given to create_client: *)
(* the initial state, or a panic when they do not decode.                   *)
InitialiseReturns(lc, client_state, consensus_state) ==
    \/ lc = "attestation" /\ client_state.kind = "attestor_client_state"
    \/ lc = "tendermint" /\ client_state.kind = "tendermint_client_state"
                         /\ consensus_state.kind = "tendermint_consensus_state"
    \/ lc = "mock"

Initialise(lc, client_state, consensus_state, height) ==
    CASE lc = "attestation" -> AttInitialise(client_state, consensus_state, height)
      [] lc = "tendermint"  -> TmInitialise(client_state, consensus_state, height)
      [] lc = "mock"        -> MockInitialise(height)

CheckReturns(lc, st, msg) ==
    \/ lc = "attestation" /\ AttCheckReturns(st, msg)
    \/ lc = "tendermint" /\ TmCheckReturns(st, msg)
    \/ lc = "mock"

CheckForMisbehaviour(lc, st, msg) ==
    \/ lc = "attestation" /\ AttCheckForMisbehaviour(st, msg)
    \/ lc = "tendermint" /\ TmCheckForMisbehaviour(st, msg)

UpdateReturns(lc, st, msg) ==
    \/ lc = "attestation" /\ AttUpdateReturns(st, msg)
    \/ lc = "tendermint" /\ TmUpdateReturns(st, msg)
    \/ lc = "mock" /\ MockUpdateReturns(st)

UpdateState(lc, st, msg) ==
    CASE lc = "attestation" -> AttUpdateState(st, msg)
      [] lc = "tendermint"  -> TmUpdateState(st, msg)
      [] lc = "mock"        -> MockUpdateState(st)

UpdateStateOnMisbehaviour(lc, st) ==
    CASE lc = "attestation" -> AttUpdateStateOnMisbehaviour(st)
      [] lc = "tendermint"  -> TmUpdateStateOnMisbehaviour(st)

VerifyMembership(lc, st, height, proof, path, value) ==
    \/ lc = "attestation" /\ AttVerifyMembership(st, height, proof, path, value)
    \/ lc = "tendermint" /\ TmVerifyMembership(st, height)
    \/ lc = "mock"

VerifyNonMembership(lc, st, height, proof, path) ==
    \/ lc = "attestation" /\ AttVerifyNonMembership(st, height, proof, path)
    \/ lc = "tendermint" /\ TmVerifyNonMembership(st, height)
    \/ lc = "mock"

TimestampAtHeight(lc, st, height) ==
    CASE lc = "attestation" -> AttTimestampAtHeight(st, height)
      [] lc = "tendermint"  -> TmTimestampAtHeight(st, height)
      [] lc = "mock"        -> MockTimestampAtHeight
=============================================================================
