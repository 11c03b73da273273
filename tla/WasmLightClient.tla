-------------------------- MODULE WasmLightClient --------------------------
(***************************************************************************)
(* The Stellar light client that Cosmos runs under 08-wasm:                *)
(* contracts/cosmwasm/light-client/src.  One contract store is one client. *)
(* Messages reach it from the host chain alone, one at a time; one that    *)
(* returns an error changes nothing.                                       *)
(*                                                                         *)
(* A header names its ledger and the trusted height it builds on, and      *)
(* carries the root that the gateway computed and SCP envelopes.  An       *)
(* envelope is its signer and whether its signature verifies.              *)
(***************************************************************************)
EXTENDS Ics23

CONSTANTS
    WasmHeights,        \* ledger sequences
    WasmTimes,          \* close times
    LedgerHashes,
    StateRoots,         \* ibc_state_root
    Validators,         \* the nodes that sign envelopes
    TrustedValidators,  \* ClientState.trusted_validators, set at creation
    Envelopes           \* the lists of envelopes a header may carry, as sets

VARIABLES
    wasm_client,        \* clientState: None before instantiate
    wasm_consensus      \* consensusStates/0-{height}

wasmVars == <<wasm_client, wasm_consensus>>

ClientStates == [latest_height : WasmHeights, frozen_height : WasmHeights \cup {None}]

ConsensusStates == [timestamp : WasmTimes, ledger_hash : LedgerHashes, root : StateRoots]

ASSUME WasmAssumption ==
    /\ WasmHeights \subseteq Nat
    /\ Envelopes \subseteq SUBSET [node_id : Validators, valid : BOOLEAN]
    /\ None \notin WasmHeights \cup ClientStates \cup ConsensusStates

\* A missing trusted_height is None.
StellarHeaders ==
    [ledger_seq : WasmHeights, trusted_height : WasmHeights \cup {None},
     consensus : ConsensusStates, scp_envelopes : Envelopes]

-----------------------------------------------------------------------------
\* One valid signature of one trusted validator is enough.
verify_scp_quorum(header) ==
    \E env \in header.scp_envelopes : env.node_id \in TrustedValidators /\ env.valid

IsFrozen == wasm_client # None /\ wasm_client.frozen_height # None

verify_client_message(header) ==
    /\ wasm_client # None
    /\ ~IsFrozen
    /\ header.trusted_height # None
    /\ header.ledger_seq > header.trusted_height
    /\ wasm_consensus[header.trusted_height] # None
    /\ verify_scp_quorum(header)

check_for_misbehaviourLatest(header) ==
    /\ wasm_client # None
    /\ ~IsFrozen
    /\ header.ledger_seq = wasm_client.latest_height
    /\ wasm_consensus[header.ledger_seq] # header.consensus

\* The sudo message; the query of the same name always answers FALSE.
check_for_misbehaviour(header) ==
    /\ wasm_client # None
    /\ ~IsFrozen
    /\ wasm_consensus[header.ledger_seq] # None
    /\ wasm_consensus[header.ledger_seq] # header.consensus

QueryCheckForMisbehaviour(header) == FALSE

instantiate(height, consensus) ==
    /\ wasm_client = None
    /\ wasm_client' = [latest_height |-> height, frozen_height |-> None]
    /\ wasm_consensus' = [wasm_consensus EXCEPT ![height] = consensus]

update_stateOverwrites(header) ==
    /\ verify_client_message(header)
    /\ wasm_consensus' = [wasm_consensus EXCEPT ![header.ledger_seq] = header.consensus]
    /\ wasm_client' =
           [wasm_client EXCEPT !.latest_height = IF header.ledger_seq > @ THEN header.ledger_seq
                                                                          ELSE @]

update_stateLatestSeen(header) ==
    /\ verify_client_message(header)
    /\ wasm_consensus[header.ledger_seq] \in {None, header.consensus}
    /\ wasm_consensus' = [wasm_consensus EXCEPT ![header.ledger_seq] = header.consensus]
    /\ wasm_client' = [wasm_client EXCEPT !.latest_height = header.ledger_seq]

update_state(header) ==
    /\ verify_client_message(header)
    /\ wasm_consensus[header.ledger_seq] \in {None, header.consensus}
    /\ wasm_consensus' = [wasm_consensus EXCEPT ![header.ledger_seq] = header.consensus]
    /\ wasm_client' =
           [wasm_client EXCEPT !.latest_height = IF header.ledger_seq > @ THEN header.ledger_seq
                                                                          ELSE @]

update_state_on_misbehaviour ==
    /\ wasm_client # None
    /\ wasm_client' = [wasm_client EXCEPT !.frozen_height = wasm_client.latest_height]
    /\ UNCHANGED wasm_consensus

\* The sudo messages that check a proof; they change nothing.
WasmVerifyMembership(height, bytes, key, value) ==
    /\ wasm_client # None
    /\ ~IsFrozen
    /\ wasm_consensus[height] # None
    /\ verify_membership_bytes(wasm_consensus[height].root, bytes, key, value)

WasmVerifyNonMembership(height, bytes, key) ==
    /\ wasm_client # None
    /\ ~IsFrozen
    /\ wasm_consensus[height] # None
    /\ verify_non_membership_bytes(wasm_consensus[height].root, bytes, key)

-----------------------------------------------------------------------------
WasmInit ==
    /\ wasm_client = None
    /\ wasm_consensus = [h \in WasmHeights |-> None]

\* The host may send either sudo message at any time.
WasmNext ==
    \/ \E h \in WasmHeights, c \in ConsensusStates : instantiate(h, c)
    \/ \E header \in StellarHeaders : update_state(header)
    \/ update_state_on_misbehaviour

WasmSpec == WasmInit /\ [][WasmNext]_wasmVars

-----------------------------------------------------------------------------
StoredHeights == {h \in WasmHeights : wasm_consensus[h] # None}

(* The types of the client state and the consensus states.                  *)
WasmTypeOK ==
    /\ wasm_client \in ClientStates \cup {None}
    /\ wasm_consensus \in [WasmHeights -> ConsensusStates \cup {None}]

(* latest_height, which the host reads to choose the heights it proves at,  *)
(* always has a consensus state, and no consensus state lies above it,      *)
(* although update_state accepts headers in any order.                      *)
LatestIsHighestStored ==
    wasm_client # None =>
        /\ wasm_client.latest_height \in StoredHeights
        /\ \A h \in StoredHeights : h <= wasm_client.latest_height

(* A consensus state, once stored, is never replaced: not by a header for   *)
(* a lower height, not by a conflicting one, not by a second instantiate.   *)
ConsensusStatesPermanent ==
    [][\A h \in WasmHeights :
           wasm_consensus[h] # None => wasm_consensus'[h] = wasm_consensus[h]]_wasmVars

(* update_state accepts a header only above a height it already trusts, so  *)
(* no chain of headers ever reaches below the height of instantiate.        *)
NothingBelowAnchor ==
    [][wasm_client # None =>
           \A h \in WasmHeights : wasm_consensus'[h] # None =>
               \E g \in StoredHeights : g <= h]_wasmVars

(* A frozen client stays frozen at the height it froze at and accepts       *)
(* nothing more.                                                            *)
FrozenWasmClientFinal == [][IsFrozen => UNCHANGED wasmVars]_wasmVars

(* What update_state refuses as a conflict is exactly what the sudo message *)
(* check_for_misbehaviour reports: a header that passes                     *)
(* verify_client_message is either storable or evidence of misbehaviour.    *)
ConflictIsMisbehaviour ==
    \A header \in StellarHeaders :
        verify_client_message(header) =>
            (check_for_misbehaviour(header) <=> ~ENABLED update_state(header))
=============================================================================
