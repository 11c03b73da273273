----------------------- MODULE WasmLightClientProofs -----------------------
(***************************************************************************)
(* What the Stellar light client on Cosmos stores, for every set of        *)
(* heights, roots, validators and envelopes.                               *)
(***************************************************************************)
EXTENDS WasmLightClient, TLAPS

(* The inductive invariant.  LatestIsHighestStored is inductive only with   *)
(* the types and the empty store of a client that is not instantiated; a    *)
(* second update_state_on_misbehaviour writes the height of the first only  *)
(* because a frozen client's latest height cannot move.                     *)
WasmInv ==
    /\ WasmTypeOK
    /\ wasm_client = None => StoredHeights = {}
    /\ LatestIsHighestStored
    /\ IsFrozen => wasm_client.frozen_height = wasm_client.latest_height

(* instantiate stores the first consensus state at the latest height. *)
LEMMA InstantiateInv ==
    ASSUME WasmInv, NEW h \in WasmHeights, NEW c \in ConsensusStates, instantiate(h, c)
    PROVE  WasmInv'
  <1>1. wasm_client' = [latest_height |-> h, frozen_height |-> None]
    BY DEF instantiate
  <1>2. wasm_client' \in ClientStates /\ wasm_client' # None
    BY <1>1, WasmAssumption DEF ClientStates
  <1>3. /\ wasm_consensus' = [wasm_consensus EXCEPT ![h] = c]
        /\ \A g \in WasmHeights : wasm_consensus[g] = None
    BY DEF instantiate, WasmInv, StoredHeights
  <1>4. /\ wasm_consensus' \in [WasmHeights -> ConsensusStates \cup {None}]
        /\ \A g \in WasmHeights : wasm_consensus'[g] # None <=> g = h
    BY <1>3, WasmAssumption DEF WasmInv, WasmTypeOK
  <1>5. StoredHeights' = {h}
    BY <1>4 DEF StoredHeights
  <1>6. wasm_client'.latest_height = h /\ wasm_client'.frozen_height = None
    BY <1>1
  <1>7. h <= h
    BY WasmAssumption
  <1> QED BY <1>2, <1>4, <1>5, <1>6, <1>7
          DEF WasmInv, WasmTypeOK, LatestIsHighestStored, IsFrozen

(* A header is stored at its own height, below or above the latest one. *)
LEMMA UpdateStateInv ==
    ASSUME WasmInv, NEW header \in StellarHeaders, update_state(header)
    PROVE  WasmInv'
  <1> DEFINE h == header.ledger_seq
             latest == wasm_client.latest_height
  <1>1. /\ h \in WasmHeights /\ h \in Nat
        /\ header.consensus \in ConsensusStates /\ header.consensus # None
    BY WasmAssumption DEF StellarHeaders
  <1>2. wasm_client # None /\ wasm_client.frozen_height = None
    BY DEF update_state, verify_client_message, IsFrozen
  <1>3. wasm_client \in ClientStates /\ latest \in WasmHeights /\ latest \in Nat
    BY <1>2, WasmAssumption DEF WasmInv, WasmTypeOK, ClientStates
  <1>4. latest \in StoredHeights /\ \A g \in StoredHeights : g <= latest
    BY <1>2 DEF WasmInv, LatestIsHighestStored
  <1>5. /\ wasm_client' \in ClientStates
        /\ wasm_client'.latest_height = IF h > latest THEN h ELSE latest
        /\ wasm_client'.frozen_height = None
    BY <1>1, <1>2, <1>3 DEF update_state, ClientStates
  <1>6. wasm_client' # None
    BY <1>5, WasmAssumption
  <1>7. /\ wasm_consensus' \in [WasmHeights -> ConsensusStates \cup {None}]
        /\ \A g \in WasmHeights : wasm_consensus'[g] # None <=> (g = h \/ wasm_consensus[g] # None)
    BY <1>1 DEF update_state, WasmInv, WasmTypeOK
  <1>8. StoredHeights' = StoredHeights \cup {h}
    BY <1>1, <1>7 DEF StoredHeights
  <1>9. /\ wasm_client'.latest_height \in StoredHeights'
        /\ \A g \in StoredHeights' : g <= wasm_client'.latest_height
    <2>1. StoredHeights \subseteq Nat
      BY WasmAssumption DEF StoredHeights
    <2>2. CASE h > latest
      <3>1. wasm_client'.latest_height = h
        BY <1>5, <2>2
      <3>2. \A g \in StoredHeights : g <= h
        BY <1>1, <1>3, <1>4, <2>1, <2>2
      <3> QED BY <1>1, <1>8, <3>1, <3>2
    <2>3. CASE ~(h > latest)
      <3>1. wasm_client'.latest_height = latest
        BY <1>5, <2>3
      <3>2. h <= latest
        BY <1>1, <1>3, <2>3
      <3> QED BY <1>4, <1>8, <3>1, <3>2
    <2> QED BY <2>2, <2>3
  <1> QED BY <1>5, <1>6, <1>7, <1>9 DEF WasmInv, WasmTypeOK, LatestIsHighestStored, IsFrozen

(* Freezing changes neither the latest height nor what is stored. *)
LEMMA MisbehaviourInv ==
    ASSUME WasmInv, update_state_on_misbehaviour
    PROVE  WasmInv'
  <1>1. wasm_client # None /\ wasm_client \in ClientStates
    BY DEF update_state_on_misbehaviour, WasmInv, WasmTypeOK
  <1>2. /\ wasm_client' \in ClientStates
        /\ wasm_client'.latest_height = wasm_client.latest_height
        /\ wasm_client'.frozen_height = wasm_client.latest_height
    BY <1>1 DEF update_state_on_misbehaviour, ClientStates
  <1>3. wasm_client' # None
    BY <1>2, WasmAssumption
  <1>4. wasm_consensus' = wasm_consensus /\ StoredHeights' = StoredHeights
    BY DEF update_state_on_misbehaviour, StoredHeights
  <1> QED BY <1>1, <1>2, <1>3, <1>4 DEF WasmInv, WasmTypeOK, LatestIsHighestStored, IsFrozen

(* The invariant holds at first and is preserved by every message. *)
LEMMA WasmInductive == WasmSpec => []WasmInv
  <1>1. WasmInit => WasmInv
    BY DEF WasmInit, WasmInv, WasmTypeOK, StoredHeights, LatestIsHighestStored, IsFrozen
  <1>2. WasmInv /\ [WasmNext]_wasmVars => WasmInv'
    <2> SUFFICES ASSUME WasmInv, [WasmNext]_wasmVars PROVE WasmInv'
      OBVIOUS
    <2>1. CASE UNCHANGED wasmVars
      BY <2>1 DEF wasmVars, WasmInv, WasmTypeOK, StoredHeights, LatestIsHighestStored, IsFrozen
    <2> QED BY <2>1, InstantiateInv, UpdateStateInv, MisbehaviourInv DEF WasmNext
  <1> QED BY <1>1, <1>2, PTL DEF WasmSpec

-----------------------------------------------------------------------------
(* The client state and the consensus states keep their types through       *)
(* instantiate, update_state and update_state_on_misbehaviour.              *)
THEOREM WasmTypesCorrect == WasmSpec => []WasmTypeOK
  <1>1. WasmInv => WasmTypeOK
    BY DEF WasmInv
  <1> QED BY <1>1, WasmInductive, PTL

(* latest_height has a consensus state and none lies above it, in whatever  *)
(* order update_state receives its headers.                                 *)
THEOREM LatestAlwaysHighestStored == WasmSpec => []LatestIsHighestStored
  <1>1. WasmInv => LatestIsHighestStored
    BY DEF WasmInv
  <1> QED BY <1>1, WasmInductive, PTL

(* No message replaces a consensus state: update_state compares before it   *)
(* writes, and instantiate finds an empty store.                            *)
THEOREM ConsensusStatesAlwaysPermanent == WasmSpec => ConsensusStatesPermanent
  <1>1. WasmInv /\ [WasmNext]_wasmVars =>
            [\A h \in WasmHeights :
                 wasm_consensus[h] # None => wasm_consensus'[h] = wasm_consensus[h]]_wasmVars
    <2> SUFFICES ASSUME WasmInv, WasmNext, NEW g \in WasmHeights, wasm_consensus[g] # None
                 PROVE  wasm_consensus'[g] = wasm_consensus[g]
      BY DEF wasmVars
    <2>1. ASSUME NEW h \in WasmHeights, NEW c \in ConsensusStates, instantiate(h, c)
          PROVE  FALSE
      BY <2>1 DEF instantiate, WasmInv, StoredHeights
    <2>2. ASSUME NEW header \in StellarHeaders, update_state(header)
          PROVE  wasm_consensus'[g] = wasm_consensus[g]
      <3>1. wasm_consensus \in [WasmHeights -> ConsensusStates \cup {None}]
        BY DEF WasmInv, WasmTypeOK
      <3> QED BY <2>2, <3>1 DEF update_state
    <2>3. CASE update_state_on_misbehaviour
      BY <2>3 DEF update_state_on_misbehaviour
    <2> QED BY <2>1, <2>2, <2>3 DEF WasmNext
  <1> QED BY <1>1, WasmInductive, PTL DEF WasmSpec, ConsensusStatesPermanent

(* update_state builds on a stored height below its own, so nothing is ever *)
(* stored below the lowest height stored already.                           *)
THEOREM NothingEverBelowAnchor == WasmSpec => NothingBelowAnchor
  <1>1. WasmInv /\ [WasmNext]_wasmVars =>
            [wasm_client # None =>
                 \A h \in WasmHeights : wasm_consensus'[h] # None =>
                     \E g \in StoredHeights : g <= h]_wasmVars
    <2> SUFFICES ASSUME WasmInv, WasmNext, wasm_client # None,
                        NEW g \in WasmHeights, wasm_consensus'[g] # None
                 PROVE  \E f \in StoredHeights : f <= g
      BY DEF wasmVars
    <2>1. ASSUME wasm_consensus[g] # None PROVE \E f \in StoredHeights : f <= g
      <3>1. g \in StoredHeights /\ g <= g
        BY <2>1, WasmAssumption DEF StoredHeights
      <3> QED BY <3>1
    <2>2. ASSUME NEW header \in StellarHeaders, update_state(header)
          PROVE  \E f \in StoredHeights : f <= g
      <3>1. CASE g = header.ledger_seq
        <4>1. /\ header.trusted_height \in WasmHeights
              /\ header.ledger_seq > header.trusted_height
              /\ wasm_consensus[header.trusted_height] # None
          BY <2>2 DEF update_state, verify_client_message, StellarHeaders
        <4>2. header.trusted_height \in StoredHeights /\ header.trusted_height <= g
          BY <3>1, <4>1, WasmAssumption DEF StoredHeights
        <4> QED BY <4>2
      <3>2. CASE g # header.ledger_seq
        <4>1. wasm_consensus'[g] = wasm_consensus[g]
          BY <2>2, <3>2 DEF update_state, WasmInv, WasmTypeOK
        <4> QED BY <2>1, <4>1
      <3> QED BY <3>1, <3>2
    <2>3. CASE update_state_on_misbehaviour
      BY <2>1, <2>3 DEF update_state_on_misbehaviour
    <2>4. ~\E h \in WasmHeights, c \in ConsensusStates : instantiate(h, c)
      BY DEF instantiate
    <2> QED BY <2>2, <2>3, <2>4 DEF WasmNext
  <1> QED BY <1>1, WasmInductive, PTL DEF WasmSpec, NothingBelowAnchor

(* After update_state_on_misbehaviour no message changes the store: headers *)
(* are refused, and a second report writes the height already there.        *)
THEOREM FrozenAlwaysFinal == WasmSpec => FrozenWasmClientFinal
  <1>1. WasmInv /\ [WasmNext]_wasmVars => [IsFrozen => UNCHANGED wasmVars]_wasmVars
    <2> SUFFICES ASSUME WasmInv, WasmNext, IsFrozen PROVE UNCHANGED wasmVars
      OBVIOUS
    <2>1. CASE update_state_on_misbehaviour
      <3>1. /\ wasm_client \in ClientStates
            /\ wasm_client.frozen_height = wasm_client.latest_height
        BY DEF IsFrozen, WasmInv, WasmTypeOK
      <3>2. wasm_client' = wasm_client
        BY <2>1, <3>1 DEF update_state_on_misbehaviour, ClientStates
      <3> QED BY <2>1, <3>2 DEF update_state_on_misbehaviour, wasmVars
    <2>2. ~\E header \in StellarHeaders : update_state(header)
      BY DEF update_state, verify_client_message
    <2>3. ~\E h \in WasmHeights, c \in ConsensusStates : instantiate(h, c)
      BY DEF instantiate, IsFrozen
    <2> QED BY <2>1, <2>2, <2>3 DEF WasmNext
  <1> QED BY <1>1, WasmInductive, PTL DEF WasmSpec, FrozenWasmClientFinal
=============================================================================
