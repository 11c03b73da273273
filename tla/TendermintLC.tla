--------------------------- MODULE TendermintLC ----------------------------
(***************************************************************************)
(* The 07-tendermint light client contract.  As in the code, headers are   *)
(* not verified cryptographically and a proof is accepted for any height   *)
(* the client has a consensus state for while it is not frozen.  Of a      *)
(* consensus state the timestamp and the root are kept; the next           *)
(* validators' hash is stored and never read.                              *)
(***************************************************************************)
EXTENDS Soroban

CONSTANT Roots      \* application hashes

TmClientState == [latest_height : Nat, is_frozen : BOOLEAN]

TmConsensusState == [timestamp_secs : Nat, root : Roots]

TmStates ==
    [cs        : TmClientState,
     consensus : [Heights -> TmConsensusState \cup {None}]]

TmInitialise(client_state, consensus_state, height) ==
    [cs        |-> client_state.state,
     consensus |-> [h \in Heights |->
                       IF h = height THEN consensus_state.state ELSE None]]

(* decode_header succeeds on a client message. *)
IsTmHeader(msg) == msg.kind = "tendermint_header"

TmCheckReturns(st, msg) == st.cs.is_frozen \/ IsTmHeader(msg)

(* A second header for a known height with another root; the timestamps are *)
(* not compared.                                                            *)
TmCheckForMisbehaviour(st, msg) ==
    /\ ~st.cs.is_frozen
    /\ LET existing == st.consensus[msg.target_height]
       IN  existing # None /\ existing.root # msg.app_hash

TmUpdateReturnsFrozen(st, msg) ==
    IsTmHeader(msg) /\ msg.target_height > st.cs.latest_height

TmUpdateReturns(st, msg) ==
    /\ ~st.cs.is_frozen
    /\ IsTmHeader(msg)
    /\ msg.target_height > st.cs.latest_height

TmUpdateState(st, msg) ==
    [cs        |-> [st.cs EXCEPT !.latest_height = msg.target_height],
     consensus |-> [st.consensus EXCEPT ![msg.target_height] =
                       [timestamp_secs |-> msg.timestamp_secs, root |-> msg.app_hash]]]

TmUpdateStateOnMisbehaviour(st) == [st EXCEPT !.cs.is_frozen = TRUE]

TmVerifyMembershipFrozen(st, height) == st.consensus[height] # None

TmVerifyMembership(st, height) ==
    st.consensus[height] # None /\ ~st.cs.is_frozen

TmVerifyNonMembership(st, height) ==
    st.consensus[height] # None /\ ~st.cs.is_frozen

TmTimestampAtHeight(st, height) ==
    IF st.consensus[height] = None THEN 0 ELSE st.consensus[height].timestamp_secs
=============================================================================
