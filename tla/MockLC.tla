------------------------------- MODULE MockLC -------------------------------
(***************************************************************************)
(* The mock light client contract of the development set-up: every update  *)
(* advances the height by one, no message is misbehaviour, every proof is  *)
(* accepted and every height has timestamp 0.  Of the stored states, which *)
(* are opaque bytes to it, the heights are kept.                           *)
(***************************************************************************)
EXTENDS Soroban

MockStates == [latest_height : Nat, consensus : SUBSET Nat]

MockInitialise(height) == [latest_height |-> height, consensus |-> {height}]

(* Bounded by MaxHeight; the contract's update never fails. *)
MockUpdateReturns(st) == st.latest_height < MaxHeight

MockUpdateState(st) ==
    [latest_height |-> st.latest_height + 1,
     consensus     |-> st.consensus \cup {st.latest_height + 1}]

MockTimestampAtHeight == 0
=============================================================================
