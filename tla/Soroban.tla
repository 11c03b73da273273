------------------------------ MODULE Soroban ------------------------------
(***************************************************************************)
(* What the contracts take from the Soroban host.  A contract call is one  *)
(* atomic transaction: a panic anywhere on its path, in a contract it      *)
(* invokes included, rolls back every write.  An action of this project    *)
(* is therefore a call that returns: its guard is the conjunction of every *)
(* check on the path, and a call that panics changes nothing.              *)
(*                                                                         *)
(* None is the answer of a storage read that finds no entry.               *)
(***************************************************************************)
EXTENDS Integers, Sequences, FiniteSets

CONSTANTS
    None,       \* Option::None
    MaxTime,    \* bound on the timestamps of either chain
    MaxHeight   \* bound on the heights of the counterparty chain

ASSUME BoundsAssumption == MaxTime \in Nat /\ MaxHeight \in Nat

Times == 0..MaxTime

Heights == 1..MaxHeight
=============================================================================
