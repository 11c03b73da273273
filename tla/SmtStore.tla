------------------------------ MODULE SmtStore ------------------------------
(***************************************************************************)
(* The tree as a store that changes while a root of it is in use.  The     *)
(* gateway inserts, updates and removes; a consensus state on Cosmos       *)
(* carries the root of the tree at some earlier moment (Publish); proofs   *)
(* are generated from the tree as it is now and verified against that      *)
(* root, by the verifier of the core crate and by that of the wasm client. *)
(***************************************************************************)
EXTENDS Ics23

VARIABLES
    tree,       \* Smt.leaves
    store,      \* the map the tree stands for
    published   \* the tree whose root the consensus state carries

vars == <<tree, store, published>>

SmtInit ==
    /\ tree = EmptyTree
    /\ store = [k \in Keys |-> None]
    /\ published = EmptyTree

Insert(key, value) ==
    /\ tree' = SmtInsert(tree, key, value)
    /\ store' = [store EXCEPT ![key] = IF value = NoBytes THEN None ELSE value]
    /\ UNCHANGED published

Remove(key) ==
    /\ tree' = SmtRemove(tree, key)
    /\ store' = [store EXCEPT ![key] = None]
    /\ UNCHANGED published

Publish ==
    /\ published' = tree
    /\ UNCHANGED <<tree, store>>

SmtNext ==
    \/ \E k \in Keys, v \in Values : Insert(k, v)
    \/ \E k \in Keys : Remove(k)
    \/ Publish

SmtSpec == SmtInit /\ [][SmtNext]_vars

-----------------------------------------------------------------------------
root == SmtRoot(published)

(* A proof generated while the published root is still the tree's root is   *)
(* accepted by the wasm client, whatever the shape of the tree, for every   *)
(* key, present or absent, with the value the store has for it.             *)
FreshProofsVerify ==
    SmtRoot(tree) = root => \A k \in Keys : Verifies(root, ProofFromTree(tree, k), k, store[k])

(* A proof generated from a tree that has moved on since its root was       *)
(* published is either rejected or still true: what the wasm client accepts *)
(* is what the published tree holds for that key.                           *)
StaleProofsSound ==
    \A k \in Keys, v \in Values \cup {None} :
        Verifies(root, ProofFromTree(tree, k), k, v) => Held(published, k) = HashOf(v)

(* The verifier of the core crate and the one compiled into the wasm light  *)
(* client, each reading its own encoding of a proof, accept the same        *)
(* proofs against every root.                                               *)
VerifiersAgree ==
    \A k, l \in Keys, v \in Values :
        LET present == generate_membership_proof(tree, k)
            absent  == generate_non_membership_proof(tree, k)
        IN  /\ present # None =>
                   (verify_membership(root, present, l, v)
                     <=> verify_membership_bytes(root, ProofFromTree(tree, k), l, v))
            /\ absent # None =>
                   (verify_non_membership(root, absent, l)
                     <=> verify_non_membership_bytes(root, ProofFromTree(tree, k), l))

(* The root commits to the whole tree: two trees with one root are equal.   *)
RootBindsTree == SmtRoot(tree) = root => tree = published
=============================================================================
