------------------------------- MODULE Ics23 -------------------------------
(***************************************************************************)
(* The ICS-23 encoding of the tree's proofs: crates/core/src/ibc/proof.rs  *)
(* writes it, contracts/cosmwasm/light-client/src/merkle.rs reads it, and  *)
(* the wasm light client verifies what it read.  An inner op carries its   *)
(* sibling in the suffix when the path goes through a left child and in    *)
(* the prefix otherwise; the reader takes the sibling from either and      *)
(* finds the side again from the index of the key.                         *)
(***************************************************************************)
EXTENDS Smt

\* The bytes of an op after its 0x01 tag: a sibling or nothing.
inner_op_with_parity(sibling, is_left_child) ==
    IF is_left_child
    THEN [prefix |-> None, suffix |-> sibling]
    ELSE [prefix |-> sibling, suffix |-> None]

build_existence_proof_with_index(key, value, siblings, index) ==
    [key   |-> key,
     value |-> value,
     path  |-> [h \in 1..Len(siblings) |->
                    inner_op_with_parity(siblings[h], Ancestor(index, h - 1) % 2 = 0)]]

serialize_membership_proof_with_index(proof, key, value, index) ==
    [variant |-> "Exist",
     proof   |-> build_existence_proof_with_index(key, value, proof.siblings, index)]

serialize_non_membership_proof_with_index(proof, key, index) ==
    [variant |-> "Nonexist",
     key     |-> key,
     left    |-> build_existence_proof_with_index(key, NoBytes, proof.siblings, index)]

extract_siblingsSuffix(ops) == [h \in 1..Len(ops) |-> ops[h].suffix]

\* The siblings of a path, or None if an op has one in neither place or in
\* both.
extract_siblings(ops) ==
    IF \A h \in 1..Len(ops) : (ops[h].suffix = None) # (ops[h].prefix = None)
    THEN [h \in 1..Len(ops) |-> IF ops[h].suffix # None THEN ops[h].suffix ELSE ops[h].prefix]
    ELSE None

decode_membership_proof(bytes) ==
    LET siblings == extract_siblings(bytes.proof.path)
    IN  IF bytes.variant # "Exist" \/ siblings = None
        THEN None
        ELSE [key |-> bytes.proof.key, value |-> bytes.proof.value, siblings |-> siblings]

decode_non_membership_proof(bytes) ==
    LET siblings == extract_siblings(bytes.left.path)
    IN  IF bytes.variant # "Nonexist" \/ bytes.left.value # NoBytes \/ siblings = None
        THEN None
        ELSE [key |-> bytes.key, siblings |-> siblings]

verify_membership_bytes(root, bytes, key, value) ==
    LET decoded == decode_membership_proof(bytes)
    IN  /\ decoded # None
        /\ decoded.key = key
        /\ decoded.value = sha256(value)
        /\ Len(decoded.siblings) = TreeDepth
        /\ value # NoBytes
        /\ fold_siblings(KeyIndex[key], leaf_hash(sha256(key), sha256(value)),
                         decoded.siblings) = root

verify_non_membership_raw(root, key, siblings) ==
    /\ Len(siblings) = TreeDepth
    /\ fold_siblings(KeyIndex[key], EMPTY, siblings) = root

verify_non_membership_bytes(root, bytes, key) ==
    LET decoded == decode_non_membership_proof(bytes)
    IN  /\ decoded # None
        /\ decoded.key = key
        /\ verify_non_membership_raw(root, key, decoded.siblings)

\* State::proof_for_path after its call of root_at: the proof read from the
\* tree as it is.
ProofFromTree(tree, key) ==
    LET present == generate_membership_proof(tree, key)
        absent  == generate_non_membership_proof(tree, key)
    IN  IF present # None
        THEN serialize_membership_proof_with_index(present, key, present.value_hash, KeyIndex[key])
        ELSE serialize_non_membership_proof_with_index(absent, key, KeyIndex[key])

\* The proof establishes against a root that a key has the value, or, if the
\* value is None, that it is absent.
Verifies(root, bytes, key, value) ==
    IF value = None
    THEN verify_non_membership_bytes(root, bytes, key)
    ELSE verify_membership_bytes(root, bytes, key, value)
=============================================================================
