-------------------------------- MODULE Smt --------------------------------
(***************************************************************************)
(* The sparse Merkle tree of crates/core/src/ibc/smt.rs, from which the    *)
(* gateway serves ICS-23 proofs, and the verifier of                       *)
(* contracts/cosmwasm/light-client/src/smt.rs, which the wasm light client *)
(* runs on Cosmos.  SHA-256 is taken to be free of collisions: a hash is   *)
(* the term that was hashed, tagged with what was hashed.                  *)
(*                                                                         *)
(* The code has TREE_DEPTH 64 and indexes a key by the first 64 bits of    *)
(* its hash.  Both are constants here.  KeyIndex is one to one: two paths  *)
(* that share 64 bits of SHA-256 are as unlikely as a collision.           *)
(***************************************************************************)
EXTENDS Naturals, Sequences, FiniteSets

CONSTANTS
    None,       \* Option::None
    Keys,       \* the provable paths of the router's storage
    Values,     \* the byte strings stored under them
    NoBytes,    \* the empty byte string
    TreeDepth,  \* TREE_DEPTH
    KeyIndex    \* key_index

ASSUME SmtAssumption ==
    /\ TreeDepth \in Nat
    /\ KeyIndex \in [Keys -> 0..2^TreeDepth - 1]
    /\ \A k, l \in Keys : KeyIndex[k] = KeyIndex[l] => k = l

Indices == 0..2^TreeDepth - 1

sha256(data) == <<"sha256", data>>

\* leaves: a slot of the tree holds nothing or a key hash and a value hash.
Trees ==
    [Indices -> {None} \cup ({sha256(k) : k \in Keys} \X {sha256(v) : v \in Values \ {NoBytes}})]

EMPTY == <<"empty">>

leaf_hashKeyOnly(key_hash, value_hash) == <<"leaf", key_hash>>

leaf_hash(key_hash, value_hash) == <<"leaf", key_hash, value_hash>>

inner_hashSparse(left, right) ==
    IF left = EMPTY \/ right = EMPTY THEN EMPTY ELSE <<"inner", left, right>>

inner_hash(left, right) ==
    IF left = EMPTY /\ right = EMPTY THEN EMPTY ELSE <<"inner", left, right>>

EmptyTree == [i \in Indices |-> None]

SmtRemove(tree, key) == [tree EXCEPT ![KeyIndex[key]] = None]

SmtInsert(tree, key, value) ==
    IF value = NoBytes
    THEN SmtRemove(tree, key)
    ELSE [tree EXCEPT ![KeyIndex[key]] = <<sha256(key), sha256(value)>>]

\* The code keeps a level as a map without its EMPTY nodes and reads an
\* absent node as EMPTY.
LevelSize(h) == 2^(TreeDepth - h)

LeafLevel(tree) ==
    [i \in Indices |-> IF tree[i] = None THEN EMPTY ELSE leaf_hash(tree[i][1], tree[i][2])]

materialize_levels(tree) ==
    LET level[h \in 0..TreeDepth] ==
            IF h = 0
            THEN LeafLevel(tree)
            ELSE [i \in 0..LevelSize(h) - 1 |->
                      inner_hash(level[h - 1][2 * i], level[h - 1][2 * i + 1])]
    IN  level

SmtRoot(tree) == materialize_levels(tree)[TreeDepth][0]

\* The node that an index lies under at height h, and i ^ 1.
Ancestor(index, h) == index \div 2^h

SiblingRight(i) == IF i % 2 = 0 THEN i + 1 ELSE i

Sibling(i) == IF i % 2 = 0 THEN i + 1 ELSE i - 1

siblings_for(tree, index) ==
    LET levels == materialize_levels(tree)
    IN  [h \in 1..TreeDepth |-> levels[h - 1][Sibling(Ancestor(index, h - 1))]]

fold_siblings(index, leaf, siblings) ==
    LET current[h \in 0..Len(siblings)] ==
            IF h = 0
            THEN leaf
            ELSE IF Ancestor(index, h - 1) % 2 = 0
                 THEN inner_hash(current[h - 1], siblings[h])
                 ELSE inner_hash(siblings[h], current[h - 1])
    IN  current[Len(siblings)]

\* A proof has the hash of its key, the hash of its value if it is of
\* membership, and the siblings from the leaf up.
generate_membership_proof(tree, key) ==
    LET leaf == tree[KeyIndex[key]]
    IN  IF leaf = None \/ (leaf # None /\ leaf[1] # sha256(key))
        THEN None
        ELSE [key_hash   |-> sha256(key),
              value_hash |-> leaf[2],
              siblings   |-> siblings_for(tree, KeyIndex[key])]

generate_non_membership_proof(tree, key) ==
    IF tree[KeyIndex[key]] # None
    THEN None
    ELSE [key_hash |-> sha256(key), siblings |-> siblings_for(tree, KeyIndex[key])]

verify_membership(root, proof, key, value) ==
    /\ value # NoBytes
    /\ proof.key_hash = sha256(key)
    /\ proof.value_hash = sha256(value)
    /\ Len(proof.siblings) = TreeDepth
    /\ fold_siblings(KeyIndex[key], leaf_hash(sha256(key), sha256(value)), proof.siblings) = root

verify_non_membership(root, proof, key) ==
    /\ proof.key_hash = sha256(key)
    /\ Len(proof.siblings) = TreeDepth
    /\ fold_siblings(KeyIndex[key], EMPTY, proof.siblings) = root

\* The value hash a tree holds for a key, and the one it should hold.
Held(tree, key) == LET leaf == tree[KeyIndex[key]] IN IF leaf = None THEN None ELSE leaf[2]

HashOf(value) == IF value = None THEN None ELSE sha256(value)
=============================================================================
