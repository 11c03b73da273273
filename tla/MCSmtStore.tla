----------------------------- MODULE MCSmtStore -----------------------------
(* Three paths, two of them in neighbouring slots, in a tree of depth 3.    *)
EXTENDS SmtStore, TLC

CONSTANTS p1, p2, p3

MCKeys == {p1, p2, p3}

MCKeyIndex == (p1 :> 0 @@ p2 :> 1 @@ p3 :> 6)
=============================================================================
