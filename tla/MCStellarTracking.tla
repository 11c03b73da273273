------------------------- MODULE MCStellarTracking -------------------------
(* A commitment path and a receipt path, one trusted validator.             *)
EXTENDS StellarTracking

CONSTANTS c, p, r, other, n1

MCKeys == {c, p}

MCKeyIndex == (c :> 0 @@ p :> 1)

MCContracts == {r, other}

Created(k) == [kind |-> "created", contract |-> r, path |-> k, value |-> "v1"]

MCChangeLists ==
    {<<Created(c)>>, <<[kind |-> "removed", contract |-> r, path |-> c]>>,
     <<Created(p)>>,
     <<[kind |-> "created", contract |-> other, path |-> p, value |-> "v2"]>>}
=============================================================================
