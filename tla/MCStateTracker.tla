--------------------------- MODULE MCStateTracker ---------------------------
(* A commitment path and a receipt path of the router, and a second         *)
(* contract that writes entries under the same keys.                        *)
EXTENDS StateTracker

CONSTANTS c, p, r, other

MCKeys == {c, p}

MCKeyIndex == (c :> 1 @@ p :> 2)

MCContracts == {r, other}

Created(k) == [kind |-> "created", contract |-> r, path |-> k, value |-> "v1"]

Removed(k) == [kind |-> "removed", contract |-> r, path |-> k]

Foreign == [kind |-> "updated", contract |-> other, path |-> p, value |-> "v2"]

\* A packet sent, settled, received, received beside another contract's
\* write, settled and sent in one ledger, sent after a "state" record.
MCChangeLists ==
    {<<>>, <<Created(c)>>, <<[kind |-> "state", contract |-> r, path |-> c], Removed(c)>>,
     <<Created(p)>>, <<Foreign>>, <<Created(p), Removed(c)>>, <<Created(c), Removed(c)>>}
=============================================================================
