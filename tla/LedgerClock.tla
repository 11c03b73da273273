---------------------------- MODULE LedgerClock ----------------------------
(* The clock the contracts read is the close time of the ledger that         *)
(* executes the call.  The network gives each ledger a later close time than *)
(* the one before, by as many seconds as reaching consensus took.            *)
EXTENDS Soroban

VARIABLE now    \* env.ledger().timestamp()

LedgerClose ==
    \E closeTime \in Times :
        /\ closeTime > now
        /\ now' = closeTime
=============================================================================
