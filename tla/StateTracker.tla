---------------------------- MODULE StateTracker ----------------------------
(***************************************************************************)
(* The gateway's view of the router's storage:                             *)
(* crates/core/src/ibc/state.rs behind the queries of                      *)
(* crates/gateway/src/query.rs.                                            *)
(*                                                                         *)
(* The Stellar network (external) closes ledgers; the close-meta of a      *)
(* ledger lists the changes to contract data.  The tracker replays them    *)
(* into a sparse Merkle tree when a query needs a height it has not        *)
(* reached, one ledger per call to the api.  A query holds the tracker's   *)
(* mutex from its first step to its last, so at most one is under way;     *)
(* between two of its calls the network goes on, and a call may fail or    *)
(* the caller may hang up, which drops the query where it stands.  The     *)
(* tracker lives in memory: a restart of the gateway begins a new one.     *)
(***************************************************************************)
EXTENDS Ics23, SequencesExt

CONSTANTS
    Router,             \* ROUTER_CONTRACT_ADDRESS
    Contracts,          \* the contracts that write to the ledger
    Receipts,           \* the paths among Keys that hold packet receipts
    ChangeLists,        \* the close-meta a ledger may have
    IbcContractId,      \* State.ibc_contract_id: Router, or None when unset
    MaxLedger,          \* bound on the ledgers that close
    MaxFailures,        \* bound on the queries that fail under way
    MaxRestarts         \* bound on the restarts of the gateway

VARIABLES
    ledgers,            \* close-meta by ledger sequence, from ledger 1
    stored,             \* what the router holds after each ledger
    tree,               \* State.smt
    roots,              \* State.roots
    last_processed,     \* State.last_processed
    query,              \* the query that holds the mutex
    base,               \* the first ledger that this tracker replayed
    applied,            \* the highest ledger whose changes are in the tree
    failures,
    restarts

chainVars == <<ledgers, stored>>
trackerVars == <<tree, roots, last_processed, base, applied>>
trackerSystemVars == <<chainVars, trackerVars, query, failures, restarts>>

Ledgers == 1..MaxLedger

-----------------------------------------------------------------------------
(* The network.  A change creates, updates or removes an entry of a         *)
(* contract; a "state" change records an entry as it was before.            *)

Changes ==
    [kind : {"created", "updated"}, contract : Contracts, path : Keys, value : Values]
        \cup [kind : {"removed", "state"}, contract : Contracts, path : Keys]

ASSUME TrackerAssumption ==
    /\ MaxLedger \in Nat \ {0}
    /\ MaxFailures \in Nat
    /\ MaxRestarts \in Nat
    /\ IbcContractId \in {None, Router}
    /\ Receipts \subseteq Keys
    /\ ChangeLists \subseteq Seq(Changes)
    /\ None \notin Ledgers

AfterChange(s, change) ==
    CASE change.contract # Router               -> s
      [] change.kind \in {"created", "updated"} -> [s EXCEPT ![change.path] = change.value]
      [] change.kind = "removed"                -> [s EXCEPT ![change.path] = None]
      [] OTHER                                  -> s

\* The entries of the router after the changes of a ledger to entries s.
AfterChanges(s, changes) == FoldLeft(AfterChange, s, changes)

\* What the router does to its entries (IbcRouter): it creates commitments,
\* receipts and acknowledgements once, and removes commitments.
PossibleChange(s, change) ==
    change.contract = Router =>
        CASE change.kind = "created" -> s[change.path] = None
          [] change.kind = "removed" -> s[change.path] # None /\ change.path \notin Receipts
          [] change.kind = "updated" -> FALSE
          [] OTHER                   -> s[change.path] # None

PossibleChanges(s, changes) ==
    \A i \in 1..Len(changes) :
        PossibleChange(AfterChanges(s, SubSeq(changes, 1, i - 1)), changes[i])

CloseLedger(changes) ==
    /\ Len(ledgers) < MaxLedger
    /\ PossibleChanges(Last(stored), changes)
    /\ ledgers' = Append(ledgers, changes)
    /\ stored' = Append(stored, AfterChanges(Last(stored), changes))
    /\ UNCHANGED <<trackerVars, query, failures, restarts>>

-----------------------------------------------------------------------------
(* The tracker.                                                             *)

\* The api's answer for a ledger: its close-meta, or None while it does not
\* exist.
get_ledger(seq) == IF seq <= Len(ledgers) THEN ledgers[seq] ELSE None

NewRoots == [n \in Ledgers |-> None]

matchesAny(contract) == TRUE

matches(contract) == IbcContractId = None \/ contract = IbcContractId

apply(t, change) ==
    CASE ~matches(change.contract)              -> t
      [] change.kind \in {"created", "updated"} -> SmtInsert(t, change.path, change.value)
      [] change.kind = "removed"                -> SmtRemove(t, change.path)
      [] OTHER                                  -> t

apply_ledger(t, changes) == FoldLeft(apply, t, changes)

startAtSeq(seq) == seq

\* The first ledger process_through replays to reach seq.
start(seq) == IF last_processed = None THEN seq ELSE last_processed + 1

KnownHeight(seq) ==
    roots[seq] # None \/ (last_processed # None /\ last_processed >= seq)

QueryKnownUncached(seq) ==
    /\ query = None
    /\ KnownHeight(seq)
    /\ roots' = [roots EXCEPT ![seq] = SmtRoot(tree)]
    /\ UNCHANGED <<ledgers, stored, tree, last_processed, query, base, applied, failures,
                   restarts>>

\* root_at of a height that is cached, or that process_through finds not
\* above last_processed: the query is answered in one step.
QueryKnown(seq) ==
    /\ query = None
    /\ KnownHeight(seq)
    /\ roots' = [roots EXCEPT ![seq] = IF @ # None THEN @ ELSE SmtRoot(tree)]
    /\ UNCHANGED <<ledgers, stored, tree, last_processed, query, base, applied, failures,
                   restarts>>

\* root_at of any other height: process_through begins its loop.
QueryAhead(seq) ==
    /\ query = None
    /\ ~KnownHeight(seq)
    /\ query' = [seq |-> seq, next |-> start(seq)]
    /\ UNCHANGED <<chainVars, trackerVars, failures, restarts>>

\* One turn of the loop: get_ledger answers and its changes are applied.
ReplayLedger ==
    /\ query # None
    /\ query.next <= query.seq
    /\ get_ledger(query.next) # None
    /\ tree' = apply_ledger(tree, get_ledger(query.next))
    /\ query' = [query EXCEPT !.next = @ + 1]
    /\ base' = IF last_processed = None THEN query.next ELSE base
    /\ applied' = IF applied # None /\ applied > query.next THEN applied ELSE query.next
    /\ UNCHANGED <<ledgers, stored, roots, last_processed, failures, restarts>>

\* The loop has ended: last_processed and the root are set, the query is
\* answered and the mutex released.
FinishReplay ==
    /\ query # None
    /\ query.next > query.seq
    /\ last_processed' = query.seq
    /\ roots' = [roots EXCEPT ![query.seq] = SmtRoot(tree)]
    /\ query' = None
    /\ UNCHANGED <<ledgers, stored, tree, base, applied, failures, restarts>>

QueryTooHighWaits ==
    /\ query # None
    /\ query.next <= query.seq
    /\ get_ledger(query.next) = None
    /\ UNCHANGED trackerSystemVars

\* The ledger does not exist yet: get_ledger reports an error.
QueryTooHigh ==
    /\ query # None
    /\ query.next <= query.seq
    /\ get_ledger(query.next) = None
    /\ query' = None
    /\ UNCHANGED <<chainVars, trackerVars, failures, restarts>>

\* The call to the api fails, or the caller hangs up while it is awaited.
QueryFails ==
    /\ query # None
    /\ query.next <= query.seq
    /\ failures < MaxFailures
    /\ failures' = failures + 1
    /\ query' = None
    /\ UNCHANGED <<chainVars, trackerVars, restarts>>

\* State::new in a restarted gateway.
Restart ==
    /\ restarts < MaxRestarts
    /\ restarts' = restarts + 1
    /\ tree' = EmptyTree
    /\ roots' = NewRoots
    /\ last_processed' = None
    /\ query' = None
    /\ base' = None
    /\ applied' = None
    /\ UNCHANGED <<ledgers, stored, failures>>

-----------------------------------------------------------------------------
TrackerInit ==
    /\ ledgers = << <<>> >>
    /\ stored = << [k \in Keys |-> None] >>
    /\ tree = EmptyTree
    /\ roots = NewRoots
    /\ last_processed = None
    /\ query = None
    /\ base = None
    /\ applied = None
    /\ failures = 0
    /\ restarts = 0

Replay == ReplayLedger \/ FinishReplay \/ QueryTooHigh

TrackerNext ==
    \/ \E changes \in ChangeLists : CloseLedger(changes)
    \/ \E seq \in Ledgers : QueryKnown(seq) \/ QueryAhead(seq)
    \/ ReplayLedger
    \/ FinishReplay
    \/ QueryTooHigh
    \/ QueryFails
    \/ Restart

\* A query under way goes on: the runtime polls it and the api answers.
TrackerSpec == TrackerInit /\ [][TrackerNext]_trackerSystemVars /\ WF_trackerSystemVars(Replay)

-----------------------------------------------------------------------------
(* The types of what the replay is steered by.                              *)
TrackerTypeOK ==
    /\ ledgers \in Seq(Seq(Changes)) /\ Len(ledgers) <= MaxLedger
    /\ DOMAIN roots = Ledgers
    /\ last_processed \in Ledgers \cup {None}
    /\ query # None => query \in [seq : Ledgers, next : Ledgers \cup {MaxLedger + 1}]
    /\ base \in Ledgers \cup {None}
    /\ applied \in Ledgers \cup {None}
    /\ restarts \in Nat

(* What the tracker has processed lies between the first ledger it replayed *)
(* and the highest it applied, and that one has closed, whatever queries    *)
(* failed on the way: process_through sets last_processed only after every  *)
(* ledger up to it was applied.                                             *)
ReplayOrdered ==
    last_processed # None =>
        /\ base # None /\ base <= last_processed
        /\ applied # None /\ last_processed <= applied
        /\ applied <= Len(ledgers)

Touches(changes, path) ==
    \E i \in 1..Len(changes) :
        changes[i].contract = Router /\ changes[i].kind # "state" /\ changes[i].path = path

\* What the tracker can know of a path at ledger n: the router's entry, if a
\* ledger it replayed wrote it.
Known(path, n) ==
    IF \E m \in base..n : Touches(ledgers[m], path) THEN stored[n][path] ELSE None

(* The tree is never behind last_processed: for every path it holds what    *)
(* the router held at some ledger from last_processed to the highest one    *)
(* applied, although a query that fails part-way leaves the tree ahead of   *)
(* last_processed and a later, perhaps lower, query replays the same        *)
(* ledgers again.  Only what was written before the first ledger replayed   *)
(* is unknown to it.                                                        *)
NeverBehind ==
    last_processed # None =>
        \A path \in Keys : \E n \in last_processed..applied :
            Held(tree, path) = HashOf(Known(path, n))

(* At the newest height, once no failed query has left the tree ahead, the  *)
(* root that a header carries and the proof that proof_for_path generates   *)
(* for any path belong together: the wasm light client accepts the proof,   *)
(* with the value the router holds in that ledger.                          *)
NewestHeightConsistent ==
    query = None /\ last_processed # None /\ applied = last_processed =>
        /\ roots[last_processed] # None
        /\ \A path \in Keys :
               Verifies(roots[last_processed], ProofFromTree(tree, path), path,
                        Known(path, last_processed))

(* The root served for a height never changes while the gateway runs, so    *)
(* two headers it serves for one ledger never conflict in the light client, *)
(* although the tree moves on between them.                                 *)
ServedRootsStable ==
    [][restarts' = restarts =>
           \A n \in Ledgers : roots[n] # None => roots'[n] = roots[n]]_trackerSystemVars

(* Every query that takes the mutex is answered or fails, so the mutex is   *)
(* never held for good.                                                     *)
QueriesEnd == (query # None) ~> (query = None)
=============================================================================
