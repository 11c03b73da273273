------------------------- MODULE StateTrackerProofs -------------------------
(***************************************************************************)
(* The control of the gateway's replay, for every number of ledgers,       *)
(* failed queries and restarts and whatever the ledgers change.  What the  *)
(* tree holds is a fold over ledgers and is left to the model checker.     *)
(***************************************************************************)
EXTENDS StateTracker, TLAPS

(* The query under way: its height has no root yet, which is why the root   *)
(* it leaves replaces none; and what it has gone through is applied.  The   *)
(* first query of a tracker replays the one ledger it asks for.             *)
QueryInv ==
    query # None =>
        /\ roots[query.seq] = None
        /\ query.next <= query.seq + 1
        /\ last_processed # None => query.next > last_processed /\ applied >= query.next - 1
        /\ last_processed = None =>
               \/ query.next = query.seq
               \/ query.next = query.seq + 1 /\ base = query.seq /\ applied # None
                      /\ applied >= query.seq

(* The inductive invariant. *)
TrackerInv ==
    /\ TrackerTypeOK
    /\ ReplayOrdered
    /\ QueryInv
    /\ applied # None => applied <= Len(ledgers)

(* Closing a ledger only moves the end of the chain. *)
LEMMA CloseLedgerInv ==
    ASSUME TrackerInv, NEW changes \in ChangeLists, CloseLedger(changes)
    PROVE  TrackerInv'
  <1>1. changes \in Seq(Changes) /\ MaxLedger \in Nat
    BY TrackerAssumption
  <1>2. /\ ledgers' = Append(ledgers, changes)
        /\ Len(ledgers) < MaxLedger
        /\ UNCHANGED <<roots, last_processed, base, applied, query, restarts>>
    BY DEF CloseLedger, trackerVars
  <1>3. /\ ledgers' \in Seq(Seq(Changes))
        /\ Len(ledgers') = Len(ledgers) + 1
        /\ Len(ledgers) \in Nat
    BY <1>1, <1>2 DEF TrackerInv, TrackerTypeOK
  <1>4. TrackerTypeOK'
    BY <1>1, <1>2, <1>3 DEF TrackerInv, TrackerTypeOK
  <1>5. applied # None => applied \in Nat
    BY DEF TrackerInv, TrackerTypeOK, Ledgers
  <1>6. ReplayOrdered' /\ (applied # None => applied <= Len(ledgers))'
    BY <1>2, <1>3, <1>5 DEF TrackerInv, ReplayOrdered
  <1>7. QueryInv'
    BY <1>2 DEF TrackerInv, QueryInv
  <1> QED BY <1>4, <1>6, <1>7 DEF TrackerInv

(* A query begins at a height that has no root, above last_processed. *)
LEMMA QueryAheadInv ==
    ASSUME TrackerInv, NEW seq \in Ledgers, QueryAhead(seq)
    PROVE  TrackerInv'
  <1>1. /\ query' = [seq |-> seq, next |-> start(seq)]
        /\ roots[seq] = None
        /\ last_processed # None => ~(last_processed >= seq)
        /\ UNCHANGED <<ledgers, roots, last_processed, base, applied, restarts>>
    BY DEF QueryAhead, KnownHeight, trackerVars, chainVars
  <1>2. /\ seq \in Nat /\ seq <= MaxLedger /\ 1 <= seq /\ MaxLedger \in Nat
        /\ last_processed # None => last_processed \in Ledgers /\ last_processed \in Nat
        /\ applied # None => applied \in Nat
    BY TrackerAssumption DEF Ledgers, TrackerInv, TrackerTypeOK
  <1>3. /\ start(seq) \in Ledgers /\ start(seq) <= seq
        /\ last_processed = None => start(seq) = seq
        /\ last_processed # None => start(seq) = last_processed + 1
    BY <1>1, <1>2 DEF start, Ledgers
  <1>4. query'.seq = seq /\ query'.next = start(seq)
    BY <1>1
  <1>5. TrackerTypeOK'
    BY <1>1, <1>3 DEF TrackerInv, TrackerTypeOK
  <1>6. last_processed # None => applied >= start(seq) - 1 /\ start(seq) > last_processed
    BY <1>2, <1>3 DEF TrackerInv, ReplayOrdered
  <1>7. start(seq) <= seq + 1
    BY <1>2, <1>3 DEF Ledgers
  <1>8. QueryInv'
    BY <1>1, <1>3, <1>4, <1>6, <1>7 DEF QueryInv
  <1> QED BY <1>1, <1>5, <1>8 DEF TrackerInv, ReplayOrdered

(* One ledger applied. *)
LEMMA ReplayLedgerInv ==
    ASSUME TrackerInv, ReplayLedger
    PROVE  TrackerInv'
  <1> DEFINE s == query.seq
             n == query.next
  <1>1. query \in [seq : Ledgers, next : Ledgers \cup {MaxLedger + 1}]
    BY DEF ReplayLedger, TrackerInv, TrackerTypeOK
  <1>2. /\ MaxLedger \in Nat /\ s \in Ledgers /\ s \in Nat /\ n \in Nat
        /\ n >= 1 /\ n <= s /\ s <= MaxLedger /\ n <= Len(ledgers)
        /\ Len(ledgers) \in Nat
    <2>1. n <= s /\ n <= Len(ledgers)
      BY DEF ReplayLedger, get_ledger
    <2> QED
      BY <1>1, <2>1, TrackerAssumption DEF Ledgers, TrackerInv, TrackerTypeOK
  <1>3. n \in Ledgers
    BY <1>2 DEF Ledgers
  <1>4. /\ query'.seq = s /\ query'.next = n + 1
        /\ query' \in [seq : Ledgers, next : Ledgers \cup {MaxLedger + 1}]
    BY <1>1, <1>2, <1>3 DEF ReplayLedger, Ledgers
  <1>5. /\ base' = IF last_processed = None THEN n ELSE base
        /\ applied' = IF applied # None /\ applied > n THEN applied ELSE n
        /\ UNCHANGED <<ledgers, roots, last_processed, restarts>>
    BY DEF ReplayLedger
  <1>6. /\ applied # None => applied \in Nat /\ applied <= Len(ledgers)
        /\ last_processed # None => last_processed \in Nat
    BY DEF TrackerInv, TrackerTypeOK, Ledgers
  <1>7. TrackerTypeOK'
    BY <1>3, <1>4, <1>5 DEF TrackerInv, TrackerTypeOK
  <1>8. applied' \in Nat /\ applied' >= n /\ applied' <= Len(ledgers') /\ applied' \in Ledgers
    BY <1>2, <1>3, <1>5, <1>6 DEF TrackerInv, TrackerTypeOK
  <1>9. applied # None => applied' >= applied
    BY <1>2, <1>5, <1>6
  <1>10. /\ roots[s] = None
         /\ last_processed # None => n > last_processed
         /\ last_processed = None => n = s
    <2>1. query # None
      BY DEF ReplayLedger
    <2> QED BY <2>1, <1>2 DEF TrackerInv, QueryInv
  <1>11. applied' # None /\ base' # None
    <2>1. None \notin Ledgers
      BY TrackerAssumption
    <2> QED BY <2>1, <1>3, <1>5, <1>8, <1>10 DEF TrackerInv, ReplayOrdered
  <1>12. ReplayOrdered'
    BY <1>5, <1>6, <1>8, <1>9, <1>11 DEF TrackerInv, ReplayOrdered
  <1>13. QueryInv'
    <2>1. roots'[query'.seq] = None /\ query'.next <= query'.seq + 1
      BY <1>2, <1>4, <1>5, <1>10
    <2>2. last_processed' # None =>
              query'.next > last_processed' /\ applied' >= query'.next - 1
      BY <1>2, <1>4, <1>5, <1>6, <1>8, <1>10
    <2>3. last_processed' = None =>
              /\ query'.next = query'.seq + 1
              /\ base' = query'.seq
              /\ applied' >= query'.seq
      BY <1>4, <1>5, <1>8, <1>10
    <2> QED BY <2>1, <2>2, <2>3, <1>11 DEF QueryInv
  <1> QED BY <1>7, <1>8, <1>12, <1>13 DEF TrackerInv

(* The end of the loop: every ledger up to the new last_processed is        *)
(* applied.                                                                 *)
LEMMA FinishReplayInv ==
    ASSUME TrackerInv, FinishReplay
    PROVE  TrackerInv'
  <1>1. /\ query # None
        /\ query \in [seq : Ledgers, next : Ledgers \cup {MaxLedger + 1}]
    BY DEF FinishReplay, TrackerInv, TrackerTypeOK
  <1>2. /\ query.seq \in Ledgers /\ query.seq \in Nat /\ query.next \in Nat
        /\ query.next > query.seq
    BY <1>1, TrackerAssumption DEF FinishReplay, Ledgers
  <1>3. /\ last_processed' = query.seq
        /\ query' = None
        /\ DOMAIN roots' = DOMAIN roots
        /\ UNCHANGED <<ledgers, base, applied, restarts>>
    BY DEF FinishReplay
  <1>4. TrackerTypeOK'
    BY <1>2, <1>3 DEF TrackerInv, TrackerTypeOK
  <1>5. base # None /\ base <= query.seq /\ applied # None /\ query.seq <= applied
    <2>1. query.next = query.seq + 1
      BY <1>1, <1>2 DEF TrackerInv, QueryInv
    <2>2. CASE last_processed = None
      <3>1. base = query.seq /\ applied # None /\ applied >= query.seq
        BY <1>1, <1>2, <2>1, <2>2 DEF TrackerInv, QueryInv
      <3>2. base # None /\ applied \in Nat
        BY <1>2, <3>1, TrackerAssumption DEF TrackerInv, TrackerTypeOK, Ledgers
      <3> QED BY <1>2, <3>1, <3>2
    <2>3. CASE last_processed # None
      <3>1. /\ applied >= query.next - 1 /\ query.next > last_processed
            /\ base # None /\ base <= last_processed /\ applied # None
        BY <1>1, <2>3 DEF TrackerInv, QueryInv, ReplayOrdered
      <3>2. base \in Nat /\ applied \in Nat /\ last_processed \in Nat
        BY <2>3, <3>1 DEF TrackerInv, TrackerTypeOK, Ledgers
      <3> QED BY <1>2, <2>1, <3>1, <3>2
    <2> QED BY <2>2, <2>3
  <1>6. ReplayOrdered' /\ (applied # None => applied <= Len(ledgers))'
    BY <1>3, <1>5 DEF TrackerInv, ReplayOrdered
  <1> QED BY <1>3, <1>4, <1>6 DEF TrackerInv, QueryInv

(* Every step.  A query that ends early, for whatever reason, leaves the    *)
(* tracker as it is; a restart forgets everything.                          *)
LEMMA TrackerNextInv == TrackerInv /\ [TrackerNext]_trackerSystemVars => TrackerInv'
  <1> SUFFICES ASSUME TrackerInv, [TrackerNext]_trackerSystemVars PROVE TrackerInv'
    OBVIOUS
  <1>1. CASE UNCHANGED trackerSystemVars
    BY <1>1 DEF trackerSystemVars, trackerVars, chainVars, TrackerInv, TrackerTypeOK,
                ReplayOrdered, QueryInv
  <1>2. ASSUME NEW seq \in Ledgers, QueryKnown(seq) PROVE TrackerInv'
    <2>1. /\ DOMAIN roots' = DOMAIN roots
          /\ query' = None
          /\ UNCHANGED <<ledgers, last_processed, base, applied, restarts>>
      BY <1>2 DEF QueryKnown
    <2> QED BY <2>1 DEF TrackerInv, TrackerTypeOK, ReplayOrdered, QueryInv
  <1>3. CASE QueryTooHigh \/ QueryFails
    <2>1. /\ query' = None
          /\ UNCHANGED <<ledgers, roots, last_processed, base, applied, restarts>>
      BY <1>3 DEF QueryTooHigh, QueryFails, chainVars, trackerVars
    <2> QED BY <2>1 DEF TrackerInv, TrackerTypeOK, ReplayOrdered, QueryInv
  <1>4. CASE Restart
    <2>1. /\ query' = None /\ last_processed' = None /\ base' = None /\ applied' = None
          /\ DOMAIN roots' = Ledgers /\ UNCHANGED ledgers /\ restarts' \in Nat
      BY <1>4 DEF Restart, NewRoots, TrackerInv, TrackerTypeOK
    <2> QED BY <2>1 DEF TrackerInv, TrackerTypeOK, ReplayOrdered, QueryInv
  <1> QED BY <1>1, <1>2, <1>3, <1>4, CloseLedgerInv, QueryAheadInv, ReplayLedgerInv,
             FinishReplayInv DEF TrackerNext

(* The invariant holds of every state. *)
LEMMA TrackerInductive == TrackerSpec => []TrackerInv
  <1>1. TrackerInit => TrackerInv
    <2> SUFFICES ASSUME TrackerInit PROVE TrackerInv
      OBVIOUS
    <2>1. ledgers \in Seq(Seq(Changes)) /\ Len(ledgers) = 1
      BY DEF TrackerInit
    <2>2. DOMAIN roots = Ledgers
      BY DEF TrackerInit, NewRoots
    <2>3. 1 <= MaxLedger
      BY TrackerAssumption
    <2> QED BY <2>1, <2>2, <2>3
            DEF TrackerInit, TrackerInv, TrackerTypeOK, ReplayOrdered, QueryInv
  <1> QED BY <1>1, TrackerNextInv, PTL DEF TrackerSpec

-----------------------------------------------------------------------------
(* The state that steers process_through keeps its types. *)
THEOREM TrackerTypesCorrect == TrackerSpec => []TrackerTypeOK
  <1>1. TrackerInv => TrackerTypeOK
    BY DEF TrackerInv
  <1> QED BY <1>1, TrackerInductive, PTL

(* last_processed never runs ahead of the ledgers applied, nor behind the   *)
(* first one replayed, however many queries fail part-way.                  *)
THEOREM AlwaysReplayOrdered == TrackerSpec => []ReplayOrdered
  <1>1. TrackerInv => ReplayOrdered
    BY DEF TrackerInv
  <1> QED BY <1>1, TrackerInductive, PTL

(* Until the gateway restarts, the root that root_at served for a height is *)
(* the root it serves: a cached root is returned as it is, and a replay     *)
(* ends at a height that had none.                                          *)
THEOREM RootsAlwaysStable == TrackerSpec => ServedRootsStable
  <1>1. TrackerInv /\ [TrackerNext]_trackerSystemVars =>
            [restarts' = restarts =>
                 \A n \in Ledgers : roots[n] # None => roots'[n] = roots[n]]_trackerSystemVars
    <2> SUFFICES ASSUME TrackerInv, TrackerNext, restarts' = restarts,
                        NEW n \in Ledgers, roots[n] # None
                 PROVE  roots'[n] = roots[n]
      BY DEF trackerSystemVars
    <2>1. ASSUME NEW seq \in Ledgers, QueryKnown(seq) PROVE roots'[n] = roots[n]
      BY <2>1 DEF QueryKnown, TrackerInv, TrackerTypeOK
    <2>2. CASE FinishReplay
      <3>1. roots[query.seq] = None
        BY <2>2 DEF FinishReplay, TrackerInv, QueryInv
      <3> QED BY <2>2, <3>1 DEF FinishReplay, TrackerInv, TrackerTypeOK
    <2>3. CASE Restart
      <3>1. restarts' = restarts + 1 /\ restarts \in Nat
        BY <2>3 DEF Restart, TrackerInv, TrackerTypeOK
      <3> QED BY <3>1
    <2> QED BY <2>1, <2>2, <2>3
            DEF TrackerNext, CloseLedger, QueryAhead, ReplayLedger, QueryTooHigh, QueryFails,
                trackerVars, chainVars
  <1> QED BY <1>1, TrackerInductive, PTL DEF TrackerSpec, ServedRootsStable
=============================================================================
