------------------------- MODULE TxSubmissionProofs -------------------------
(***************************************************************************)
(* What a relayer may conclude from the answers of the gateway, for every  *)
(* set of messages and accounts and every number of faults.                *)
(***************************************************************************)
EXTENDS TxSubmission, TLAPS

Envelopes == [signer : Accounts, seq : Nat \ {0}, call : Calls]

Phases == {"idle", "account", "signed", "waiting", "ok", "refused"}

(* The inductive invariant.  An answer with a hash rests on the status of   *)
(* an envelope, so the invariant ties every status SUCCESS to the effect of *)
(* its call.                                                                *)
TxInv ==
    /\ TxTypeOK
    /\ \A e \in DOMAIN result : result[e] = "SUCCESS" => effects[e.call] > 0
    /\ SettledMeansDone
    /\ OnceCallsOnce

(* The call and the signer of a message. *)
LEMMA CallTypes == ASSUME NEW r \in Requests PROVE Call(r) \in Calls /\ Signer[r] \in Accounts
  BY DEF Calls, Accounts

(* A step that moves one message, into a phase that its call justifies.     *)
LEMMA MessageStepInv ==
    ASSUME TxInv, NEW r \in Requests, NEW phase \in Phases, NEW seq \in Nat, NEW unknown \in Nat,
           request' = [request EXCEPT ![r] = [phase |-> phase, seq |-> seq, unknown |-> unknown]],
           phase = "ok" => effects[Call(r)] > 0,
           phase = "refused" => effects[Call(r)] > 0 \/ Call(r) \in expired,
           UNCHANGED <<sequence, result, effects, expired>>,
           mempool' \subseteq Envelopes
    PROVE  TxInv'
  <1>1. request \in [Requests -> [phase : Phases, seq : Nat, unknown : Nat]]
    BY DEF TxInv, TxTypeOK, Phases
  <1>2. /\ request' \in [Requests -> [phase : Phases, seq : Nat, unknown : Nat]]
        /\ request'[r].phase = phase
        /\ \A q \in Requests : q # r => request'[q] = request[q]
    BY <1>1
  <1>3. TxTypeOK'
    BY <1>2 DEF TxInv, TxTypeOK, Envelopes, Phases
  <1>4. SettledMeansDone'
    BY <1>2 DEF TxInv, SettledMeansDone, Call
  <1> QED BY <1>3, <1>4 DEF TxInv, OnceCallsOnce, Repeats, Calls, Call

(* The steps of a message, answered or not. *)
LEMMA StepInv ==
    ASSUME TxInv, NEW r \in Requests, Step(r) \/ SendLost(r) \/ AnswerLost(r)
    PROVE  TxInv'
  <1> DEFINE m == request[r]
  <1>1. /\ request \in [Requests -> [phase : Phases, seq : Nat, unknown : Nat]]
        /\ m.seq \in Nat /\ m.unknown \in Nat
        /\ mempool \subseteq Envelopes
        /\ sequence \in [Accounts -> Nat]
        /\ sequence[Signer[r]] \in Nat
    BY CallTypes DEF TxInv, TxTypeOK, Phases, Envelopes
  <1>2. ASSUME NEW phase \in Phases, Move(r, phase)
        PROVE  request' =
                   [request EXCEPT ![r] = [phase |-> phase, seq |-> m.seq, unknown |-> m.unknown]]
    <2>1. [m EXCEPT !.phase = phase] = [phase |-> phase, seq |-> m.seq, unknown |-> m.unknown]
      BY <1>1
    <2>2. request' = [request EXCEPT ![r] = [m EXCEPT !.phase = phase]]
      BY <1>2 DEF Move
    <2> QED BY <2>1, <2>2
  <1>3. ASSUME MoveUnknown(r)
        PROVE  request' =
                   [request EXCEPT ![r] = [phase |-> "idle", seq |-> m.seq,
                                           unknown |-> m.unknown + 1]]
    BY <1>1, <1>3 DEF MoveUnknown
  <1>4. {"idle", "account", "signed", "waiting", "ok", "refused"} \subseteq Phases
    BY DEF Phases
  <1>5. CASE get_account(r)
    <2> DEFINE next == sequence[Signer[r]] + 1
               m1 == [phase |-> "account", seq |-> m.seq, unknown |-> m.unknown]
    <2>1. request' = [request EXCEPT ![r] = [phase |-> "account", seq |-> next,
                                             unknown |-> m.unknown]]
      <3>1. [m EXCEPT !.phase = "account"] = m1
        BY <1>1
      <3>2. [m1 EXCEPT !.seq = next] = [phase |-> "account", seq |-> next, unknown |-> m.unknown]
        OBVIOUS
      <3>3. request' = [request EXCEPT ![r] = [[m EXCEPT !.phase = "account"] EXCEPT !.seq = next]]
        BY <1>1, <1>5 DEF get_account
      <3> QED BY <3>1, <3>2, <3>3
    <2>2. UNCHANGED <<sequence, mempool, result, effects, expired>>
      BY <1>5 DEF get_account
    <2>3. next \in Nat
      BY <1>1
    <2> HIDE DEF next
    <2> QED BY <1>1, <1>4, <2>1, <2>2, <2>3, MessageStepInv
  <1>6. CASE prepare_transaction(r)
    <2>1. UNCHANGED <<sequence, mempool, result, effects, expired>>
      BY <1>6 DEF prepare_transaction
    <2>2. CASE CallReturns(Call(r))
      <3>1. Move(r, "signed")
        BY <1>6, <2>2 DEF prepare_transaction
      <3> QED BY <1>1, <1>2, <1>4, <2>1, <3>1, MessageStepInv
    <2>3. CASE ~CallReturns(Call(r))
      <3>1. Move(r, "refused")
        BY <1>6, <2>3 DEF prepare_transaction
      <3>2. effects[Call(r)] > 0 \/ Call(r) \in expired
        BY <2>3 DEF CallReturns
      <3> QED BY <1>1, <1>2, <1>4, <2>1, <3>1, <3>2, MessageStepInv
    <2> QED BY <2>2, <2>3
  <1>7. CASE sendTransaction(r)
    <2>1. Move(r, "waiting") /\ UNCHANGED <<sequence, result, effects, expired>>
      BY <1>7 DEF sendTransaction
    <2>2. m.seq > sequence[Signer[r]] => Envelope(r) \in Envelopes
      BY <1>1, CallTypes DEF Envelope, Envelopes
    <2>3. mempool' \subseteq Envelopes
      BY <1>1, <1>7, <2>2 DEF sendTransaction
    <2> QED BY <1>1, <1>2, <1>4, <2>1, <2>3, MessageStepInv
  <1>8. CASE WaitReturns(r)
    <2>1. UNCHANGED <<sequence, mempool, result, effects, expired>>
      BY <1>8 DEF WaitReturns
    <2>2. CASE result[Envelope(r)] = "SUCCESS"
      <3>1. Move(r, "ok")
        BY <1>8, <2>2 DEF WaitReturns
      <3>2. effects[Call(r)] > 0
        <4>1. Envelope(r).call = Call(r)
          BY DEF Envelope
        <4> QED BY <1>8, <2>2, <4>1 DEF WaitReturns, TxInv
      <3> QED BY <1>1, <1>2, <1>4, <2>1, <3>1, <3>2, MessageStepInv
    <2>3. CASE result[Envelope(r)] # "SUCCESS"
      <3>1. Move(r, "idle")
        BY <1>8, <2>3 DEF WaitReturns
      <3> QED BY <1>1, <1>2, <1>4, <2>1, <3>1, MessageStepInv
    <2> QED BY <2>2, <2>3
  <1>9. CASE WaitTimesOut(r) \/ AnswerLost(r)
    <2>1. MoveUnknown(r) /\ UNCHANGED <<sequence, mempool, result, effects, expired>>
      BY <1>9 DEF WaitTimesOut, AnswerLost
    <2> QED BY <1>1, <1>3, <1>4, <2>1, MessageStepInv
  <1>10. CASE SendLost(r)
    <2>1. Move(r, "idle") /\ UNCHANGED <<sequence, mempool, result, effects, expired>>
      BY <1>10 DEF SendLost
    <2> QED BY <1>1, <1>2, <1>4, <2>1, MessageStepInv
  <1> QED BY <1>5, <1>6, <1>7, <1>8, <1>9, <1>10 DEF Step

(* The network applies an envelope: the call runs again, after whatever     *)
(* came between its simulation and now.                                     *)
LEMMA ApplyInv ==
    ASSUME TxInv, NEW env \in mempool, ApplyTransaction(env)
    PROVE  TxInv'
  <1> DEFINE c == env.call
  <1>1. env \in Envelopes /\ env.signer \in Accounts /\ c \in Calls
    BY DEF TxInv, TxTypeOK, Envelopes
  <1>2. /\ mempool' \subseteq Envelopes
        /\ sequence' \in [Accounts -> Nat]
        /\ UNCHANGED <<expired, request>>
    BY <1>1 DEF ApplyTransaction, TxInv, TxTypeOK, Envelopes
  <1>3. /\ DOMAIN result' = DOMAIN result \cup {env}
        /\ \A e \in DOMAIN result : e # env => result'[e] = result[e]
        /\ result'[env] = IF CallReturns(c) THEN "SUCCESS" ELSE "FAILED"
        /\ effects' = IF CallReturns(c) THEN [effects EXCEPT ![c] = @ + 1] ELSE effects
    BY DEF ApplyTransaction
  <1>4. effects \in [Calls -> Nat]
    BY DEF TxInv, TxTypeOK
  <1>5. /\ effects' \in [Calls -> Nat]
        /\ \A d \in Calls : effects'[d] >= effects[d]
        /\ CallReturns(c) => effects'[c] = effects[c] + 1
        /\ \A d \in Calls : d # c \/ ~CallReturns(c) => effects'[d] = effects[d]
    BY <1>1, <1>3, <1>4
  <1>6. TxTypeOK'
    <2>1. DOMAIN result' \subseteq Envelopes
      BY <1>1, <1>3 DEF TxInv, TxTypeOK, Envelopes
    <2>2. \A e \in DOMAIN result' : result'[e] \in {"SUCCESS", "FAILED"}
      BY <1>3 DEF TxInv, TxTypeOK
    <2> QED BY <1>2, <1>5, <2>1, <2>2 DEF TxInv, TxTypeOK, Envelopes
  <1>7. ASSUME NEW e \in DOMAIN result', result'[e] = "SUCCESS"
        PROVE  effects'[e.call] > 0
    <2>1. CASE e = env
      <3>1. CallReturns(c)
        BY <1>3, <1>7, <2>1
      <3> QED BY <1>1, <1>4, <1>5, <2>1, <3>1
    <2>2. CASE e # env
      <3>1. e \in DOMAIN result /\ result[e] = "SUCCESS"
        BY <1>3, <1>7, <2>2
      <3>2. e.call \in Calls /\ effects[e.call] > 0
        BY <3>1 DEF TxInv, TxTypeOK
      <3> QED BY <1>4, <1>5, <3>2
    <2> QED BY <2>1, <2>2
  <1>8. SettledMeansDone'
    <2>1. ASSUME NEW r \in Requests, effects[Call(r)] > 0 PROVE effects'[Call(r)] > 0
      BY <1>4, <1>5, <2>1, CallTypes
    <2>2. \A r \in Requests : Call(r)' = Call(r)
      BY DEF Call
    <2> QED BY <1>2, <2>1, <2>2 DEF TxInv, SettledMeansDone
  <1>9. OnceCallsOnce'
    <2>1. ASSUME NEW d \in Calls, ~Repeats(d) PROVE effects'[d] <= 1
      <3>1. effects[d] <= 1
        BY <2>1 DEF TxInv, OnceCallsOnce
      <3>2. CASE d = c /\ CallReturns(c)
        <4>1. ~(effects[d] > 0)
          BY <2>1, <3>2 DEF CallReturns
        <4> QED BY <1>4, <1>5, <3>2, <4>1
      <3>3. CASE d # c \/ ~CallReturns(c)
        BY <1>5, <3>1, <3>3
      <3> QED BY <3>2, <3>3
    <2> QED BY <2>1 DEF OnceCallsOnce, Repeats, Calls, Call
  <1> QED BY <1>6, <1>7, <1>8, <1>9 DEF TxInv

(* Every step. *)
LEMMA TxNextInv == TxInv /\ [TxNext]_txVars => TxInv'
  <1> SUFFICES ASSUME TxInv, [TxNext]_txVars PROVE TxInv'
    OBVIOUS
  <1>1. CASE UNCHANGED txVars
    BY <1>1 DEF txVars, TxInv, TxTypeOK, SettledMeansDone, OnceCallsOnce, Call, Calls, Repeats
  <1>2. ASSUME NEW call \in Calls, Expire(call) PROVE TxInv'
    <2>1. /\ expired' = expired \cup {call}
          /\ UNCHANGED <<sequence, mempool, result, effects, request>>
      BY <1>2 DEF Expire
    <2>2. TxTypeOK'
      BY <2>1 DEF TxInv, TxTypeOK
    <2>3. SettledMeansDone'
      BY <2>1 DEF TxInv, SettledMeansDone, Call
    <2> QED BY <2>1, <2>2, <2>3 DEF TxInv, OnceCallsOnce
  <1>3. ASSUME NEW env \in mempool, DropTransaction(env) PROVE TxInv'
    <2>1. /\ mempool' \subseteq mempool
          /\ UNCHANGED <<sequence, result, effects, expired, request>>
      BY <1>3 DEF DropTransaction
    <2>2. TxTypeOK'
      BY <2>1 DEF TxInv, TxTypeOK
    <2>3. SettledMeansDone'
      BY <2>1 DEF TxInv, SettledMeansDone, Call
    <2> QED BY <2>1, <2>2, <2>3 DEF TxInv, OnceCallsOnce
  <1> QED BY <1>1, <1>2, <1>3, StepInv, ApplyInv DEF TxNext, NetworkStep

(* The invariant holds of every state. *)
LEMMA TxInductive == TxSpec => []TxInv
  <1>1. TxInit => TxInv
    BY CallTypes DEF TxInit, TxInv, TxTypeOK, SettledMeansDone, OnceCallsOnce
  <1> QED BY <1>1, TxNextInv, PTL DEF TxSpec

-----------------------------------------------------------------------------
(* The accounts, the envelopes and the messages keep their types. *)
THEOREM TxTypesCorrect == TxSpec => []TxTypeOK
  <1>1. TxInv => TxTypeOK
    BY DEF TxInv
  <1> QED BY <1>1, TxInductive, PTL

(* A hash that submit_and_wait answers with, and a refusal to prepare, mean *)
(* what a relayer takes them to mean, whatever was lost or sent twice.      *)
THEOREM SettledAlwaysMeansDone == TxSpec => []SettledMeansDone
  <1>1. TxInv => SettledMeansDone
    BY DEF TxInv
  <1> QED BY <1>1, TxInductive, PTL

(* A call that the router accepts once takes effect once, although every    *)
(* relayer simulates it before any envelope is applied.                     *)
THEOREM OnceCallsAlwaysOnce == TxSpec => []OnceCallsOnce
  <1>1. TxInv => OnceCallsOnce
    BY DEF TxInv
  <1> QED BY <1>1, TxInductive, PTL
=============================================================================
