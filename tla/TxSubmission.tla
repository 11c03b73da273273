---------------------------- MODULE TxSubmission ----------------------------
(***************************************************************************)
(* How a relayer's message becomes a call of the router: the handlers of   *)
(* crates/gateway/src/msg.rs, the client of the api in                     *)
(* crates/core/src/api_client.rs, and the api's crates/api/src/rpc.rs.     *)
(*                                                                         *)
(* A message is prepared (the signer's sequence number is read, then the   *)
(* call is simulated), signed by the relayer, sent to the network and      *)
(* awaited for 30 seconds.  Nothing is kept between these calls: what ties *)
(* them together is the envelope, which names signer, sequence number and  *)
(* call, and so has the same hash whenever it is built from the same three.*)
(* A relayer that is answered with an error prepares the message again.    *)
(* The Stellar network and the relayer are external.                       *)
(***************************************************************************)
EXTENDS Naturals, FiniteSets, FiniteSetsExt

CONSTANTS
    Requests,   \* the messages relayers have to deliver
    Kind,       \* their gRPC method
    Subject,    \* what the message is about: a packet, a client, a pair
    Signer,     \* the account that signs its transactions
    Attested,   \* client messages that update_client accepts more than once
    MaxFaults   \* bound on lost, refused and late answers

Kinds == {"CreateClient", "UpdateClient", "RegisterCounterparty", "RecvPacket", "AckPacket",
          "TimeoutPacket", "SubmitMisbehaviour"}

ASSUME TxAssumption ==
    /\ Kind \in [Requests -> Kinds]
    /\ DOMAIN Subject = Requests
    /\ DOMAIN Signer = Requests
    /\ MaxFaults \in Nat

VARIABLES
    sequence,   \* sequence number of each account
    mempool,    \* envelopes the network holds and has not applied
    result,     \* status of the envelopes in ledgers
    effects,    \* how often each call of the router took effect
    expired,    \* calls that the router will not accept any more
    request,    \* where each message stands
    faults

txVars == <<sequence, mempool, result, effects, expired, request, faults>>

-----------------------------------------------------------------------------
(* The gateway: each handler names one method of the router.                *)

RouterMethod(kind) ==
    CASE kind = "CreateClient"         -> "create_client"
      [] kind = "UpdateClient"         -> "update_client"
      [] kind = "SubmitMisbehaviour"   -> "update_client"
      [] kind = "RegisterCounterparty" -> "register_counterparty"
      [] kind = "RecvPacket"           -> "recv_packet"
      [] kind = "AckPacket"            -> "acknowledge_packet"
      [] kind = "TimeoutPacket"        -> "timeout_packet"

Call(r) == [method |-> RouterMethod(Kind[r]), subject |-> Subject[r]]

Calls == {Call(r) : r \in Requests}

Accounts == {Signer[r] : r \in Requests}

\* A client may be created again, and an attestation of a height that is
\* stored already is accepted again.  Of every other call the router panics on
\* the second: there is a receipt, no commitment is left, the counterparty is
\* registered, the header is not above latest_height, the client is frozen.
Repeats(call) ==
    \/ call.method = "create_client"
    \/ call.method = "update_client" /\ call.subject \in Attested

CallReturnsAlways(call) == call \notin expired

CallReturns(call) == call \notin expired /\ (effects[call] > 0 => Repeats(call))

\* Other calls, and time, end what a call asks for: the packet times out or is
\* resolved the other way, the client has a later header or is frozen.
Expire(call) ==
    /\ call.method # "create_client"
    /\ expired' = expired \cup {call}
    /\ UNCHANGED <<sequence, mempool, result, effects, request, faults>>

-----------------------------------------------------------------------------
(* The api.                                                                 *)

Envelope(r) == [signer |-> Signer[r], seq |-> request[r].seq, call |-> Call(r)]

Move(r, phase) == request' = [request EXCEPT ![r].phase = phase]

\* An answer that leaves open whether the envelope was or will be applied.
MoveUnknown(r) ==
    request' = [request EXCEPT ![r].phase = "idle", ![r].unknown = @ + 1]

\* build_unsigned_tx up to the answer of get_account.
get_account(r) ==
    /\ request[r].phase = "idle"
    /\ request' = [request EXCEPT ![r].phase = "account", ![r].seq = sequence[Signer[r]] + 1]
    /\ UNCHANGED <<sequence, mempool, result, effects, expired, faults>>

\* build_unsigned_tx from there: prepare_transaction simulates the call.
prepare_transaction(r) ==
    /\ request[r].phase = "account"
    /\ Move(r, IF CallReturns(Call(r)) THEN "signed" ELSE "refused")
    /\ UNCHANGED <<sequence, mempool, result, effects, expired, faults>>

\* submit_and_wait up to the answer of sendTransaction.  The network refuses
\* an envelope whose sequence number is used up; the code reads the hash and
\* waits for it all the same.
sendTransaction(r) ==
    /\ request[r].phase = "signed"
    /\ mempool' = IF request[r].seq > sequence[Signer[r]]
                  THEN mempool \cup {Envelope(r)}
                  ELSE mempool
    /\ Move(r, "waiting")
    /\ UNCHANGED <<sequence, result, effects, expired, faults>>

WaitReturnsNoValue(r) ==
    /\ request[r].phase = "waiting"
    /\ Envelope(r) \in DOMAIN result
    /\ Move(r, "idle")
    /\ UNCHANGED <<sequence, mempool, result, effects, expired, faults>>

\* wait_transaction finds the envelope: Success answers with the hash, Failed
\* with an error.
WaitReturns(r) ==
    /\ request[r].phase = "waiting"
    /\ Envelope(r) \in DOMAIN result
    /\ Move(r, IF result[Envelope(r)] = "SUCCESS" THEN "ok" ELSE "idle")
    /\ UNCHANGED <<sequence, mempool, result, effects, expired, faults>>

WaitTimesOutOk(r) ==
    /\ request[r].phase = "waiting"
    /\ Envelope(r) \notin DOMAIN result
    /\ Move(r, "ok")
    /\ UNCHANGED <<sequence, mempool, result, effects, expired, faults>>

WaitTimesOutNever(r) == FALSE /\ UNCHANGED txVars

\* NotFound after 30 seconds: an error, whether the network never took the
\* envelope or has not applied it yet (a fault of the network).
WaitTimesOut(r) ==
    /\ request[r].phase = "waiting"
    /\ Envelope(r) \notin DOMAIN result
    /\ IF Envelope(r) \in mempool
       THEN faults < MaxFaults /\ faults' = faults + 1
       ELSE UNCHANGED faults
    /\ MoveUnknown(r)
    /\ UNCHANGED <<sequence, mempool, result, effects, expired>>

-----------------------------------------------------------------------------
(* What else happens.                                                       *)

\* sendTransaction does not reach the network, or is told to try again later.
SendLost(r) ==
    /\ request[r].phase = "signed"
    /\ faults < MaxFaults
    /\ faults' = faults + 1
    /\ Move(r, "idle")
    /\ UNCHANGED <<sequence, mempool, result, effects, expired>>

\* The network has the envelope and the answer is lost: on the way from the
\* network, the api or the gateway, or because the api's answer has an empty
\* return value, which submit_and_wait of the client cannot decode.
AnswerLost(r) ==
    /\ request[r].phase = "waiting"
    /\ faults < MaxFaults
    /\ faults' = faults + 1
    /\ MoveUnknown(r)
    /\ UNCHANGED <<sequence, mempool, result, effects, expired>>

ApplyTransaction(env) ==
    /\ env \in mempool
    /\ env.seq = sequence[env.signer] + 1
    /\ mempool' = mempool \ {env}
    /\ sequence' = [sequence EXCEPT ![env.signer] = @ + 1]
    /\ LET status == IF CallReturns(env.call) THEN "SUCCESS" ELSE "FAILED"
       IN  /\ result' = [e \in DOMAIN result \cup {env} |-> IF e = env THEN status ELSE result[e]]
           /\ effects' = IF status = "SUCCESS" THEN [effects EXCEPT ![env.call] = @ + 1]
                                               ELSE effects
    /\ UNCHANGED <<expired, request, faults>>

\* An envelope whose sequence number was used by another is dropped.
DropTransaction(env) ==
    /\ env \in mempool
    /\ env.seq <= sequence[env.signer]
    /\ mempool' = mempool \ {env}
    /\ UNCHANGED <<sequence, result, effects, expired, request, faults>>

-----------------------------------------------------------------------------
TxInit ==
    /\ sequence = [a \in Accounts |-> 0]
    /\ mempool = {}
    /\ result = [e \in {} |-> "SUCCESS"]
    /\ effects = [c \in Calls |-> 0]
    /\ expired = {}
    /\ request = [r \in Requests |-> [phase |-> "idle", seq |-> 0, unknown |-> 0]]
    /\ faults = 0

Step(r) ==
    \/ get_account(r)
    \/ prepare_transaction(r)
    \/ sendTransaction(r)
    \/ WaitReturns(r)
    \/ WaitTimesOut(r)

NetworkStep == \E env \in mempool : ApplyTransaction(env) \/ DropTransaction(env)

TxNext ==
    \/ \E r \in Requests : Step(r) \/ SendLost(r) \/ AnswerLost(r)
    \/ \E call \in Calls : Expire(call)
    \/ NetworkStep

\* Relayers go on until they are answered, and the network applies what it
\* holds.
TxSpec ==
    /\ TxInit
    /\ [][TxNext]_txVars
    /\ \A r \in Requests : WF_txVars(Step(r))
    /\ WF_txVars(NetworkStep)

-----------------------------------------------------------------------------
Settled(r) == request[r].phase \in {"ok", "refused"}

SumUnknown(c) ==
    MapThenSumSet(LAMBDA r : request[r].unknown, {r \in Requests : Call(r) = c})

(* The types of the accounts, the envelopes and the messages.               *)
TxTypeOK ==
    /\ sequence \in [Accounts -> Nat]
    /\ mempool \subseteq [signer : Accounts, seq : Nat \ {0}, call : Calls]
    /\ DOMAIN result \subseteq [signer : Accounts, seq : Nat \ {0}, call : Calls]
    /\ \A e \in DOMAIN result : result[e] \in {"SUCCESS", "FAILED"}
    /\ effects \in [Calls -> Nat]
    /\ expired \subseteq Calls
    /\ request \in [Requests -> [phase   : {"idle", "account", "signed", "waiting", "ok", "refused"},
                                 seq     : Nat,
                                 unknown : Nat]]

(* A relayer that is answered with a hash can rely on it: the call has      *)
(* taken effect.  One whose message can no longer be prepared can give up:  *)
(* it took effect, by an earlier attempt or by another relayer's message,   *)
(* or it never will.                                                        *)
SettledMeansDone ==
    \A r \in Requests :
        /\ request[r].phase = "ok" => effects[Call(r)] > 0
        /\ request[r].phase = "refused" => effects[Call(r)] > 0 \/ Call(r) \in expired

(* However often answers are lost and messages are prepared and sent again, *)
(* and although two relayers simulate the same call before either is        *)
(* applied, a packet call or a registration takes effect at most once.      *)
OnceCallsOnce == \A c \in Calls : Repeats(c) \/ effects[c] <= 1

(* A call takes effect at most as often as it was answered with success or  *)
(* with an error that leaves the outcome open: an error that says the       *)
(* transaction failed never hides one that did not.  A second client of one *)
(* create_client message takes a timeout or a lost answer.                  *)
EffectsAccountedFor ==
    \A c \in Calls :
        effects[c] <= SumUnknown(c) + Cardinality({r \in Requests :
                          Call(r) = c /\ request[r].phase \in {"waiting", "ok"}})

(* Every message is settled in the end, with two messages racing for one    *)
(* sequence number, the loser waiting 30 seconds for an envelope that the   *)
(* network refused, and any finite number of lost answers.                  *)
EveryMessageSettles == \A r \in Requests : <>[]Settled(r)
=============================================================================
