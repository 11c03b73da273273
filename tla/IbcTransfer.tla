---------------------------- MODULE IbcTransfer ----------------------------
(***************************************************************************)
(* The ibc-transfer contract (ICS-20): internal balances, the escrow of    *)
(* outgoing transfers, the callbacks of the router and the daily limit.    *)
(*                                                                         *)
(* Payload values keep the format they are encoded in, because the code    *)
(* writes one format and reads another: initiate_transfer encodes the      *)
(* packet data as JSON, and every callback decodes XDR.                    *)
(***************************************************************************)
EXTENDS LedgerClock, FiniteSetsExt

CONSTANTS
    Users,          \* account addresses
    Escrow,         \* the contract's own address
    Denoms,
    Amounts,        \* amounts of calls and packets
    Payloads,       \* payloads of the packets the router dispatches
    AppAcks,        \* acknowledgements of the counterparty's application
    Caps,           \* arguments of set_rate_limit
    SecsPerDay,
    MaxIssued       \* bound on what is minted, and on what is received, of a denom

VARIABLES
    balance,        \* DataKey::Balance(address, denom)
    dailyCap,       \* DataKey::DailyCap(denom)
    usage,          \* DataKey::Usage(denom, day)
    issued          \* history: what mint, and what on_recv_packet, have created

transferVars == <<balance, dailyCap, usage, issued>>

Addresses == Users \cup {Escrow}

Days == 0..(MaxTime \div SecsPerDay)

ASSUME TransferAssumption ==
    /\ Escrow \notin Users
    /\ Amounts \subseteq Nat
    /\ Caps \subseteq Nat
    /\ SecsPerDay \in Nat \ {0}
    /\ MaxIssued \in Nat
    /\ None \notin Nat

PORT == "transfer"

SuccessAck == "0x01"                \* [SUCCESS_ACK_BYTE], this contract's own
ResultAck == "{result}"             \* {"result":"AQ=="}, what ibc-go answers

(* An address as text is the hex of its XDR; other text is not an address. *)
AddressToString(a) == [hex |-> TRUE, address |-> a]
ForeignAddress == [hex |-> FALSE, address |-> None]

StringToAddressReturns(s) == s.hex
StringToAddress(s) == s.address

FungibleTokenPacketData(denom, amount, sender, receiver) ==
    [denom |-> denom, amount |-> amount, sender |-> sender, receiver |-> receiver]

EncodeIcs20Json(data) == [format |-> "json", data |-> data]
EncodeXdr(data) == [format |-> "xdr", data |-> data]

(* decode_packet: from_xdr, which fails on anything else. *)
DecodePacketReturns(value) == value.format = "xdr"

TransferPayload(value) == [source_port |-> PORT, dest_port |-> PORT, value |-> value]

IsSuccessAck(ack) == ack \in {SuccessAck, ResultAck}

CurrentDay == now \div SecsPerDay

Credit(bal, who, denom, amount) == [bal EXCEPT ![<<who, denom>>] = @ + amount]

DebitReturnsAlways(bal, who, denom, amount) == TRUE

DebitReturns(bal, who, denom, amount) == bal[<<who, denom>>] >= amount

DebitNot(bal, who, denom, amount) == bal

Debit(bal, who, denom, amount) == [bal EXCEPT ![<<who, denom>>] = @ - amount]

-----------------------------------------------------------------------------

TransferInit ==
    /\ balance = [k \in Addresses \X Denoms |-> 0]
    /\ dailyCap = [d \in Denoms |-> None]
    /\ usage = [k \in Denoms \X Days |-> 0]
    /\ issued = [k \in {"mint", "recv"} \X Denoms |-> 0]

(* The admin sets or replaces a cap. *)
SetRateLimit(denom, cap) ==
    /\ cap >= 0
    /\ dailyCap' = [dailyCap EXCEPT ![denom] = cap]
    /\ UNCHANGED <<balance, usage, issued>>

Mint(to, denom, amount) ==
    /\ amount > 0
    /\ issued[<<"mint", denom>>] + amount <= MaxIssued
    /\ balance' = Credit(balance, to, denom, amount)
    /\ issued' = [issued EXCEPT ![<<"mint", denom>>] = @ + amount]
    /\ UNCHANGED <<dailyCap, usage>>

EnforceRateLimitLate(denom, amount) ==
    \/ dailyCap[denom] = None /\ UNCHANGED usage
    \/ /\ dailyCap[denom] # None
       /\ usage[<<denom, CurrentDay>>] <= dailyCap[denom]
       /\ usage' = [usage EXCEPT ![<<denom, CurrentDay>>] = @ + amount]

(* Without a cap a transfer is neither limited nor counted. *)
EnforceRateLimit(denom, amount) ==
    \/ dailyCap[denom] = None /\ UNCHANGED usage
    \/ /\ dailyCap[denom] # None
       /\ usage[<<denom, CurrentDay>>] + amount <= dailyCap[denom]
       /\ usage' = [usage EXCEPT ![<<denom, CurrentDay>>] = @ + amount]

InitiateTransferUnescrowed(sender, denom, amount) ==
    /\ amount > 0
    /\ EnforceRateLimit(denom, amount)
    /\ DebitReturns(balance, sender, denom, amount)
    /\ balance' = Debit(balance, sender, denom, amount)
    /\ UNCHANGED <<dailyCap, issued>>

(* initiate_transfer up to its call of send_packet, which carries the value *)
(* OutgoingValue.                                                           *)
InitiateTransfer(sender, denom, amount) ==
    /\ amount > 0
    /\ EnforceRateLimit(denom, amount)
    /\ DebitReturns(balance, sender, denom, amount)
    /\ balance' = Credit(Debit(balance, sender, denom, amount), Escrow, denom, amount)
    /\ UNCHANGED <<dailyCap, issued>>

OutgoingValue(sender, denom, amount, receiver) ==
    EncodeIcs20Json(FungibleTokenPacketData(denom, amount, AddressToString(sender), receiver))

(* The callbacks; each first checks that the router is the caller. *)
OnRecvPacket(payload) ==
    /\ payload.dest_port = PORT
    /\ DecodePacketReturns(payload.value)
    /\ LET data == payload.value.data
       IN  /\ StringToAddressReturns(data.receiver)
           /\ balance' = Credit(balance, StringToAddress(data.receiver), data.denom, data.amount)
           /\ issued' = [issued EXCEPT ![<<"recv", data.denom>>] = @ + data.amount]
    /\ UNCHANGED <<dailyCap, usage>>

Refund(value) ==
    /\ DecodePacketReturns(value)
    /\ LET data == value.data
       IN  /\ StringToAddressReturns(data.sender)
           /\ DebitReturns(balance, Escrow, data.denom, data.amount)
           /\ balance' = Credit(Debit(balance, Escrow, data.denom, data.amount),
                                StringToAddress(data.sender), data.denom, data.amount)
    /\ UNCHANGED <<dailyCap, usage, issued>>

OnAcknowledgementPacket(payload, ack) ==
    /\ payload.source_port = PORT
    /\ IF IsSuccessAck(ack) THEN UNCHANGED transferVars ELSE Refund(payload.value)

OnTimeoutPacket(payload) ==
    /\ payload.source_port = PORT
    /\ Refund(payload.value)

(* The contract on its own: users, the admin and time, and a router that may *)
(* dispatch any payload, whether this contract sent it or not.               *)
TransferNext ==
    \/ \E d \in Denoms, cap \in Caps : SetRateLimit(d, cap) /\ UNCHANGED now
    \/ \E a \in Addresses, d \in Denoms, amt \in Amounts : Mint(a, d, amt) /\ UNCHANGED now
    \/ \E u \in Users, d \in Denoms, amt \in Amounts :
           InitiateTransfer(u, d, amt) /\ UNCHANGED now
    \/ \E p \in Payloads :
           /\ issued[<<"recv", p.value.data.denom>>] + p.value.data.amount <= MaxIssued
           /\ OnRecvPacket(p)
           /\ UNCHANGED now
    \/ \E p \in Payloads, ack \in AppAcks : OnAcknowledgementPacket(p, ack) /\ UNCHANGED now
    \/ \E p \in Payloads : OnTimeoutPacket(p) /\ UNCHANGED now
    \/ LedgerClose /\ UNCHANGED transferVars

TransferAppInit == now = 0 /\ TransferInit

TransferSpec == TransferAppInit /\ [][TransferNext]_<<now, transferVars>>

-----------------------------------------------------------------------------

(* Type invariant; no balance, of the escrow in particular, is ever negative. *)
TransferTypeOK ==
    /\ now \in Times
    /\ balance \in [Addresses \X Denoms -> Nat]
    /\ dailyCap \in [Denoms -> Caps \cup {None}]
    /\ usage \in [Denoms \X Days -> Nat]
    /\ issued \in [{"mint", "recv"} \X Denoms -> Nat]

TotalBalance(d) == MapThenSumSet(LAMBDA a : balance[<<a, d>>], Addresses)

(* Transfers, acknowledgements, timeouts and refunds only move tokens: the   *)
(* balances of a denom, escrow included, add up to what mint and             *)
(* on_recv_packet issued of it.                                              *)
SupplyConserved ==
    \A d \in Denoms : TotalBalance(d) = issued[<<"mint", d>>] + issued[<<"recv", d>>]

(* However the admin changes the cap in the course of a day, the day's usage *)
(* never passes the largest cap there was.                                   *)
UsageWithinLargestCap ==
    \A k \in Denoms \X Days : usage[k] = 0 \/ \E cap \in Caps : usage[k] <= cap
=============================================================================
