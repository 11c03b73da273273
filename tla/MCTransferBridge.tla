-------------------------- MODULE MCTransferBridge --------------------------
(* A small instance of TransferBridge on the tendermint light client.        *)
EXTENDS TransferBridge

CONSTANTS u1, k1

MCUsers == {u1}

MCReceivers == {ForeignAddress}

MCCounterparties == {[client_id |-> <<"08-wasm", 0>>, commitment_prefix |-> "ibc"]}

MCClient == <<"client", 0>>

MCRoots == Heights

MCTmInputs ==
    {[client_state    |-> ClientStateToSoroban([latest_height |-> 1, frozen_height |-> None]),
      consensus_state |-> ConsensusStateToSoroban([timestamp |-> BlockTicks(1), root |-> 1]),
      height          |-> 1]}

Outgoing == OutgoingValue(u1, "XLM", 1, ForeignAddress)

Incoming ==
    EncodeXdr(FungibleTokenPacketData("XLM", 1, ForeignAddress, AddressToString(u1)))

(* Either value may come in from the counterparty; this chain sends Outgoing. *)
MCValues == {Outgoing, Incoming}

MCPayloadLists ==
    {<<TransferPayload(v)>> : v \in MCValues}
    \cup {<<[source_port |-> OtherPort, dest_port |-> OtherPort, value |-> Outgoing]>>}

MCAckLists == {<<SuccessAck>>, <<"error">>}
=============================================================================
