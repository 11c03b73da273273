--------------------------- MODULE MCIbcTransfer ---------------------------
(* A small instance of IbcTransfer: packet data of both encodings, from and  *)
(* to both users and to an account of the other chain.                       *)
EXTENDS IbcTransfer

CONSTANTS u1, u2

MCUsers == {u1, u2}

DataOf(amount, sender, receiver) ==
    FungibleTokenPacketData("XLM", amount, AddressToString(sender), receiver)

MCPayloads ==
    {TransferPayload(EncodeXdr(DataOf(amt, u1, rcv))) :
        amt \in {1, 2}, rcv \in {AddressToString(u2), ForeignAddress}}
    \cup
    {TransferPayload(OutgoingValue(u1, "XLM", 1, ForeignAddress))}
    \cup
    {[TransferPayload(EncodeXdr(DataOf(1, u1, AddressToString(u2)))) EXCEPT
          !.source_port = "other", !.dest_port = "other"]}
=============================================================================
