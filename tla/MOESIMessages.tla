---------------------------- MODULE MOESIMessages ----------------------------
(* The messages of MOESI_directory-msg.sm and the interconnection network    *)
(* that carries them, for ONE cache block (every controller action is per    *)
(* block; other blocks appear only as the reason a block is moved or         *)
(* replaced).                                                                *)
(*                                                                           *)
(* Every virtual network is declared ordered="false" and the message buffers *)
(* may delay a message by any amount, so the network is a set of messages in *)
(* flight and any of them may be delivered next.  A multicast (the           *)
(* invalidations) is one message per destination, which is what the switches *)
(* split it into.                                                            *)
EXTENDS Integers, FiniteSets, NodeID

VARIABLES
    net,     \* messages in flight, on the five virtual networks
    merged   \* TRUE once a message equal to one in flight has been sent

CoherenceRequestType == {"GETX", "GETS", "PUT_CLEAN", "PUT_DIRTY", "INV"}

CoherenceResponseType == {"ACK", "WB_ACK", "DATA", "DATA_EXCLUSIVE_CLEAN",
                          "DATA_EXCLUSIVE_DIRTY", "UNBLOCK", "UNBLOCK_EXCLUSIVE"}

VirtualNetwork == {"request", "forward", "response", "unblock", "dram"}

(* from is the Requestor of a RequestMsg and the Sender of a ResponseMsg;    *)
(* data is the version of the block the message carries.                     *)
Message == [vnet : VirtualNetwork,
            type : CoherenceRequestType \cup CoherenceResponseType,
            from : Proc \cup {Dir},
            to   : Proc \cup {Dir},
            data : Nat,
            acks : Int]

RequestMsg(vnet, type, from, to, data, acks) ==
    [vnet |-> vnet, type |-> type, from |-> from, to |-> to,
     data |-> data, acks |-> acks]

ResponseMsg(vnet, type, from, to, data, acks) ==
    [vnet |-> vnet, type |-> type, from |-> from, to |-> to,
     data |-> data, acks |-> acks]

(* One transition's effect on the network: the messages it pops and the ones *)
(* it enqueues.  Two equal messages in flight would become one here; merged  *)
(* records that this has happened, so that it can be excluded.               *)
Transmit(popped, sent) ==
    /\ net' = (net \ popped) \cup sent
    /\ merged' = (merged \/ (net \ popped) \cap sent # {})

NetworkInit ==
    /\ net = {}
    /\ merged = FALSE
=============================================================================
