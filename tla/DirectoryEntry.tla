---------------------------- MODULE DirectoryEntry ----------------------------
(* What MOESI_directory-dir.sm and MOESI_DRAM_directory-dir.sm share: the     *)
(* directory entry of the block, the messages the home node sends and the     *)
(* transitions that do not touch the memory.                                  *)
EXTENDS MOESIMessages

VARIABLE dir   \* the Entry of the block in DirectoryMemory

DirectoryState == {"I", "S", "O", "M",
                   "IS", "SS", "OO", "MO", "IM", "SM", "OM", "MM"}

Busy == {"IS", "SS", "OO", "MO", "IM", "SM", "OM", "MM"}

DirectoryInit == dir = [state |-> "I", owner |-> {}, sharers |-> {}, data |-> 0]

DirectoryTypeOK ==
    dir \in [state : DirectoryState, owner : SUBSET Proc,
             sharers : SUBSET Proc, data : Nat]

-------------------------------------------------------------------------------
(* Faulty variant: the acks to wait for are not counted.                      *)
Acks_uncounted(requestor) == 0

(* Acks: one per sharer that is going to be invalidated.                      *)
Acks(requestor) == Cardinality(dir.sharers \ {requestor})

(* Faulty variant: exclusive data whoever shares the block.                   *)
dirSendData_exclusive(m) ==
    ResponseMsg("response", "DATA_EXCLUSIVE_CLEAN", Dir, m.from, dir.data, Acks(m.from))

(* d_sendData: exclusive when nobody shares the block.                        *)
dirSendData(m) ==
    ResponseMsg("response", IF dir.sharers = {} THEN "DATA_EXCLUSIVE_CLEAN" ELSE "DATA",
                Dir, m.from, dir.data, Acks(m.from))

(* f_forwardRequest: the request itself, to the owner.                        *)
forwardRequest(m) ==
    {RequestMsg("forward", m.type, m.from, p, 0, Acks(m.from)) : p \in dir.owner}

(* Faulty variant: the requestor is not removed from the sharers.             *)
sendInvalidations_toRequestor(m) ==
    {RequestMsg("forward", "INV", m.from, p, 0, 0) : p \in dir.sharers}

(* g_sendInvalidations: the sharers other than the requestor.                 *)
sendInvalidations(m) ==
    {RequestMsg("forward", "INV", m.from, p, 0, 0) : p \in dir.sharers \ {m.from}}

(* a_sendWritebackAck: the Sender is set to the requestor.                    *)
sendWritebackAck(m) == ResponseMsg("response", "WB_ACK", m.from, m.from, 0, 0)

(* The event a PUT triggers depends on who the directory believes the owner   *)
(* is when the PUT reaches the head of the queue.                             *)
IsRequest(m, type) == m.vnet = "request" /\ m.type = type
IsPut(m) == m.vnet = "request" /\ m.type \in {"PUT_CLEAN", "PUT_DIRTY"}
IsOwnerPut(m, type) == IsRequest(m, type) /\ m.from \in dir.owner
IsStalePut(m) == IsPut(m) /\ m.from \notin dir.owner

DirTransition(d, m, sent) ==
    /\ dir' = d
    /\ Transmit({m}, sent)

-------------------------------------------------------------------------------
(* Requests for a block that a cache owns.                                    *)

ForwardGETS(m) ==
    /\ IsRequest(m, "GETS")
    /\ dir.state \in {"O", "M"}
    /\ DirTransition([dir EXCEPT !.state = IF @ = "O" THEN "OO" ELSE "MO"],
                     m, forwardRequest(m))

ForwardGETX(m) ==
    /\ IsRequest(m, "GETX")
    /\ dir.state \in {"O", "M"}
    /\ DirTransition([dir EXCEPT !.state = IF @ = "O" THEN "OM" ELSE "MM"],
                     m, forwardRequest(m) \cup
                        (IF dir.state = "O" THEN sendInvalidations(m) ELSE {}))

(* ll_checkDataInMemory asserts that the clean data is the memory's           *)
(* (AssertionsHold); the owner is cleared.                                    *)
Clean_PUT(m) ==
    /\ IsOwnerPut(m, "PUT_CLEAN")
    /\ dir.state \in {"O", "M"}
    /\ DirTransition([dir EXCEPT !.state = IF @ = "O" THEN "S" ELSE "I", !.owner = {}],
                     m, {sendWritebackAck(m)})

(* Faulty variants: the data of a stale PUT is written; no answer is sent.    *)
Stale_PUT_writes(m) ==
    /\ IsStalePut(m)
    /\ dir.state \notin Busy
    /\ DirTransition([dir EXCEPT !.data = m.data], m, {sendWritebackAck(m)})

Stale_PUT_unanswered(m) ==
    /\ IsStalePut(m)
    /\ dir.state \notin Busy
    /\ DirTransition(dir, m, {})

(* A PUT that crossed a request forwarded to its sender.  It is only judged   *)
(* stale once no request is pending; until then it is recycled.               *)
Stale_PUT(m) ==
    /\ IsStalePut(m)
    /\ dir.state \notin Busy
    /\ DirTransition(dir, m, {sendWritebackAck(m)})

-------------------------------------------------------------------------------
(* The requestor has its data: the directory records the new holder.          *)

UnblockedState == [MO |-> "O", IS |-> "S", SS |-> "S", OO |-> "O"]

(* Faulty variant: the new sharer is not recorded if there is one already.    *)
Unblock_firstSharerOnly(m) ==
    /\ m.vnet = "unblock" /\ m.type = "UNBLOCK"
    /\ dir.state \in DOMAIN UnblockedState
    /\ DirTransition([dir EXCEPT !.state = UnblockedState[@],
                                 !.sharers = IF @ = {} THEN {m.from} ELSE @], m, {})

Unblock(m) ==
    /\ m.vnet = "unblock" /\ m.type = "UNBLOCK"
    /\ dir.state \in DOMAIN UnblockedState
    /\ DirTransition([dir EXCEPT !.state = UnblockedState[@],
                                 !.sharers = @ \cup {m.from}], m, {})

(* Faulty variant: the sharers are not cleared.                               *)
Exclusive_Unblock_keepsSharers(m) ==
    /\ m.vnet = "unblock" /\ m.type = "UNBLOCK_EXCLUSIVE"
    /\ dir.state \in {"IM", "SM", "OM", "MM", "MO", "IS"}
    /\ DirTransition([dir EXCEPT !.state = "M", !.owner = {m.from}], m, {})

Exclusive_Unblock(m) ==
    /\ m.vnet = "unblock" /\ m.type = "UNBLOCK_EXCLUSIVE"
    /\ dir.state \in {"IM", "SM", "OM", "MM", "MO", "IS"}
    /\ DirTransition([dir EXCEPT !.state = "M", !.sharers = {}, !.owner = {m.from}], m, {})

-------------------------------------------------------------------------------
(* The assertions of setState.                                                *)
SetStateAsserts ==
    /\ dir.state \in {"I", "IS", "IM"} => dir.owner = {} /\ dir.sharers = {}
    /\ dir.state \in {"S", "SS", "SM"} => dir.owner = {} /\ dir.sharers # {}
    /\ dir.state \in {"O", "OO", "OM"} =>
          /\ Cardinality(dir.owner) = 1
          /\ dir.sharers # {}
          /\ ~(dir.owner \subseteq dir.sharers)
    /\ dir.state \in {"M", "MO", "MM"} => Cardinality(dir.owner) = 1 /\ dir.sharers = {}
===============================================================================
