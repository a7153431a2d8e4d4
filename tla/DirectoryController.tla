------------------------- MODULE DirectoryController -------------------------
(* MOESI_directory-dir.sm: the home directory of the block, which answers     *)
(* from memory within the transition that receives the request.               *)
EXTENDS DirectoryEntry

SendGETS(m) ==
    /\ IsRequest(m, "GETS")
    /\ dir.state \in {"I", "S"}
    /\ DirTransition([dir EXCEPT !.state = IF @ = "I" THEN "IS" ELSE "SS"],
                     m, {dirSendData(m)})

SendGETX(m) ==
    /\ IsRequest(m, "GETX")
    /\ dir.state \in {"I", "S"}
    /\ DirTransition([dir EXCEPT !.state = IF @ = "I" THEN "IM" ELSE "SM"],
                     m, {dirSendData(m)} \cup
                        (IF dir.state = "S" THEN sendInvalidations(m) ELSE {}))

(* Faulty variant: the data is not written to memory.                         *)
Dirty_PUT_dropsData(m) ==
    /\ IsOwnerPut(m, "PUT_DIRTY")
    /\ dir.state \in {"O", "M"}
    /\ DirTransition([dir EXCEPT !.state = IF @ = "O" THEN "S" ELSE "I", !.owner = {}],
                     m, {sendWritebackAck(m)})

Dirty_PUT(m) ==
    /\ IsOwnerPut(m, "PUT_DIRTY")
    /\ dir.state \in {"O", "M"}
    /\ DirTransition([dir EXCEPT !.state = IF @ = "O" THEN "S" ELSE "I",
                                 !.owner = {}, !.data = m.data],
                     m, {sendWritebackAck(m)})

DirectoryReceive(m) ==
    \/ SendGETS(m)
    \/ SendGETX(m)
    \/ ForwardGETS(m)
    \/ ForwardGETX(m)
    \/ Dirty_PUT(m)
    \/ Clean_PUT(m)
    \/ Stale_PUT(m)
    \/ Unblock(m)
    \/ Exclusive_Unblock(m)

DirectoryNext == \E m \in net : m.to = Dir /\ DirectoryReceive(m)

(* The states in which the message has a transition, recycling included.      *)
DirectoryExpects(m) ==
    CASE m.type \in {"GETS", "GETX"} -> DirectoryState
      [] IsStalePut(m) -> DirectoryState
      [] IsPut(m) /\ m.from \in dir.owner -> {"O", "M", "OO", "MO", "OM", "MM"}
      [] m.type = "UNBLOCK" -> DOMAIN UnblockedState
      [] m.type = "UNBLOCK_EXCLUSIVE" -> {"IM", "SM", "OM", "MM", "MO", "IS"}
      [] OTHER -> {}
===============================================================================
