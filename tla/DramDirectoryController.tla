----------------------- MODULE DramDirectoryController -----------------------
(* MOESI_DRAM_directory-dir.sm, the directory of the default build: it reads  *)
(* and writes memory through DirectoryMemory::read and write, and goes on     *)
(* when the transaction comes back on the virtual network "dram".  The        *)
(* directory entry does not change in between.                                *)
(*                                                                            *)
(* DirectoryMemory answers each operation with the request itself, exactly    *)
(* once (module DirectoryMemory); here the answer is the request moved from   *)
(* the network "request" to the network "dram".                               *)
EXTENDS DirectoryEntry

dramReply(m) == RequestMsg("dram", m.type, m.from, Dir, m.data, m.acks)

readDram(m) ==
    /\ \/ IsRequest(m, "GETS")
       \/ IsRequest(m, "GETX")
    /\ dir.state \in {"I", "S"}
    /\ DirTransition(dir, m, {dramReply(m)})

writeDram(m) ==
    /\ IsOwnerPut(m, "PUT_DIRTY")
    /\ dir.state \in {"O", "M"}
    /\ DirTransition(dir, m, {dramReply(m)})

Dram_ReadS(m) ==
    /\ m.vnet = "dram" /\ m.type = "GETS"
    /\ dir.state \in {"I", "S"}
    /\ DirTransition([dir EXCEPT !.state = IF @ = "I" THEN "IS" ELSE "SS"],
                     m, {dirSendData(m)})

Dram_ReadX(m) ==
    /\ m.vnet = "dram" /\ m.type = "GETX"
    /\ dir.state \in {"I", "S"}
    /\ DirTransition([dir EXCEPT !.state = IF @ = "I" THEN "IM" ELSE "SM"],
                     m, {dirSendData(m)} \cup
                        (IF dir.state = "S" THEN sendInvalidations(m) ELSE {}))

Dram_Write(m) ==
    /\ m.vnet = "dram" /\ m.type = "PUT_DIRTY"
    /\ dir.state \in {"O", "M"}
    /\ DirTransition([dir EXCEPT !.state = IF @ = "O" THEN "S" ELSE "I",
                                 !.owner = {}, !.data = m.data],
                     m, {sendWritebackAck(m)})

DramDirectoryReceive(m) ==
    \/ readDram(m)
    \/ writeDram(m)
    \/ Dram_ReadS(m)
    \/ Dram_ReadX(m)
    \/ Dram_Write(m)
    \/ ForwardGETS(m)
    \/ ForwardGETX(m)
    \/ Clean_PUT(m)
    \/ Stale_PUT(m)
    \/ Unblock(m)
    \/ Exclusive_Unblock(m)

DramDirectoryNext == \E m \in net : m.to = Dir /\ DramDirectoryReceive(m)

(* The states in which the message has a transition, recycling included.      *)
DramDirectoryExpects(m) ==
    CASE m.vnet = "dram" /\ m.type = "PUT_DIRTY" -> {"O", "M"}
      [] m.vnet = "dram" /\ m.type # "PUT_DIRTY" -> {"I", "S"}
      [] m.vnet = "request" /\ m.type \in {"GETS", "GETX"} -> DirectoryState
      [] IsStalePut(m) -> DirectoryState
      [] IsPut(m) /\ m.from \in dir.owner -> {"O", "M", "OO", "MO", "OM", "MM"}
      [] m.type = "UNBLOCK" -> DOMAIN UnblockedState
      [] m.type = "UNBLOCK_EXCLUSIVE" -> {"IM", "SM", "OM", "MM", "MO", "IS"}
      [] OTHER -> {}
===============================================================================
