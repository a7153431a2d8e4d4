---------------------------- MODULE MOESIDirectory ----------------------------
(* The protocol MOESI_directory: the L1 cache controllers and the home        *)
(* directory of one block, composed through the network.                      *)
EXTENDS L1CacheController, DirectoryController

vars == <<cache, latest, readRequestTable, writeRequestTable, requestQueue,
          dir, net, merged>>

Init == SequencerInit /\ CacheInit /\ DirectoryInit /\ NetworkInit

Next ==
    \/ CacheNext /\ UNCHANGED dir
    \/ DirectoryNext /\ UNCHANGED <<cacheVars, sequencerVars>>

Spec == Init /\ [][Next]_vars

(* Messages are delivered, the trigger queue is drained, and the controllers  *)
(* run what is delivered: the event queue wakes a consumer for every message. *)
(* Nothing is assumed of the processors, nor that a given request is ever     *)
(* preferred to the ones that keep the directory busy.                        *)
Fairness ==
    /\ \A p \in Proc :
          /\ WF_vars(All_acks(p) /\ UNCHANGED dir)
          /\ WF_vars((\E m \in net : m.to = p /\ CacheReceive(p, m)) /\ UNCHANGED dir)
    /\ WF_vars(DirectoryNext /\ UNCHANGED <<cacheVars, sequencerVars>>)

FairSpec == Spec /\ Fairness
-------------------------------------------------------------------------------
(* Types of every variable.  Versions never exceed the stores issued.         *)
TypeOK ==
    /\ SequencerTypeOK
    /\ cache \in [Proc -> CacheRecord]
    /\ latest \in Nat
    /\ DirectoryTypeOK
    /\ net \subseteq Message
    /\ merged \in BOOLEAN

(* The generated controllers' default case, ERROR_MSG("Invalid transition"),  *)
(* is never reached: every message in flight, whenever it is delivered, has a *)
(* transition in the state its receiver is in, and so has ALL_ACKS; and no    *)
(* message is ever sent while an equal one is in flight.                      *)
NoInvalidTransition ==
    /\ \A m \in net : m.to \in Proc => cache[m.to].state \in CacheExpects(m.to, m)
    /\ \A m \in net : m.to = Dir => dir.state \in DirectoryExpects(m)
    /\ \A p \in Proc : cache[p].trigger > 0 => cache[p].trigger = 1 /\ cache[p].state = "OM"
    /\ ~merged

(* The assertions in the controllers' actions: setState of the directory,     *)
(* writeDataToCacheVerify (an upgrade receives the data it already has),      *)
(* ll_checkDataInMemory (a clean PUT carries the memory's data), and the ones *)
(* of the sequencer's callbacks (a completed request is in its table).        *)
AssertionsHold ==
    /\ SetStateAsserts
    /\ \A m \in net : /\ m.vnet = "response"
                      /\ m.type \in {"DATA", "DATA_EXCLUSIVE_CLEAN"}
                      /\ cache[m.to].state = "SM"
                      => m.data = cache[m.to].data
    /\ \A m \in net : IsOwnerPut(m, "PUT_CLEAN") => m.data = dir.data
    /\ \A p \in Proc : /\ cache[p].state = "IS" => readRequestTable[p] # "none"
                       /\ cache[p].state \in {"IM", "SM", "OM"} => writeRequestTable[p] = "ST"

(* Single writer, multiple readers: while one cache may write the block (or   *)
(* become able to without a message), no other cache may read it.             *)
SingleWriter ==
    \A p, q \in Proc :
        /\ p # q
        /\ cache[p].state \in {"E", "M", "MM"}
        => Permission(cache[q]) \in {"NotPresent", "Invalid"}

(* A processor never reads a stale value: every copy with read permission     *)
(* holds the version of the last completed store, however the invalidations,  *)
(* data and acks of the store were delayed.                                   *)
NoStaleRead ==
    \A p \in Proc :
        Permission(cache[p]) \in {"Read_Only", "Read_Write"} => cache[p].data = latest

(* The last completed store is never lost: the memory has its version, or a   *)
(* cache that answers for the block (from its entry or from the TBE of its    *)
(* writeback), or the data on its way to the next holder.                     *)
LatestSurvives ==
    \/ dir.data = latest
    \/ \E p \in Proc : cache[p].state \in SupplyingStates /\ OwnerData(p) = latest
    \/ \E m \in net : m.vnet = "response" /\ m.type # "ACK" /\ m.data = latest

(* When the directory is not serving a request, it knows every holder of the  *)
(* block: a cache that can read or that owns the block is in Sharers or       *)
(* Owner, and what it records as the owner does own it.                       *)
DirectoryKnowsHolders ==
    dir.state \notin Busy =>
        \A p \in Proc :
            /\ cache[p].state \in {"S", "SM"} => p \in dir.sharers \cup dir.owner
            /\ cache[p].state \in {"E", "M", "MM", "O_C", "O_D"} => dir.owner = {p}
            /\ p \in dir.owner => cache[p].state \in SupplyingStates

(* Memory never goes back: a delayed or crossing PUT does not overwrite the   *)
(* data of a later writeback.                                                 *)
MemoryNeverRegresses == [][dir.data' >= dir.data]_dir

(* The transactions of the block cannot all get stuck: while some are         *)
(* outstanding, one after another completes.                                  *)
Completes == \E p \in Proc : cache[p].tbe /\ ~cache'[p].tbe

TransactionsComplete ==
    <>[](\E p \in Proc : cache[p].tbe) => []<><<Completes>>_vars

(* The protocol implements a coherent memory: a completed load or store is    *)
(* one at the single value of the block.                                      *)
Coherence == INSTANCE CoherentMemory WITH
    NoCopy <- -1,
    value  <- latest,
    view   <- [p \in Proc |->
                 IF Permission(cache[p]) \in {"Read_Only", "Read_Write"}
                 THEN cache[p].data ELSE -1]

ImplementsCoherentMemory == Coherence!Spec
===============================================================================
