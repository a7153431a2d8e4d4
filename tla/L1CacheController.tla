-------------------------- MODULE L1CacheController --------------------------
(* MOESI_directory-cache.sm: the L1 cache controller of the directory        *)
(* protocols, for one block.  A controller keeps the block in at most one of *)
(* its three cache arrays (L1I, L1D, L2), and a transaction buffer entry     *)
(* (TBE) while a transaction for the block is outstanding.                   *)
(*                                                                           *)
(* The generated controller runs one transition at a time: pop a message,    *)
(* run the actions in order, then setState.  One TLA+ action here is one     *)
(* such transition (or a family of them that differ only in the next state). *)
(* Transitions that recycle the message change nothing and are not actions.  *)
EXTENDS MOESIMessages, Sequencer

CONSTANT MaxStores   \* bound on the stores issued in a behaviour

ASSUME MaxStoresAssumption == MaxStores \in Nat

VARIABLES
    cache,    \* [Proc -> CacheRecord]
    latest    \* the version written by the last completed store

cacheVars == <<cache, latest>>

CacheState == {"NP", "I", "S", "O_C", "O_D", "E", "M", "MM",
               "IM", "SM", "OM", "IS", "II"}

(* state is what getState returns: setState writes the same value to the TBE *)
(* and to the cache entry.  Absent entries and TBEs have version 0.          *)
CacheRecord ==
    [loc     : {"none", "L1I", "L1D", "L2"},  \* the array holding the tag
     state   : CacheState,
     data    : Nat,                           \* DataBlk of the entry
     tbe     : BOOLEAN,                       \* TBEs.isPresent
     tbeData : Nat,                           \* DataBlk of the TBE
     pending : Int,                           \* NumPendingMsgs
     trigger : Nat]                           \* ALL_ACKS messages in triggerQueue

NotPresent == [loc |-> "none", state |-> "NP", data |-> 0, tbe |-> FALSE,
               tbeData |-> 0, pending |-> 0, trigger |-> 0]

CacheInit ==
    /\ cache = [p \in Proc |-> NotPresent]
    /\ latest = 0

(* changePermission's argument in setState, for a block that is present.     *)
Permission(c) ==
    CASE c.loc = "none" -> "NotPresent"
      [] c.state = "MM" -> "Read_Write"
      [] c.state \in {"S", "O_C", "O_D", "M", "E", "SM", "OM"} -> "Read_Only"
      [] OTHER -> "Invalid"

-----------------------------------------------------------------------------
(* The actions of the controller on a cache record.                          *)

setState(c, s) ==
    [c EXCEPT !.state = IF c.tbe \/ c.loc # "none" THEN s ELSE "NP"]

allocateTBE(c) == [c EXCEPT !.tbe = TRUE, !.tbeData = c.data, !.pending = 0]

deallocateTBE(c) == [c EXCEPT !.tbe = FALSE, !.tbeData = 0, !.pending = 0]

allocateL1(c, array) == [c EXCEPT !.loc = array]

deallocateL2(c) == [c EXCEPT !.loc = "none", !.data = 0]

writeDataToCache(c, m) == [c EXCEPT !.data = m.data]

decrementNumberOfMessages(c, m) == [c EXCEPT !.pending = @ - m.acks]

checkForCompletion(c) ==
    [c EXCEPT !.trigger = IF c.pending = 0 THEN @ + 1 ELSE @]

(* The messages the controller sends.                                        *)
issueGETS(p) == RequestMsg("request", "GETS", p, Dir, 0, 0)
issueGETX(p) == RequestMsg("request", "GETX", p, Dir, 0, 0)
issuePUT(p, type) == RequestMsg("request", type, p, Dir, cache[p].data, 0)
sendData(p, type, data, m) == ResponseMsg("response", type, p, m.from, data, m.acks)
sendAck(p, m) == ResponseMsg("response", "ACK", p, m.from, 0, -1)
sendUnblock(p, type) == ResponseMsg("unblock", type, p, Dir, 0, 0)

(* The end of every transition: the new record, the messages popped and sent.*)
CacheTransition(p, c, s, popped, sent) ==
    /\ cache' = [cache EXCEPT ![p] = setState(c, s)]
    /\ Transmit(popped, sent)

(* The store itself: Sequencer::hitCallback merges the written bytes.        *)
StoreData(c) == [c EXCEPT !.data = latest + 1]

-----------------------------------------------------------------------------
(* Requests of the processor.                                                *)

PrimaryArray(type) == IF type = "IFETCH" THEN "L1I" ELSE "L1D"

(* CacheMemory::tryCacheAccess on the primary cache of the request type.     *)
tryCacheAccess(p, type) ==
    /\ cache[p].loc = PrimaryArray(type)
    /\ \/ Permission(cache[p]) = "Read_Write"
       \/ Permission(cache[p]) = "Read_Only" /\ type # "ST"

StoresOutstanding == Cardinality({p \in Proc : writeRequestTable[p] # "none"})

(* The stores already issued, completed or not, leave room for one more.     *)
StoreBudget == latest + StoresOutstanding < MaxStores

(* Sequencer::makeRequest on a miss of the fast path.                        *)
MakeRequest(p, type) ==
    /\ isReady(p, type)
    /\ type = "ST" => StoreBudget
    /\ ~tryCacheAccess(p, type)
    /\ issueRequest(p, type)
    /\ UNCHANGED <<cache, latest, net, merged>>

(* Sequencer::makeRequest of a store that hits on the fast path; a load that *)
(* hits there changes nothing.                                               *)
FastPathStore(p) ==
    /\ "ST" \in CacheRequestType
    /\ isReady(p, "ST")
    /\ StoreBudget
    /\ tryCacheAccess(p, "ST")
    /\ cache' = [cache EXCEPT ![p] = StoreData(@)]
    /\ latest' = latest + 1
    /\ UNCHANGED <<net, merged, sequencerVars>>

(* The mandatory queue triggers the request's own event when the tag is in   *)
(* the primary array, or in none; a tag in the other L1 or in the L2 is      *)
(* first moved (L1_to_L2, L2_to_L1D, L2_to_L1I).                             *)
Triggers(p, type) ==
    /\ type \in requestQueue[p]
    /\ cache[p].loc \in {PrimaryArray(type), "none"}

LoadMiss(p, type) ==
    /\ type \in {"LD", "IFETCH"}
    /\ Triggers(p, type)
    /\ cache[p].state \in {"NP", "I"}
    /\ CacheTransition(p, allocateTBE(allocateL1(cache[p], PrimaryArray(type))), "IS",
                       {}, {issueGETS(p)})
    /\ popMandatoryQueue(p, type)
    /\ UNCHANGED <<latest, readRequestTable, writeRequestTable>>

LoadHit(p, type) ==
    /\ type \in {"LD", "IFETCH"}
    /\ Triggers(p, type)
    /\ cache[p].state \in {"S", "SM", "O_C", "O_D", "OM", "MM", "E", "M"}
    /\ popMandatoryQueue(p, type)
    /\ readCallback(p)
    /\ UNCHANGED <<cacheVars, net, merged>>

StoreMissState == [NP |-> "IM", I |-> "IM", S |-> "SM", O_C |-> "OM", O_D |-> "OM"]

StoreMiss(p) ==
    /\ Triggers(p, "ST")
    /\ cache[p].state \in DOMAIN StoreMissState
    /\ CacheTransition(p, allocateTBE(allocateL1(cache[p], "L1D")),
                       StoreMissState[cache[p].state], {}, {issueGETX(p)})
    /\ popMandatoryQueue(p, "ST")
    /\ UNCHANGED <<latest, readRequestTable, writeRequestTable>>

StoreHit(p) ==
    /\ Triggers(p, "ST")
    /\ cache[p].state \in {"E", "M", "MM"}
    /\ CacheTransition(p, StoreData(cache[p]), "MM", {}, {})
    /\ latest' = latest + 1
    /\ popMandatoryQueue(p, "ST")
    /\ writeCallback(p)

-----------------------------------------------------------------------------
(* Moves between the arrays.  A block leaves its L1 for the L2 because the   *)
(* request at the head of the mandatory queue needs it in the other L1, or   *)
(* because it is the victim of a request for another block; it leaves the L2 *)
(* because its own request needs it in an L1, or because it is the victim.   *)

Movable == {"I", "S", "O_C", "O_D", "E", "M", "MM"}

L1_to_L2(p) ==
    /\ cache[p].loc \in {"L1I", "L1D"}
    /\ cache[p].state \in Movable
    /\ cache' = [cache EXCEPT ![p].loc = "L2"]
    /\ UNCHANGED <<latest, net, merged, sequencerVars>>

L2_to_L1(p, type) ==
    /\ type \in requestQueue[p]
    /\ cache[p].loc = "L2"
    /\ cache[p].state \in Movable
    /\ cache' = [cache EXCEPT ![p].loc = PrimaryArray(type)]
    /\ UNCHANGED <<latest, net, merged, sequencerVars>>

SilentReplacement(p) ==
    /\ cache[p].loc = "L2"
    /\ cache[p].state \in {"I", "S"}
    /\ CacheTransition(p, deallocateL2(cache[p]), "I", {}, {})
    /\ UNCHANGED <<latest, sequencerVars>>

PutType == [O_D |-> "PUT_DIRTY", M |-> "PUT_DIRTY", MM |-> "PUT_DIRTY",
            O_C |-> "PUT_CLEAN", E |-> "PUT_CLEAN"]

OwnerReplacement(p) ==
    /\ cache[p].loc = "L2"
    /\ cache[p].state \in DOMAIN PutType
    /\ CacheTransition(p, deallocateL2(allocateTBE(cache[p])), "II",
                       {}, {issuePUT(p, PutType[cache[p].state])})
    /\ UNCHANGED <<latest, sequencerVars>>

-----------------------------------------------------------------------------
(* Forwarded requests.                                                       *)

(* Faulty variant: a shared copy is acknowledged but kept.                    *)
Inv_keepsCopy(p, m) ==
    /\ m.vnet = "forward" /\ m.type = "INV"
    /\ cache[p].state \in {"NP", "I", "S", "IM", "SM", "IS", "II"}
    /\ CacheTransition(p, cache[p], IF cache[p].state = "SM" THEN "IM" ELSE cache[p].state,
                       {m}, {sendAck(p, m)})
    /\ UNCHANGED <<latest, sequencerVars>>

Inv(p, m) ==
    /\ m.vnet = "forward" /\ m.type = "INV"
    /\ cache[p].state \in {"NP", "I", "S", "IM", "SM", "IS", "II"}
    /\ CacheTransition(p, cache[p],
                       CASE cache[p].state = "S"  -> "I"
                         [] cache[p].state = "SM" -> "IM"
                         [] OTHER -> cache[p].state,
                       {m}, {sendAck(p, m)})
    /\ UNCHANGED <<latest, sequencerVars>>

(* The owner answers from its cache entry, or from the TBE once replaced.    *)
SupplyingStates == {"O_C", "O_D", "MM", "E", "M", "OM", "II"}

OwnerData(p) == IF cache[p].state = "II" THEN cache[p].tbeData ELSE cache[p].data

Fwd_GETX(p, m) ==
    /\ m.vnet = "forward" /\ m.type = "GETX" /\ m.from # p
    /\ cache[p].state \in SupplyingStates
    /\ CacheTransition(p, cache[p],
                       CASE cache[p].state = "OM" -> "IM"
                         [] cache[p].state = "II" -> "II"
                         [] OTHER -> "I",
                       {m}, {sendData(p, "DATA", OwnerData(p), m)})
    /\ UNCHANGED <<latest, sequencerVars>>

Fwd_GETS(p, m) ==
    /\ m.vnet = "forward" /\ m.type = "GETS"
    /\ cache[p].state \in SupplyingStates
    /\ CacheTransition(p, cache[p],
                       CASE cache[p].state = "MM" -> "I"
                         [] cache[p].state = "M"  -> "O_D"
                         [] cache[p].state = "E"  -> "O_C"
                         [] OTHER -> cache[p].state,
                       {m},
                       {sendData(p, IF cache[p].state = "MM" THEN "DATA_EXCLUSIVE_DIRTY"
                                                             ELSE "DATA",
                                 OwnerData(p), m)})
    /\ UNCHANGED <<latest, sequencerVars>>

Own_GETX(p, m) ==
    /\ m.vnet = "forward" /\ m.type = "GETX" /\ m.from = p
    /\ cache[p].state = "OM"
    /\ CacheTransition(p, checkForCompletion(decrementNumberOfMessages(cache[p], m)), "OM",
                       {m}, {})
    /\ UNCHANGED <<latest, sequencerVars>>

-----------------------------------------------------------------------------
(* Responses.                                                                *)

Ack(p, m) ==
    /\ m.vnet = "response" /\ m.type = "ACK"
    /\ cache[p].state \in {"IM", "SM", "OM"}
    /\ CacheTransition(p, checkForCompletion(decrementNumberOfMessages(cache[p], m)),
                       cache[p].state, {m}, {})
    /\ UNCHANGED <<latest, sequencerVars>>

(* Data for a GETX.  In SM, writeDataToCacheVerify also asserts that the old *)
(* copy is the one received (AssertionsHold).                                *)
DataForStore(p, m) ==
    /\ m.vnet = "response" /\ m.type \in {"DATA", "DATA_EXCLUSIVE_CLEAN"}
    /\ cache[p].state \in {"IM", "SM"}
    /\ CacheTransition(p,
          checkForCompletion(decrementNumberOfMessages(writeDataToCache(cache[p], m), m)),
          "OM", {m}, {})
    /\ UNCHANGED <<latest, sequencerVars>>

(* Data for a GETS: the load completes and the directory is unblocked.       *)
LoadedState == [DATA |-> "S", DATA_EXCLUSIVE_CLEAN |-> "E", DATA_EXCLUSIVE_DIRTY |-> "M"]

DataForLoad(p, m) ==
    /\ m.vnet = "response" /\ m.type \in DOMAIN LoadedState
    /\ cache[p].state = "IS"
    /\ CacheTransition(p, deallocateTBE(writeDataToCache(cache[p], m)), LoadedState[m.type],
          {m}, {sendUnblock(p, IF m.type = "DATA" THEN "UNBLOCK" ELSE "UNBLOCK_EXCLUSIVE")})
    /\ readCallback(p)
    /\ UNCHANGED <<latest, requestQueue>>

Writeback_Ack(p, m) ==
    /\ m.vnet = "response" /\ m.type = "WB_ACK"
    /\ cache[p].state = "II"
    /\ CacheTransition(p, deallocateTBE(cache[p]), "I", {m}, {})
    /\ UNCHANGED <<latest, sequencerVars>>

(* The trigger queue: the store completes.                                   *)
All_acks(p) ==
    /\ cache[p].trigger > 0
    /\ cache[p].state = "OM"
    /\ CacheTransition(p, [deallocateTBE(StoreData(cache[p])) EXCEPT !.trigger = @ - 1], "MM",
                       {}, {sendUnblock(p, "UNBLOCK_EXCLUSIVE")})
    /\ latest' = latest + 1
    /\ writeCallback(p)
    /\ UNCHANGED requestQueue

-----------------------------------------------------------------------------
CacheReceive(p, m) ==
    \/ Inv(p, m)
    \/ Fwd_GETX(p, m)
    \/ Fwd_GETS(p, m)
    \/ Own_GETX(p, m)
    \/ Ack(p, m)
    \/ DataForStore(p, m)
    \/ DataForLoad(p, m)
    \/ Writeback_Ack(p, m)

CacheRequest(p) ==
    \/ \E type \in CacheRequestType : \/ MakeRequest(p, type)
                                      \/ LoadMiss(p, type)
                                      \/ LoadHit(p, type)
                                      \/ L2_to_L1(p, type)
    \/ FastPathStore(p)
    \/ StoreMiss(p)
    \/ StoreHit(p)
    \/ L1_to_L2(p)
    \/ SilentReplacement(p)
    \/ OwnerReplacement(p)

CacheNext ==
    \E p \in Proc :
        \/ CacheRequest(p)
        \/ All_acks(p)
        \/ \E m \in net : m.to = p /\ CacheReceive(p, m)

(* The states in which a message has a transition; in any other the          *)
(* generated code stops with "Invalid transition".                           *)
CacheExpects(p, m) ==
    CASE m.vnet = "forward" /\ m.type = "INV" ->
           {"NP", "I", "S", "IM", "SM", "IS", "II"}
      [] m.vnet = "forward" /\ m.type = "GETX" /\ m.from = p -> {"OM"}
      [] m.vnet = "forward" /\ m.type = "GETX" /\ m.from # p -> SupplyingStates
      [] m.vnet = "forward" /\ m.type = "GETS" -> SupplyingStates
      [] m.type = "ACK" -> {"IM", "SM", "OM"}
      [] m.type \in {"DATA", "DATA_EXCLUSIVE_CLEAN"} -> {"IM", "SM", "IS"}
      [] m.type = "DATA_EXCLUSIVE_DIRTY" -> {"IS"}
      [] m.type = "WB_ACK" -> {"II"}
      [] OTHER -> {}
=============================================================================
