------------------------ MODULE MOESIDirectory_proofs ------------------------
(* The safety of MOESI_directory for every set of processors, every       *)
(* number of outstanding requests and every number of stores. The         *)
(* inductive invariant names the transaction the directory serves by its  *)
(* phase and its requestor, and says what each phase implies for the      *)
(* caches, the messages in flight and the versions of the block.          *)
EXTENDS MOESIDirectory, FiniteSetTheorems, TLAPS

(* The kinds of messages: a request the directory forwarded to the owner, *)
(* an invalidation, the ack of one, the answer to a PUT, data, and the    *)
(* two UNBLOCKs.                                                          *)
IsForward(m) == m.vnet = "forward" /\ m.type # "INV"
IsInv(m)     == m.vnet = "forward" /\ m.type = "INV"
IsAck(m)     == m.vnet = "response" /\ m.type = "ACK"
IsWbAck(m)   == m.vnet = "response" /\ m.type = "WB_ACK"
IsData(m)    == m.vnet = "response" /\ m.type \notin {"ACK", "WB_ACK"}
IsUnblock(m) == m.vnet = "unblock"

(* The directory serves one GETS or GETX at a time. A phase says where    *)
(* that transaction is: idle - none; fwdS, fwdX - the GETS or GETX has    *)
(* been forwarded and is on its way to the owner; dataS, dataE, dataX -   *)
(* data for a GETS (shared, exclusive) or for a GETX is on its way to the *)
(* requestor r; acks - r has its data and collects the acks of the        *)
(* sharers; unbS, unbE - r has completed and its UNBLOCK or               *)
(* UNBLOCK_EXCLUSIVE is on its way. The code keeps neither the phase nor  *)
(* r: the invariant claims that they exist.                               *)
Phase == {"idle", "fwdS", "fwdX", "dataS", "dataE", "dataX", "acks", "unbS", "unbE"}

(* The states the directory can be in during a phase.                     *)
DirStates(ph) ==
    CASE ph = "idle"  -> {"I", "S", "O", "M"}
      [] ph = "fwdS"  -> {"OO", "MO"}
      [] ph = "fwdX"  -> {"OM", "MM"}
      [] ph = "dataS" -> {"SS", "OO", "MO"}
      [] ph = "dataE" -> {"IS", "MO"}
      [] ph \in {"dataX", "acks"} -> {"IM", "SM", "OM", "MM"}
      [] ph = "unbS"  -> {"SS", "OO", "MO"}
      [] ph = "unbE"  -> {"IM", "SM", "OM", "MM", "IS", "MO"}

(* The cache that owns the block, and must answer for it: the one the     *)
(* directory has recorded, unless the ownership is with the requestor     *)
(* already, or travels with the data.                                     *)
Own(ph, r) ==
    CASE ph = "unbE" -> {r}
      [] ph \in {"dataE", "dataX", "acks"} -> {}
      [] OTHER -> dir.owner

(* The owner has the only copy.                                           *)
Exclusive(ph) ==
    \/ ph = "unbE"
    \/ ph \in {"idle", "fwdS", "fwdX"} /\ dir.state \in {"M", "MO", "MM"}

(* A GETX that may still have invalidations or acks under way.            *)
Invalidating(ph) == ph \in {"fwdX", "dataX", "acks"}

(* The sharers whose ack the requestor has not received yet.              *)
Unacked == {q \in Proc : \E m \in net : (IsInv(m) /\ m.to = q) \/ (IsAck(m) /\ m.from = q)}

(* What the controllers put into the fields of their messages.            *)
MessagesOK ==
    \A m \in net :
        /\ m.vnet \in {"request", "forward", "response", "unblock"}
        /\ m.vnet \in {"request", "unblock"} => m.to = Dir
        /\ m.vnet \in {"forward", "response"} => m.to \in Proc
        /\ m.vnet \in {"request", "forward", "unblock"} => m.from \in Proc
        /\ m.vnet = "request" => m.type \in {"GETS", "GETX", "PUT_CLEAN", "PUT_DIRTY"}
        /\ m.vnet = "forward" => m.type \in {"GETS", "GETX", "INV"}
        /\ m.vnet = "response" => m.type \in {"ACK", "WB_ACK", "DATA", "DATA_EXCLUSIVE_CLEAN",
                                              "DATA_EXCLUSIVE_DIRTY"}
        /\ m.vnet = "unblock" => m.type \in {"UNBLOCK", "UNBLOCK_EXCLUSIVE"}
        /\ IsAck(m) => m.from \in Proc /\ m.acks = -1

(* A cache has at most one request under way, and waits for its answer.   *)
RequestsOK ==
    /\ \A m \in net : m.vnet = "request" =>
          /\ m.type = "GETS" => cache[m.from].state = "IS"
          /\ m.type = "GETX" => cache[m.from].state \in {"IM", "SM", "OM"}
          /\ m.type \in {"PUT_CLEAN", "PUT_DIRTY"} =>
                cache[m.from].state = "II" /\ m.data = cache[m.from].tbeData
    /\ \A m, n \in net :
          m.vnet = "request" /\ n.vnet = "request" /\ m.from = n.from => m = n

(* WB_ACK only reaches a cache that waits for it and no longer owns the   *)
(* block; no PUT is answered twice.                                       *)
WritebacksOK(ph, r) ==
    /\ \A m \in net : IsWbAck(m) => cache[m.to].state = "II" /\ m.to \notin Own(ph, r)
    /\ \A m, n \in net : IsWbAck(m) /\ IsWbAck(n) /\ m.to = n.to => m = n
    /\ \A m, n \in net : IsWbAck(m) /\ n.vnet = "request" => n.from # m.to

(* The TBE and the cache entry exist exactly in the states that use them. *)
RecordsOK ==
    \A p \in Proc :
        /\ cache[p].tbe <=> cache[p].state \in {"IM", "SM", "OM", "IS", "II"}
        /\ cache[p].loc = "none" <=> cache[p].state \in {"NP", "II"}

(* A request in the mandatory queue, or served by the cache, is in its    *)
(* table.                                                                 *)
SequencerOK ==
    \A p \in Proc :
        /\ "ST" \in requestQueue[p] => writeRequestTable[p] = "ST"
        /\ \A t \in {"LD", "IFETCH"} : t \in requestQueue[p] => readRequestTable[p] = t
        /\ cache[p].state \in {"IM", "SM", "OM"} =>
              writeRequestTable[p] = "ST" /\ "ST" \notin requestQueue[p]
        /\ cache[p].state = "IS" =>
              readRequestTable[p] # "none" /\ requestQueue[p] \cap {"LD", "IFETCH"} = {}

(* The owner and the sharers the directory records in each state.         *)
DirectoryOK ==
    /\ IsFiniteSet(dir.sharers)
    /\ dir.state \in {"I", "IS", "IM"} => dir.owner = {} /\ dir.sharers = {}
    /\ dir.state \in {"S", "SS", "SM"} => dir.owner = {} /\ dir.sharers # {}
    /\ dir.state \in {"O", "OO", "OM"} =>
          \E o \in Proc : dir.owner = {o} /\ o \notin dir.sharers /\ dir.sharers # {}
    /\ dir.state \in {"M", "MO", "MM"} =>
          \E o \in Proc : dir.owner = {o} /\ dir.sharers = {}

(* The transaction: at most one message carries it, for and from the      *)
(* right caches, with the count of acks the requestor has to collect.     *)
TransactionOK(ph, r) ==
    /\ dir.state \in DirStates(ph)
    /\ ph # "idle" => r \in Proc
    /\ \A m \in net : IsForward(m) =>
          /\ ph \in {"fwdS", "fwdX"}
          /\ m.type = IF ph = "fwdS" THEN "GETS" ELSE "GETX"
          /\ m.from = r
          /\ dir.owner = {m.to}
          /\ m.acks = Acks(r)
    /\ \A m \in net : IsData(m) =>
          /\ ph \in {"dataS", "dataE", "dataX"}
          /\ ph = "dataS" => m.type = "DATA"
          /\ ph = "dataE" => m.type = IF dir.state = "IS" THEN "DATA_EXCLUSIVE_CLEAN"
                                                          ELSE "DATA_EXCLUSIVE_DIRTY"
          /\ ph = "dataX" => /\ m.type = IF dir.state = "IM" THEN "DATA_EXCLUSIVE_CLEAN"
                                                           ELSE "DATA"
                             /\ m.acks = Acks(r)
          /\ m.to = r
          /\ m.data = latest
    /\ \A m \in net : IsUnblock(m) =>
          /\ ph = IF m.type = "UNBLOCK" THEN "unbS" ELSE "unbE"
          /\ m.from = r
    /\ \A m, n \in net : /\ IsForward(m) \/ IsData(m) \/ IsUnblock(m)
                         /\ IsForward(n) \/ IsData(n) \/ IsUnblock(n)
                         => m = n
    /\ ph \in {"dataS", "dataE", "dataX"} => \E m \in net : IsData(m)

(* The requestor waits, in the state the phase calls for.                 *)
RequestorOK(ph, r) ==
    /\ ph \in {"fwdS", "dataS", "dataE"} => cache[r].state = "IS"
    /\ ph = "fwdX" => cache[r].state \in (IF r \in dir.owner THEN {"OM"} ELSE {"IM", "SM"})
    /\ ph = "dataX" => cache[r].state \in {"IM", "SM"}
    /\ ph = "acks" => cache[r].state = "OM"
    /\ ph = "unbS" => r \notin dir.owner
    /\ ph \notin {"idle", "unbS", "unbE"} =>
          \A m \in net : m.vnet = "request" => m.from # r

(* Who has a copy: a shared copy is known to the directory, or an         *)
(* invalidation is on its way to it; any other one is the owner's.        *)
HoldersOK(ph, r) ==
    \A q \in Proc :
        /\ cache[q].state \in {"S", "SM"} =>
              /\ q \in dir.sharers \/ (ph = "unbS" /\ q = r)
              /\ ph # "unbE"
              /\ Invalidating(ph) /\ q # r => \E m \in net : IsInv(m) /\ m.to = q
        /\ cache[q].state \in {"E", "M", "MM", "O_C", "O_D"} => q \in Own(ph, r)
        /\ cache[q].state = "OM" => q \in Own(ph, r) \/ (ph = "acks" /\ q = r)
        /\ q \in Own(ph, r) =>
              cache[q].state \in (IF Exclusive(ph) THEN {"E", "M", "MM", "II"}
                                                   ELSE {"O_C", "O_D", "OM", "II"})

(* A sharer has an invalidation or its ack under way, never both or two.  *)
InvalidationsOK(ph, r) ==
    /\ \A m \in net : IsInv(m) => /\ Invalidating(ph)
                                  /\ m.from = r
                                  /\ m.to \in dir.sharers \ {r}
    /\ \A m \in net : IsAck(m) => /\ Invalidating(ph)
                                  /\ m.to = r
                                  /\ m.from \in dir.sharers \ {r}
    /\ \A m, n \in net : IsInv(m) /\ IsInv(n) /\ m.to = n.to => m = n
    /\ \A m, n \in net : IsAck(m) /\ IsAck(n) /\ m.from = n.from => m = n
    /\ \A m, n \in net : IsInv(m) /\ IsAck(n) => m.to # n.from

(* NumPendingMsgs counts the acks to come; once the data is there the     *)
(* count is complete, and ALL_ACKS is triggered exactly when it reaches   *)
(* zero.                                                                  *)
CountsOK(ph, r) ==
    \A p \in Proc :
        IF Invalidating(ph) /\ p = r
        THEN /\ cache[p].pending = (IF ph = "acks" THEN 0 ELSE Acks(r)) - Cardinality(Unacked)
             /\ cache[p].trigger = (IF ph = "acks" /\ Unacked = {} THEN 1 ELSE 0)
        ELSE cache[p].pending = 0 /\ cache[p].trigger = 0

(* Every copy that may be read or supplied, wherever it is, has the       *)
(* latest version, and so does the memory unless a dirty owner will write *)
(* it.                                                                    *)
DataOK(ph, r) ==
    /\ \A q \in Proc :
          /\ cache[q].state \in {"S", "SM", "O_C", "O_D", "OM", "E", "M", "MM"} =>
                cache[q].data = latest
          /\ cache[q].state = "II" /\ q \in Own(ph, r) => cache[q].tbeData = latest
          /\ cache[q].state \in {"E", "O_C"} => dir.data = latest
    /\ ph \in {"idle", "dataS", "unbS"} /\ dir.owner = {} => dir.data = latest
    /\ ph = "dataE" /\ dir.state = "IS" => dir.data = latest
    /\ \A m \in net : /\ m.vnet = "request" /\ m.type = "PUT_CLEAN"
                      /\ m.from \in dir.owner \cup Own(ph, r)
                      => m.data = dir.data
    /\ dir.data <= latest

(* The inductive invariant, for a phase and a requestor.                  *)
ProtocolInv(ph, r) ==
    /\ TypeOK
    /\ ~merged
    /\ MessagesOK
    /\ RequestsOK
    /\ WritebacksOK(ph, r)
    /\ RecordsOK
    /\ SequencerOK
    /\ DirectoryOK
    /\ TransactionOK(ph, r)
    /\ RequestorOK(ph, r)
    /\ HoldersOK(ph, r)
    /\ InvalidationsOK(ph, r)
    /\ CountsOK(ph, r)
    /\ DataOK(ph, r)

IInv == \E ph \in Phase, r \in Proc \cup {Dir} : ProtocolInv(ph, r)

------------------------------------------------------------------------------
(* Lemmas about the cache record.                                         *)

(* What the actions of the controller do to a cache record, field by      *)
(* field. i_allocateTBE saves the data of the entry in a TBE that counts  *)
(* nothing yet.                                                           *)
LEMMA AllocateTBE ==
  ASSUME NEW c \in CacheRecord
  PROVE  /\ allocateTBE(c) \in CacheRecord
         /\ allocateTBE(c).loc = c.loc
         /\ allocateTBE(c).state = c.state
         /\ allocateTBE(c).data = c.data
         /\ allocateTBE(c).tbe
         /\ allocateTBE(c).tbeData = c.data
         /\ allocateTBE(c).pending = 0
         /\ allocateTBE(c).trigger = c.trigger
<1>1. PICK d : d = [c EXCEPT !.tbe = TRUE]
  OBVIOUS
<1>2. /\ d \in CacheRecord
      /\ d.loc = c.loc /\ d.state = c.state /\ d.data = c.data /\ d.tbe
      /\ d.pending = c.pending /\ d.trigger = c.trigger
  BY <1>1 DEF CacheRecord
<1>3. PICK e : e = [d EXCEPT !.tbeData = c.data]
  OBVIOUS
<1>4. /\ e \in CacheRecord
      /\ e.loc = c.loc /\ e.state = c.state /\ e.data = c.data /\ e.tbe
      /\ e.tbeData = c.data /\ e.trigger = c.trigger
  BY <1>2, <1>3 DEF CacheRecord
<1>5. allocateTBE(c) = [e EXCEPT !.pending = 0]
  BY <1>1, <1>3 DEF allocateTBE
<1> QED
  BY <1>4, <1>5 DEF CacheRecord

(* s_deallocateTBE clears the TBE and keeps the entry.                    *)
LEMMA DeallocateTBE ==
  ASSUME NEW c \in CacheRecord
  PROVE  /\ deallocateTBE(c) \in CacheRecord
         /\ deallocateTBE(c).loc = c.loc
         /\ deallocateTBE(c).state = c.state
         /\ deallocateTBE(c).data = c.data
         /\ ~deallocateTBE(c).tbe
         /\ deallocateTBE(c).tbeData = 0
         /\ deallocateTBE(c).pending = 0
         /\ deallocateTBE(c).trigger = c.trigger
<1>1. PICK d : d = [c EXCEPT !.tbe = FALSE]
  OBVIOUS
<1>2. /\ d \in CacheRecord
      /\ d.loc = c.loc /\ d.state = c.state /\ d.data = c.data /\ ~d.tbe
      /\ d.pending = c.pending /\ d.trigger = c.trigger
  BY <1>1 DEF CacheRecord
<1>3. PICK e : e = [d EXCEPT !.tbeData = 0]
  OBVIOUS
<1>4. /\ e \in CacheRecord
      /\ e.loc = c.loc /\ e.state = c.state /\ e.data = c.data /\ ~e.tbe
      /\ e.tbeData = 0 /\ e.trigger = c.trigger
  BY <1>2, <1>3 DEF CacheRecord
<1>5. deallocateTBE(c) = [e EXCEPT !.pending = 0]
  BY <1>1, <1>3 DEF deallocateTBE
<1> QED
  BY <1>4, <1>5 DEF CacheRecord

(* ii_allocateL1DCacheBlock and jj_allocateL1ICacheBlock place the tag    *)
(* only.                                                                  *)
LEMMA AllocateL1 ==
  ASSUME NEW c \in CacheRecord, NEW a \in {"L1I", "L1D"}
  PROVE  /\ allocateL1(c, a) \in CacheRecord
         /\ allocateL1(c, a).loc = a
         /\ allocateL1(c, a).state = c.state
         /\ allocateL1(c, a).data = c.data
         /\ allocateL1(c, a).tbe = c.tbe
         /\ allocateL1(c, a).tbeData = c.tbeData
         /\ allocateL1(c, a).pending = c.pending
         /\ allocateL1(c, a).trigger = c.trigger
BY DEF CacheRecord, allocateL1

(* pp_deallocateL2CacheBlock drops the tag and the data and keeps the     *)
(* TBE.                                                                   *)
LEMMA DeallocateL2 ==
  ASSUME NEW c \in CacheRecord
  PROVE  /\ deallocateL2(c) \in CacheRecord
         /\ deallocateL2(c).loc = "none"
         /\ deallocateL2(c).state = c.state
         /\ deallocateL2(c).data = 0
         /\ deallocateL2(c).tbe = c.tbe
         /\ deallocateL2(c).tbeData = c.tbeData
         /\ deallocateL2(c).pending = c.pending
         /\ deallocateL2(c).trigger = c.trigger
BY DEF CacheRecord, deallocateL2

(* u_writeDataToCache takes the data of the message.                      *)
LEMMA WriteData ==
  ASSUME NEW c \in CacheRecord, NEW m, m.data \in Nat
  PROVE  /\ writeDataToCache(c, m) \in CacheRecord
         /\ writeDataToCache(c, m).loc = c.loc
         /\ writeDataToCache(c, m).state = c.state
         /\ writeDataToCache(c, m).data = m.data
         /\ writeDataToCache(c, m).tbe = c.tbe
         /\ writeDataToCache(c, m).tbeData = c.tbeData
         /\ writeDataToCache(c, m).pending = c.pending
         /\ writeDataToCache(c, m).trigger = c.trigger
BY DEF CacheRecord, writeDataToCache

(* m_decrementNumberOfMessages subtracts the acks a message carries; an   *)
(* ACK carries -1.                                                        *)
LEMMA Decrement ==
  ASSUME NEW c \in CacheRecord, NEW m, m.acks \in Int
  PROVE  /\ decrementNumberOfMessages(c, m) \in CacheRecord
         /\ decrementNumberOfMessages(c, m).loc = c.loc
         /\ decrementNumberOfMessages(c, m).state = c.state
         /\ decrementNumberOfMessages(c, m).data = c.data
         /\ decrementNumberOfMessages(c, m).tbe = c.tbe
         /\ decrementNumberOfMessages(c, m).tbeData = c.tbeData
         /\ decrementNumberOfMessages(c, m).pending = c.pending - m.acks
         /\ decrementNumberOfMessages(c, m).trigger = c.trigger
BY DEF CacheRecord, decrementNumberOfMessages

(* o_checkForCompletion enqueues ALL_ACKS when nothing is pending.        *)
LEMMA CheckForCompletion ==
  ASSUME NEW c \in CacheRecord
  PROVE  /\ checkForCompletion(c) \in CacheRecord
         /\ checkForCompletion(c).loc = c.loc
         /\ checkForCompletion(c).state = c.state
         /\ checkForCompletion(c).data = c.data
         /\ checkForCompletion(c).tbe = c.tbe
         /\ checkForCompletion(c).tbeData = c.tbeData
         /\ checkForCompletion(c).pending = c.pending
         /\ checkForCompletion(c).trigger = IF c.pending = 0 THEN c.trigger + 1 ELSE c.trigger
BY DEF CacheRecord, checkForCompletion

(* The store writes the next version into the entry.                      *)
LEMMA StoreRecord ==
  ASSUME NEW c \in CacheRecord, latest \in Nat
  PROVE  /\ StoreData(c) \in CacheRecord
         /\ StoreData(c).loc = c.loc
         /\ StoreData(c).state = c.state
         /\ StoreData(c).data = latest + 1
         /\ StoreData(c).tbe = c.tbe
         /\ StoreData(c).tbeData = c.tbeData
         /\ StoreData(c).pending = c.pending
         /\ StoreData(c).trigger = c.trigger
BY DEF CacheRecord, StoreData

(* setState writes the state where there is an entry or a TBE to hold it. *)
LEMMA SetState ==
  ASSUME NEW c \in CacheRecord, NEW s \in CacheState
  PROVE  /\ setState(c, s) \in CacheRecord
         /\ c.loc # "none" => setState(c, s).state = s
         /\ c.tbe => setState(c, s).state = s
         /\ ~c.tbe /\ c.loc = "none" => setState(c, s).state = "NP"
         /\ setState(c, s).loc = c.loc
         /\ setState(c, s).data = c.data
         /\ setState(c, s).tbe = c.tbe
         /\ setState(c, s).tbeData = c.tbeData
         /\ setState(c, s).pending = c.pending
         /\ setState(c, s).trigger = c.trigger
BY DEF CacheRecord, setState, CacheState

(* The end of a transition changes the record of its own controller only. *)
LEMMA Transition ==
  ASSUME cache \in [Proc -> CacheRecord], NEW p \in Proc, NEW c \in CacheRecord,
         NEW s \in CacheState, NEW popped, NEW sent, CacheTransition(p, c, s, popped, sent)
  PROVE  /\ cache' \in [Proc -> CacheRecord]
         /\ \A q \in Proc : q # p => cache'[q] = cache[q]
         /\ cache'[p] = setState(c, s)
<1>1. PICK d : d = setState(c, s)
  OBVIOUS
<1>2. d \in CacheRecord /\ cache' = [cache EXCEPT ![p] = d]
  BY <1>1, SetState DEF CacheTransition
<1> QED
  BY <1>1, <1>2

------------------------------------------------------------------------------
(* One lemma for each transition. First the requests of a processor and   *)
(* the replacements.                                                      *)

(* A load or fetch that misses: the GETS is the only request of its       *)
(* cache.                                                                 *)
LEMMA LoadMissStep ==
  ASSUME NEW ph \in Phase, NEW r \in Proc \cup {Dir}, ProtocolInv(ph, r),
         NEW p \in Proc, NEW type, LoadMiss(p, type), UNCHANGED dir
  PROVE  ProtocolInv(ph, r)'
<1> DEFINE n == issueGETS(p)
<1>1. /\ n \in Message /\ n.vnet = "request" /\ n.type = "GETS"
      /\ n.from = p /\ n.to = Dir
  BY DEF issueGETS, RequestMsg, Message, VirtualNetwork, CoherenceRequestType,
         CoherenceResponseType
<1>2. /\ cache[p].state \in {"NP", "I"} /\ type \in {"LD", "IFETCH"}
      /\ type \in requestQueue[p]
      /\ net' = net \cup {n} /\ merged' = (merged \/ net \cap {n} # {})
      /\ requestQueue' = [requestQueue EXCEPT ![p] = @ \ {type}]
      /\ UNCHANGED <<latest, readRequestTable, writeRequestTable, dir>>
  BY DEF LoadMiss, CacheTransition, Transmit, popMandatoryQueue, Triggers
<1>3. /\ cache' \in [Proc -> CacheRecord]
      /\ \A q \in Proc : q # p => cache'[q] = cache[q]
      /\ cache'[p].state = "IS" /\ cache'[p].tbe /\ cache'[p].loc # "none"
      /\ cache'[p].data = cache[p].data
      /\ cache'[p].pending = 0 /\ cache'[p].trigger = cache[p].trigger
  <2>1. cache[p] \in CacheRecord /\ cache \in [Proc -> CacheRecord]
    BY DEF ProtocolInv, TypeOK
  <2>2. PICK c : c = allocateL1(cache[p], PrimaryArray(type))
    OBVIOUS
  <2>3. /\ c \in CacheRecord /\ c.loc # "none" /\ c.data = cache[p].data
        /\ c.trigger = cache[p].trigger
    BY <2>1, <2>2, AllocateL1 DEF PrimaryArray
  <2>4. PICK d : d = allocateTBE(c)
    OBVIOUS
  <2>5. /\ d \in CacheRecord /\ d.tbe /\ d.loc # "none"
        /\ d.data = cache[p].data /\ d.pending = 0 /\ d.trigger = cache[p].trigger
    BY <2>3, <2>4, AllocateTBE
  <2>6. CacheTransition(p, d, "IS", {}, {n})
    BY <2>2, <2>4 DEF LoadMiss
  <2>7. "IS" \in CacheState
    BY DEF CacheState
  <2> QED
    BY <2>1, <2>5, <2>6, <2>7, Transition, SetState
<1> USE DEF ProtocolInv
<1>4. TypeOK' /\ ~merged'
  BY <1>1, <1>2, <1>3 DEF TypeOK, SequencerTypeOK, DirectoryTypeOK, RequestsOK
<1>5. MessagesOK'
  BY <1>1, <1>2 DEF MessagesOK, IsAck
<1>6. RequestsOK'
  BY <1>1, <1>2, <1>3 DEF RequestsOK, TypeOK, MessagesOK
<1>7. WritebacksOK(ph, r)'
  BY <1>1, <1>2, <1>3 DEF WritebacksOK, TypeOK, MessagesOK, IsWbAck, Own
<1>8. RecordsOK'
  BY <1>3 DEF RecordsOK, TypeOK
<1>9. SequencerOK'
  BY <1>2, <1>3 DEF SequencerOK, TypeOK, SequencerTypeOK
<1>10. DirectoryOK'
  BY <1>2 DEF DirectoryOK
<1>11. TransactionOK(ph, r)'
  BY <1>1, <1>2 DEF TransactionOK, IsForward, IsData, IsUnblock, Acks
<1>12. RequestorOK(ph, r)'
  <2>1. ph \notin {"idle", "unbS", "unbE"} => r \in Proc /\ r # p
    BY <1>2 DEF RequestorOK, TransactionOK, Phase
  <2> QED
    BY <2>1, <1>1, <1>2, <1>3 DEF RequestorOK, Phase
<1>13. HoldersOK(ph, r)'
  BY <1>1, <1>2, <1>3 DEF HoldersOK, TypeOK, Own, Exclusive, IsInv
<1>14. InvalidationsOK(ph, r)'
  BY <1>1, <1>2 DEF InvalidationsOK, IsInv, IsAck
<1>15. CountsOK(ph, r)'
  <2>1. Unacked' = Unacked
    BY <1>1, <1>2 DEF Unacked, IsInv, IsAck
  <2> QED
    BY <2>1, <1>2, <1>3 DEF CountsOK, TypeOK, RequestorOK, Acks, Invalidating
<1>16. DataOK(ph, r)'
  BY <1>1, <1>2, <1>3 DEF DataOK, TypeOK, Own
<1> QED
  BY <1>4, <1>5, <1>6, <1>7, <1>8, <1>9, <1>10, <1>11, <1>12, <1>13, <1>14, <1>15, <1>16

(* A step that touches neither a message nor the coherence fields of a    *)
(* cache keeps the invariant.                                             *)
LEMMA Frame ==
  ASSUME NEW ph \in Phase, NEW r \in Proc \cup {Dir}, ProtocolInv(ph, r),
         UNCHANGED <<dir, net, merged, latest>>,
         TypeOK', RecordsOK', SequencerOK',
         \A q \in Proc : /\ cache'[q].state = cache[q].state
                         /\ cache'[q].data = cache[q].data
                         /\ cache'[q].tbeData = cache[q].tbeData
                         /\ cache'[q].pending = cache[q].pending
                         /\ cache'[q].trigger = cache[q].trigger
  PROVE  ProtocolInv(ph, r)'
<1> USE DEF ProtocolInv
<1>1. MessagesOK' /\ DirectoryOK'
  BY DEF MessagesOK, IsAck, DirectoryOK
<1>2. RequestsOK'
  BY DEF RequestsOK, MessagesOK
<1>3. WritebacksOK(ph, r)'
  BY DEF WritebacksOK, MessagesOK, IsWbAck, Own
<1>4. TransactionOK(ph, r)'
  BY DEF TransactionOK, IsForward, IsData, IsUnblock, Acks
<1>5. RequestorOK(ph, r)'
  BY DEF RequestorOK, TransactionOK, Phase
<1>6. HoldersOK(ph, r)'
  BY DEF HoldersOK, Own, Exclusive, IsInv
<1>7. InvalidationsOK(ph, r)'
  BY DEF InvalidationsOK, IsInv, IsAck
<1>8. CountsOK(ph, r)'
  BY DEF CountsOK, Acks, Invalidating, Unacked, IsInv, IsAck
<1>9. DataOK(ph, r)'
  BY DEF DataOK, Own
<1> QED
  BY <1>1, <1>2, <1>3, <1>4, <1>5, <1>6, <1>7, <1>8, <1>9

(* The sequencer's makeRequest only fills the tables and the queue.       *)
LEMMA MakeRequestStep ==
  ASSUME NEW ph \in Phase, NEW r \in Proc \cup {Dir}, ProtocolInv(ph, r),
         NEW p \in Proc, NEW type \in CacheRequestType, MakeRequest(p, type), UNCHANGED dir
  PROVE  ProtocolInv(ph, r)'
<1> USE DEF ProtocolInv
<1>1. type \in {"LD", "IFETCH", "ST"}
  BY SequencerAssumption
<1>2. TypeOK'
  BY <1>1 DEF TypeOK, SequencerTypeOK, DirectoryTypeOK, MakeRequest, issueRequest
<1>3. RecordsOK'
  BY DEF RecordsOK, MakeRequest
<1>4. SequencerOK'
  BY <1>1 DEF SequencerOK, TypeOK, SequencerTypeOK, MakeRequest, issueRequest, isReady
<1> QED
  BY <1>2, <1>3, <1>4, Frame DEF MakeRequest

(* A load that hits completes in the sequencer.                           *)
LEMMA LoadHitStep ==
  ASSUME NEW ph \in Phase, NEW r \in Proc \cup {Dir}, ProtocolInv(ph, r),
         NEW p \in Proc, NEW type, LoadHit(p, type), UNCHANGED dir
  PROVE  ProtocolInv(ph, r)'
<1> USE DEF ProtocolInv
<1>1. TypeOK'
  BY DEF TypeOK, SequencerTypeOK, DirectoryTypeOK, LoadHit, readCallback, popMandatoryQueue,
         cacheVars
<1>2. RecordsOK'
  BY DEF RecordsOK, LoadHit, cacheVars
<1>3. SequencerOK'
  BY DEF SequencerOK, TypeOK, SequencerTypeOK, LoadHit, readCallback, popMandatoryQueue,
         Triggers, cacheVars
<1> QED
  BY <1>1, <1>2, <1>3, Frame DEF LoadHit, cacheVars

(* A move between the cache arrays keeps state and data.                  *)
LEMMA MoveStep ==
  ASSUME NEW ph \in Phase, NEW r \in Proc \cup {Dir}, ProtocolInv(ph, r),
         NEW p \in Proc, UNCHANGED dir,
         L1_to_L2(p) \/ \E type \in CacheRequestType : L2_to_L1(p, type)
  PROVE  ProtocolInv(ph, r)'
<1> USE DEF ProtocolInv
<1>1. PICK a \in {"L1I", "L1D", "L2"} : cache' = [cache EXCEPT ![p].loc = a]
  BY DEF L1_to_L2, L2_to_L1, PrimaryArray
<1>2. UNCHANGED <<latest, net, merged, sequencerVars>> /\ cache[p].loc # "none"
  BY DEF L1_to_L2, L2_to_L1
<1>3. PICK d : d = [cache[p] EXCEPT !.loc = a]
  OBVIOUS
<1>4. /\ cache[p] \in CacheRecord /\ d \in CacheRecord
      /\ d.loc = a /\ d.state = cache[p].state /\ d.data = cache[p].data
      /\ d.tbe = cache[p].tbe /\ d.tbeData = cache[p].tbeData
      /\ d.pending = cache[p].pending /\ d.trigger = cache[p].trigger
  BY <1>3 DEF CacheRecord, TypeOK
<1>5. /\ cache' \in [Proc -> CacheRecord]
      /\ cache'[p] = d
      /\ \A q \in Proc : q # p => cache'[q] = cache[q]
  BY <1>1, <1>3, <1>4 DEF TypeOK
<1>6. TypeOK'
  BY <1>2, <1>5 DEF TypeOK, SequencerTypeOK, DirectoryTypeOK, sequencerVars
<1>7. RecordsOK'
  BY <1>2, <1>4, <1>5 DEF RecordsOK
<1>8. SequencerOK'
  BY <1>2, <1>4, <1>5 DEF SequencerOK, sequencerVars
<1> QED
  BY <1>2, <1>4, <1>5, <1>6, <1>7, <1>8, Frame

(* A store that misses: the GETX is the only request of its cache, and    *)
(* the copy it upgrades keeps its duties towards the directory.           *)
LEMMA StoreMissStep ==
  ASSUME NEW ph \in Phase, NEW r \in Proc \cup {Dir}, ProtocolInv(ph, r),
         NEW p \in Proc, StoreMiss(p), UNCHANGED dir
  PROVE  ProtocolInv(ph, r)'
<1> DEFINE n == issueGETX(p)
<1>1. /\ n \in Message /\ n.vnet = "request" /\ n.type = "GETX"
      /\ n.from = p /\ n.to = Dir
  BY DEF issueGETX, RequestMsg, Message, VirtualNetwork, CoherenceRequestType,
         CoherenceResponseType
<1>2. /\ cache[p].state \in {"NP", "I", "S", "O_C", "O_D"}
      /\ "ST" \in requestQueue[p]
      /\ net' = net \cup {n} /\ merged' = (merged \/ net \cap {n} # {})
      /\ requestQueue' = [requestQueue EXCEPT ![p] = @ \ {"ST"}]
      /\ UNCHANGED <<latest, readRequestTable, writeRequestTable, dir>>
  BY DEF StoreMiss, CacheTransition, Transmit, popMandatoryQueue, Triggers, StoreMissState
<1>3. /\ cache' \in [Proc -> CacheRecord]
      /\ \A q \in Proc : q # p => cache'[q] = cache[q]
      /\ cache'[p].state \in {"IM", "SM", "OM"}
      /\ cache'[p].state = "SM" <=> cache[p].state = "S"
      /\ cache'[p].state = "OM" <=> cache[p].state \in {"O_C", "O_D"}
      /\ cache'[p].tbe /\ cache'[p].loc # "none"
      /\ cache'[p].data = cache[p].data
      /\ cache'[p].pending = 0 /\ cache'[p].trigger = cache[p].trigger
  <2>1. cache[p] \in CacheRecord /\ cache \in [Proc -> CacheRecord]
    BY DEF ProtocolInv, TypeOK
  <2>2. PICK c : c = allocateL1(cache[p], "L1D")
    OBVIOUS
  <2>3. /\ c \in CacheRecord /\ c.loc # "none" /\ c.data = cache[p].data
        /\ c.trigger = cache[p].trigger
    BY <2>1, <2>2, AllocateL1
  <2>4. PICK d : d = allocateTBE(c)
    OBVIOUS
  <2>5. /\ d \in CacheRecord /\ d.tbe /\ d.loc # "none"
        /\ d.data = cache[p].data /\ d.pending = 0 /\ d.trigger = cache[p].trigger
    BY <2>3, <2>4, AllocateTBE
  <2>6. PICK s : s = StoreMissState[cache[p].state]
    OBVIOUS
  <2>7. CacheTransition(p, d, s, {}, {n})
    BY <2>2, <2>4, <2>6 DEF StoreMiss
  <2>8. /\ s \in CacheState /\ s \in {"IM", "SM", "OM"}
        /\ s = "SM" <=> cache[p].state = "S"
        /\ s = "OM" <=> cache[p].state \in {"O_C", "O_D"}
    BY <1>2, <2>6 DEF CacheState, StoreMissState
  <2> QED
    BY <2>1, <2>5, <2>7, <2>8, Transition, SetState
<1> USE DEF ProtocolInv
<1>4. TypeOK' /\ ~merged'
  BY <1>1, <1>2, <1>3 DEF TypeOK, SequencerTypeOK, DirectoryTypeOK, RequestsOK
<1>5. MessagesOK' /\ DirectoryOK'
  BY <1>1, <1>2 DEF MessagesOK, IsAck, DirectoryOK
<1>6. RequestsOK'
  BY <1>1, <1>2, <1>3 DEF RequestsOK, TypeOK, MessagesOK
<1>7. WritebacksOK(ph, r)'
  BY <1>1, <1>2, <1>3 DEF WritebacksOK, TypeOK, MessagesOK, IsWbAck, Own
<1>8. RecordsOK'
  BY <1>3 DEF RecordsOK, TypeOK
<1>9. SequencerOK'
  BY <1>2, <1>3 DEF SequencerOK, TypeOK, SequencerTypeOK
<1>10. ph \notin {"idle", "unbS", "unbE"} => r \in Proc /\ r # p
  BY <1>2 DEF RequestorOK, TransactionOK, Phase
<1>11. TransactionOK(ph, r)'
  BY <1>1, <1>2 DEF TransactionOK, IsForward, IsData, IsUnblock, Acks
<1>12. RequestorOK(ph, r)'
  BY <1>1, <1>2, <1>3, <1>10 DEF RequestorOK, Phase
<1>13. HoldersOK(ph, r)'
  BY <1>1, <1>2, <1>3 DEF HoldersOK, TypeOK, Own, Exclusive, IsInv
<1>14. InvalidationsOK(ph, r)'
  BY <1>1, <1>2 DEF InvalidationsOK, IsInv, IsAck
<1>15. CountsOK(ph, r)'
  <2>1. Unacked' = Unacked
    BY <1>1, <1>2 DEF Unacked, IsInv, IsAck
  <2> QED
    BY <2>1, <1>2, <1>3, <1>10 DEF CountsOK, TypeOK, Acks, Invalidating
<1>16. DataOK(ph, r)'
  BY <1>1, <1>2, <1>3 DEF DataOK, TypeOK, Own
<1> QED
  BY <1>4, <1>5, <1>6, <1>7, <1>8, <1>9, <1>11, <1>12, <1>13, <1>14, <1>15, <1>16

(* A shared copy may disappear without a message: the directory then      *)
(* knows a sharer too many, never one too few.                            *)
LEMMA SilentReplacementStep ==
  ASSUME NEW ph \in Phase, NEW r \in Proc \cup {Dir}, ProtocolInv(ph, r),
         NEW p \in Proc, SilentReplacement(p), UNCHANGED dir
  PROVE  ProtocolInv(ph, r)'
<1> USE DEF ProtocolInv
<1>1. /\ cache[p].state \in {"I", "S"}
      /\ net' = net /\ merged' = merged
      /\ UNCHANGED <<latest, readRequestTable, writeRequestTable, requestQueue, dir>>
  BY DEF SilentReplacement, CacheTransition, Transmit, sequencerVars, TypeOK
<1>2. /\ cache' \in [Proc -> CacheRecord]
      /\ \A q \in Proc : q # p => cache'[q] = cache[q]
      /\ cache'[p].state = "NP" /\ ~cache'[p].tbe /\ cache'[p].loc = "none"
      /\ cache'[p].pending = cache[p].pending /\ cache'[p].trigger = cache[p].trigger
  <2>1. cache[p] \in CacheRecord /\ cache \in [Proc -> CacheRecord] /\ ~cache[p].tbe
    BY <1>1 DEF TypeOK, RecordsOK
  <2>2. PICK c : c = deallocateL2(cache[p])
    OBVIOUS
  <2>3. /\ c \in CacheRecord /\ c.loc = "none" /\ ~c.tbe
        /\ c.pending = cache[p].pending /\ c.trigger = cache[p].trigger
    BY <2>1, <2>2, DeallocateL2
  <2>4. CacheTransition(p, c, "I", {}, {}) /\ "I" \in CacheState
    BY <2>2 DEF SilentReplacement, CacheState
  <2> QED
    BY <2>1, <2>3, <2>4, Transition, SetState
<1>3. TypeOK' /\ ~merged'
  BY <1>1, <1>2 DEF TypeOK, SequencerTypeOK, DirectoryTypeOK
<1>4. MessagesOK' /\ DirectoryOK' /\ TransactionOK(ph, r)' /\ InvalidationsOK(ph, r)'
  <2>1. MessagesOK' /\ DirectoryOK' /\ InvalidationsOK(ph, r)'
    BY <1>1 DEF MessagesOK, DirectoryOK, InvalidationsOK, IsInv, IsAck
  <2>2. TransactionOK(ph, r)'
    BY <1>1 DEF TransactionOK, IsForward, IsData, IsUnblock, Acks
  <2> QED
    BY <2>1, <2>2
<1>5. RequestsOK'
  BY <1>1, <1>2 DEF RequestsOK, MessagesOK
<1>6. WritebacksOK(ph, r)'
  BY <1>1, <1>2 DEF WritebacksOK, MessagesOK, IsWbAck, Own
<1>7. RecordsOK'
  BY <1>2 DEF RecordsOK
<1>8. SequencerOK'
  BY <1>1, <1>2 DEF SequencerOK
<1>9. ph \notin {"idle", "unbS", "unbE"} => r \in Proc /\ r # p
  BY <1>1 DEF RequestorOK, TransactionOK, Phase
<1>10. RequestorOK(ph, r)'
  BY <1>1, <1>2, <1>9 DEF RequestorOK, Phase
<1>11. HoldersOK(ph, r)'
  BY <1>1, <1>2 DEF HoldersOK, Own, Exclusive, IsInv
<1>12. CountsOK(ph, r)'
  <2>1. Unacked' = Unacked
    BY <1>1 DEF Unacked, IsInv, IsAck
  <2> QED
    BY <2>1, <1>1, <1>2 DEF CountsOK, Acks, Invalidating
<1>13. DataOK(ph, r)'
  BY <1>1, <1>2 DEF DataOK, Own
<1> QED
  BY <1>3, <1>4, <1>5, <1>6, <1>7, <1>8, <1>10, <1>11, <1>12, <1>13

(* The owner moves its data to the TBE before it sends the PUT, so that   *)
(* it can still answer a request that crosses the PUT.                    *)
LEMMA OwnerReplacementStep ==
  ASSUME NEW ph \in Phase, NEW r \in Proc \cup {Dir}, ProtocolInv(ph, r),
         NEW p \in Proc, OwnerReplacement(p), UNCHANGED dir
  PROVE  ProtocolInv(ph, r)'
<1> DEFINE n == issuePUT(p, PutType[cache[p].state])
<1> USE DEF ProtocolInv
<1>1. cache[p] \in CacheRecord /\ cache \in [Proc -> CacheRecord]
  BY DEF TypeOK
<1>2. cache[p].state \in {"O_D", "M", "MM", "O_C", "E"}
  BY DEF OwnerReplacement, PutType
<1>3. /\ PutType[cache[p].state] \in {"PUT_CLEAN", "PUT_DIRTY"}
      /\ PutType[cache[p].state] = "PUT_CLEAN" => cache[p].state \in {"O_C", "E"}
  BY <1>2 DEF PutType
<1>4. /\ n \in Message /\ n.vnet = "request" /\ n.type \in {"PUT_CLEAN", "PUT_DIRTY"}
      /\ n.type = "PUT_CLEAN" => cache[p].state \in {"O_C", "E"}
      /\ n.from = p /\ n.to = Dir /\ n.data = cache[p].data
  BY <1>1, <1>3 DEF issuePUT, RequestMsg, Message, VirtualNetwork, CoherenceRequestType,
         CoherenceResponseType, CacheRecord
<1>5. /\ net' = net \cup {n} /\ merged' = (merged \/ net \cap {n} # {})
      /\ UNCHANGED <<latest, readRequestTable, writeRequestTable, requestQueue, dir>>
  BY DEF OwnerReplacement, CacheTransition, Transmit, sequencerVars
<1>6. /\ cache' \in [Proc -> CacheRecord]
      /\ \A q \in Proc : q # p => cache'[q] = cache[q]
      /\ cache'[p].state = "II" /\ cache'[p].tbe /\ cache'[p].loc = "none"
      /\ cache'[p].tbeData = cache[p].data
      /\ cache'[p].pending = 0 /\ cache'[p].trigger = cache[p].trigger
  <2>1. PICK c : c = allocateTBE(cache[p])
    OBVIOUS
  <2>2. /\ c \in CacheRecord /\ c.tbe /\ c.tbeData = cache[p].data
        /\ c.pending = 0 /\ c.trigger = cache[p].trigger
    BY <1>1, <2>1, AllocateTBE
  <2>3. PICK d : d = deallocateL2(c)
    OBVIOUS
  <2>4. /\ d \in CacheRecord /\ d.tbe /\ d.tbeData = cache[p].data /\ d.loc = "none"
        /\ d.pending = 0 /\ d.trigger = cache[p].trigger
    BY <2>2, <2>3, DeallocateL2
  <2>5. CacheTransition(p, d, "II", {}, {n}) /\ "II" \in CacheState
    BY <2>1, <2>3 DEF OwnerReplacement, CacheState
  <2> QED
    BY <1>1, <2>4, <2>5, Transition, SetState
<1>7. TypeOK' /\ ~merged'
  BY <1>2, <1>4, <1>5, <1>6 DEF TypeOK, SequencerTypeOK, DirectoryTypeOK, RequestsOK
<1>8. MessagesOK' /\ DirectoryOK'
  BY <1>4, <1>5 DEF MessagesOK, IsAck, DirectoryOK
<1>9. RequestsOK'
  BY <1>2, <1>4, <1>5, <1>6 DEF RequestsOK, MessagesOK
<1>10. WritebacksOK(ph, r)'
  BY <1>2, <1>4, <1>5, <1>6 DEF WritebacksOK, MessagesOK, IsWbAck, Own
<1>11. RecordsOK'
  BY <1>6 DEF RecordsOK
<1>12. SequencerOK'
  BY <1>2, <1>5, <1>6 DEF SequencerOK
<1>13. ph \notin {"idle", "unbS", "unbE"} => r \in Proc /\ r # p
  BY <1>2 DEF RequestorOK, TransactionOK, Phase
<1>14. TransactionOK(ph, r)'
  BY <1>4, <1>5 DEF TransactionOK, IsForward, IsData, IsUnblock, Acks
<1>15. RequestorOK(ph, r)'
  BY <1>4, <1>5, <1>6, <1>13 DEF RequestorOK, Phase
<1>16. HoldersOK(ph, r)'
  BY <1>2, <1>4, <1>5, <1>6 DEF HoldersOK, Own, Exclusive, IsInv
<1>17. InvalidationsOK(ph, r)'
  BY <1>4, <1>5 DEF InvalidationsOK, IsInv, IsAck
<1>18. CountsOK(ph, r)'
  <2>1. Unacked' = Unacked
    BY <1>4, <1>5 DEF Unacked, IsInv, IsAck
  <2> QED
    BY <2>1, <1>5, <1>6, <1>13 DEF CountsOK, Acks, Invalidating
<1>19. DataOK(ph, r)'
  BY <1>2, <1>4, <1>5, <1>6 DEF DataOK, Own
<1> QED
  BY <1>7, <1>8, <1>9, <1>10, <1>11, <1>12, <1>14, <1>15, <1>16, <1>17, <1>18, <1>19

(* There is at most one owner.                                            *)
LEMMA OwnAtMostOne ==
  ASSUME NEW ph \in Phase, NEW r \in Proc \cup {Dir}, ProtocolInv(ph, r),
         NEW p \in Own(ph, r)
  PROVE  Own(ph, r) = {p} /\ p \in Proc
<1>1. CASE ph = "unbE"
  BY <1>1 DEF Own, ProtocolInv, TransactionOK
<1>2. CASE ph \in {"dataE", "dataX", "acks"}
  BY <1>2 DEF Own
<1>3. CASE ph \notin {"unbE", "dataE", "dataX", "acks"}
  <2>1. p \in dir.owner /\ Own(ph, r) = dir.owner
    BY <1>3 DEF Own
  <2>2. dir.state \in DirectoryState
    BY DEF ProtocolInv, TypeOK, DirectoryTypeOK
  <2>3. \E o \in Proc : dir.owner = {o}
    BY <2>1, <2>2 DEF ProtocolInv, DirectoryOK, DirectoryState
  <2> QED
    BY <2>1, <2>3
<1> QED
  BY <1>1, <1>2, <1>3

(* While a cache can write without asking, no other cache has a copy.     *)
LEMMA SoleHolder ==
  ASSUME NEW ph \in Phase, NEW r \in Proc \cup {Dir}, ProtocolInv(ph, r),
         NEW p \in Proc, cache[p].state \in {"E", "M", "MM"}
  PROVE  /\ Own(ph, r) = {p}
         /\ Exclusive(ph)
         /\ ph \in {"idle", "fwdS", "fwdX", "unbE"}
         /\ \A q \in Proc : q # p =>
               cache[q].state \notin {"S", "SM", "O_C", "O_D", "OM", "E", "M", "MM"}
<1> USE DEF ProtocolInv
<1>1. p \in Own(ph, r)
  BY DEF HoldersOK
<1>2. Own(ph, r) = {p}
  BY <1>1, OwnAtMostOne
<1>3. Exclusive(ph)
  BY <1>1 DEF HoldersOK
<1>4. ph \in {"idle", "fwdS", "fwdX", "unbE"}
  BY <1>3 DEF Exclusive
<1>5. ph # "unbE" => dir.sharers = {}
  BY <1>3 DEF Exclusive, DirectoryOK
<1>6. ASSUME NEW q \in Proc, q # p
      PROVE  cache[q].state \notin {"S", "SM", "O_C", "O_D", "OM", "E", "M", "MM"}
  BY <1>2, <1>4, <1>5, <1>6 DEF HoldersOK
<1> QED
  BY <1>2, <1>3, <1>4, <1>6

(* A store by the sole holder.                                            *)
LEMMA StoreByHolder ==
  ASSUME NEW ph \in Phase, NEW r \in Proc \cup {Dir}, ProtocolInv(ph, r),
         NEW p \in Proc, cache[p].state \in {"E", "M", "MM"},
         UNCHANGED <<dir, net, merged>>,
         latest' = latest + 1,
         TypeOK', RecordsOK', SequencerOK',
         \A q \in Proc : q # p => cache'[q] = cache[q],
         cache'[p].state = "MM", cache'[p].data = latest + 1,
         cache'[p].pending = cache[p].pending, cache'[p].trigger = cache[p].trigger
  PROVE  ProtocolInv(ph, r)'
<1> USE DEF ProtocolInv
<1>1. /\ Own(ph, r) = {p}
      /\ Exclusive(ph)
      /\ ph \in {"idle", "fwdS", "fwdX", "unbE"}
      /\ \A q \in Proc : q # p =>
            cache[q].state \notin {"S", "SM", "O_C", "O_D", "OM", "E", "M", "MM"}
  BY SoleHolder
<1>2. MessagesOK' /\ DirectoryOK' /\ InvalidationsOK(ph, r)'
  BY DEF MessagesOK, DirectoryOK, InvalidationsOK, IsInv, IsAck
<1>3. TransactionOK(ph, r)'
  BY <1>1 DEF TransactionOK, IsForward, IsData, IsUnblock, Acks
<1>4. RequestsOK'
  BY DEF RequestsOK, MessagesOK
<1>5. WritebacksOK(ph, r)'
  BY DEF WritebacksOK, MessagesOK, IsWbAck, Own
<1>6. RequestorOK(ph, r)'
  BY DEF RequestorOK, TransactionOK, Phase
<1>7. HoldersOK(ph, r)'
  BY <1>1 DEF HoldersOK, Own, Exclusive, IsInv
<1>8. CountsOK(ph, r)'
  <2>1. Unacked' = Unacked
    BY DEF Unacked, IsInv, IsAck
  <2> QED
    BY <2>1 DEF CountsOK, Acks, Invalidating
<1>9. DataOK(ph, r)'
  <2>1. ph # "unbE" => dir.owner # {}
    BY <1>1 DEF Own
  <2>2. dir.data \in Nat /\ latest \in Nat
    BY DEF TypeOK, DirectoryTypeOK
  <2>3. Own(ph, r)' = {p}
    BY <1>1 DEF Own
  <2>4. \A q \in Proc : q # p =>
           cache'[q].state \notin {"S", "SM", "O_C", "O_D", "OM", "E", "M", "MM"}
    BY <1>1
  <2> QED
    BY <1>1, <2>1, <2>2, <2>3, <2>4 DEF DataOK
<1> QED
  BY <1>2, <1>3, <1>4, <1>5, <1>6, <1>7, <1>8, <1>9

(* A store that hits on the sequencer's fast path.                        *)
LEMMA FastPathStoreStep ==
  ASSUME NEW ph \in Phase, NEW r \in Proc \cup {Dir}, ProtocolInv(ph, r),
         NEW p \in Proc, FastPathStore(p), UNCHANGED dir
  PROVE  ProtocolInv(ph, r)'
<1> USE DEF ProtocolInv
<1>1. cache[p] \in CacheRecord /\ cache \in [Proc -> CacheRecord] /\ latest \in Nat
  BY DEF TypeOK
<1>2. cache[p].state = "MM"
  BY DEF FastPathStore, tryCacheAccess, Permission, PrimaryArray
<1>3. PICK d : d = StoreData(cache[p])
  OBVIOUS
<1>4. /\ d \in CacheRecord /\ d.state = "MM" /\ d.data = latest + 1 /\ d.tbe = cache[p].tbe
      /\ d.loc = cache[p].loc /\ d.pending = cache[p].pending /\ d.trigger = cache[p].trigger
  BY <1>1, <1>2, <1>3, StoreRecord
<1>5. /\ cache' = [cache EXCEPT ![p] = d]
      /\ latest' = latest + 1
      /\ UNCHANGED <<net, merged, readRequestTable, writeRequestTable, requestQueue>>
  BY <1>3 DEF FastPathStore, sequencerVars
<1>6. /\ cache' \in [Proc -> CacheRecord]
      /\ cache'[p] = d
      /\ \A q \in Proc : q # p => cache'[q] = cache[q]
  BY <1>1, <1>4, <1>5
<1>7. TypeOK'
  BY <1>1, <1>5, <1>6 DEF TypeOK, SequencerTypeOK, DirectoryTypeOK
<1>8. RecordsOK'
  BY <1>2, <1>4, <1>6 DEF RecordsOK
<1>9. SequencerOK'
  BY <1>2, <1>4, <1>5, <1>6 DEF SequencerOK
<1> QED
  BY <1>2, <1>4, <1>5, <1>6, <1>7, <1>8, <1>9, StoreByHolder

(* A store that hits in the controller.                                   *)
LEMMA StoreHitStep ==
  ASSUME NEW ph \in Phase, NEW r \in Proc \cup {Dir}, ProtocolInv(ph, r),
         NEW p \in Proc, StoreHit(p), UNCHANGED dir
  PROVE  ProtocolInv(ph, r)'
<1> USE DEF ProtocolInv
<1>1. cache[p] \in CacheRecord /\ cache \in [Proc -> CacheRecord] /\ latest \in Nat
  BY DEF TypeOK
<1>2. /\ cache[p].state \in {"E", "M", "MM"}
      /\ cache[p].loc # "none" /\ ~cache[p].tbe
      /\ "ST" \in requestQueue[p]
      /\ latest' = latest + 1
      /\ net' = net /\ merged' = merged
      /\ requestQueue' = [requestQueue EXCEPT ![p] = @ \ {"ST"}]
      /\ writeRequestTable' = [writeRequestTable EXCEPT ![p] = "none"]
      /\ UNCHANGED <<readRequestTable, dir>>
  BY DEF StoreHit, popMandatoryQueue, writeCallback, CacheTransition, Transmit, Triggers,
         RecordsOK, TypeOK
<1>3. PICK d : d = StoreData(cache[p])
  OBVIOUS
<1>4. /\ d \in CacheRecord /\ d.data = latest + 1 /\ d.tbe = cache[p].tbe
      /\ d.loc = cache[p].loc /\ d.pending = cache[p].pending /\ d.trigger = cache[p].trigger
  BY <1>1, <1>3, StoreRecord
<1>5. CacheTransition(p, d, "MM", {}, {}) /\ "MM" \in CacheState
  BY <1>3 DEF StoreHit, CacheState
<1>6. /\ cache' \in [Proc -> CacheRecord]
      /\ \A q \in Proc : q # p => cache'[q] = cache[q]
      /\ cache'[p].state = "MM" /\ cache'[p].data = latest + 1
      /\ cache'[p].loc # "none" /\ ~cache'[p].tbe
      /\ cache'[p].pending = cache[p].pending /\ cache'[p].trigger = cache[p].trigger
  BY <1>1, <1>2, <1>4, <1>5, Transition, SetState
<1>7. TypeOK'
  <2>1. SequencerTypeOK'
    BY <1>2 DEF TypeOK, SequencerTypeOK
  <2> QED
    BY <2>1, <1>1, <1>2, <1>6 DEF TypeOK, DirectoryTypeOK
<1>8. RecordsOK'
  BY <1>6 DEF RecordsOK
<1>9. SequencerOK'
  BY <1>2, <1>6 DEF SequencerOK, TypeOK, SequencerTypeOK
<1> QED
  BY <1>2, <1>6, <1>7, <1>8, <1>9, StoreByHolder

------------------------------------------------------------------------------
(* Messages a cache receives.                                             *)

(* A step that leaves the messages of the transaction alone.              *)
LEMMA TransactionFrame ==
  ASSUME NEW ph \in Phase, NEW r \in Proc \cup {Dir}, TransactionOK(ph, r),
         UNCHANGED <<dir, latest>>,
         \A x : IsForward(x) \/ IsData(x) \/ IsUnblock(x) => (x \in net' <=> x \in net)
  PROVE  TransactionOK(ph, r)'
<1>1. Acks(r)' = Acks(r)
  BY DEF Acks
<1> QED
  BY <1>1 DEF TransactionOK

(* An invalidated sharer gives up its copy and acknowledges; it may be    *)
(* waiting for data of its own, or have replaced the copy before.         *)
LEMMA InvStep ==
  ASSUME NEW ph \in Phase, NEW r \in Proc \cup {Dir}, ProtocolInv(ph, r),
         NEW p \in Proc, NEW m \in net, m.to = p, Inv(p, m), UNCHANGED dir
  PROVE  ProtocolInv(ph, r)'
<1> DEFINE n == sendAck(p, m)
<1> USE DEF ProtocolInv
<1>1. cache[p] \in CacheRecord /\ cache \in [Proc -> CacheRecord] /\ m \in Message
  BY DEF TypeOK
<1>2. IsInv(m) /\ Invalidating(ph) /\ m.from = r /\ p \in dir.sharers /\ p # r /\ r \in Proc
  BY DEF Inv, IsInv, InvalidationsOK, MessagesOK
<1>3. /\ n \in Message /\ n.vnet = "response" /\ n.type = "ACK"
      /\ n.from = p /\ n.to = r /\ n.acks = -1
  BY <1>1, <1>2 DEF sendAck, ResponseMsg, Message, VirtualNetwork, CoherenceRequestType,
         CoherenceResponseType
<1>4. /\ net' = (net \ {m}) \cup {n} /\ merged' = (merged \/ (net \ {m}) \cap {n} # {})
      /\ UNCHANGED <<latest, readRequestTable, writeRequestTable, requestQueue, dir>>
      /\ cache[p].state \in {"NP", "I", "S", "IM", "SM", "IS", "II"}
  BY DEF Inv, CacheTransition, Transmit, sequencerVars
<1>5. /\ cache' \in [Proc -> CacheRecord]
      /\ \A q \in Proc : q # p => cache'[q] = cache[q]
      /\ cache[p].state = "S" => cache'[p].state = "I"
      /\ cache[p].state = "SM" => cache'[p].state = "IM"
      /\ cache[p].state \notin {"S", "SM"} => cache'[p].state = cache[p].state
      /\ cache'[p].loc = cache[p].loc /\ cache'[p].tbe = cache[p].tbe
      /\ cache'[p].data = cache[p].data /\ cache'[p].tbeData = cache[p].tbeData
      /\ cache'[p].pending = cache[p].pending /\ cache'[p].trigger = cache[p].trigger
  <2>1. PICK s : s = CASE cache[p].state = "S"  -> "I"
                       [] cache[p].state = "SM" -> "IM"
                       [] OTHER -> cache[p].state
    OBVIOUS
  <2>2. CacheTransition(p, cache[p], s, {m}, {n})
    BY <2>1 DEF Inv
  <2>3. /\ cache[p].state = "S" => s = "I"
        /\ cache[p].state = "SM" => s = "IM"
        /\ cache[p].state \notin {"S", "SM"} => s = cache[p].state
    BY <2>1
  <2>4. s \in CacheState
    BY <2>3, <1>4 DEF CacheState
  <2>5. /\ cache' \in [Proc -> CacheRecord]
        /\ \A q \in Proc : q # p => cache'[q] = cache[q]
        /\ cache'[p] = setState(cache[p], s)
    BY <1>1, <2>2, <2>4, Transition
  <2>6. cache'[p].state = s
    <3>1. CASE cache[p].state = "NP"
      BY <3>1, <1>1, <2>3, <2>4, <2>5, SetState DEF RecordsOK
    <3>2. CASE cache[p].state # "NP"
      BY <3>2, <1>1, <1>4, <2>4, <2>5, SetState DEF RecordsOK
    <3> QED
      BY <3>1, <3>2
  <2> QED
    BY <1>1, <2>3, <2>4, <2>5, <2>6, SetState
<1>6. TypeOK' /\ ~merged'
  BY <1>2, <1>3, <1>4, <1>5 DEF TypeOK, SequencerTypeOK, DirectoryTypeOK, InvalidationsOK, IsAck
<1>7. MessagesOK' /\ DirectoryOK'
  BY <1>2, <1>3, <1>4 DEF MessagesOK, IsAck, DirectoryOK
<1>8. RequestsOK'
  BY <1>3, <1>4, <1>5 DEF RequestsOK, MessagesOK
<1>9. WritebacksOK(ph, r)'
  BY <1>3, <1>4, <1>5 DEF WritebacksOK, MessagesOK, IsWbAck, Own
<1>10. RecordsOK'
  BY <1>5 DEF RecordsOK
<1>11. SequencerOK'
  BY <1>4, <1>5 DEF SequencerOK
<1>12. TransactionOK(ph, r)'
  BY <1>2, <1>3, <1>4, TransactionFrame DEF IsForward, IsData, IsUnblock, IsInv
<1>13. RequestorOK(ph, r)'
  BY <1>2, <1>3, <1>4, <1>5 DEF RequestorOK, Phase
<1>14. HoldersOK(ph, r)'
  BY <1>2, <1>3, <1>4, <1>5 DEF HoldersOK, Own, Exclusive, IsInv
<1>15. InvalidationsOK(ph, r)'
  BY <1>2, <1>3, <1>4 DEF InvalidationsOK, IsInv, IsAck
<1>16. CountsOK(ph, r)'
  <2>1. Unacked' = Unacked
    BY <1>2, <1>3, <1>4 DEF Unacked, IsInv, IsAck, InvalidationsOK
  <2> QED
    BY <2>1, <1>4, <1>5 DEF CountsOK, Acks, Invalidating
<1>17. DataOK(ph, r)'
  BY <1>2, <1>3, <1>4, <1>5 DEF DataOK, Own
<1> QED
  BY <1>6, <1>7, <1>8, <1>9, <1>10, <1>11, <1>12, <1>13, <1>14, <1>15, <1>16, <1>17

(* The answer to a PUT ends the writeback.                                *)
LEMMA Writeback_AckStep ==
  ASSUME NEW ph \in Phase, NEW r \in Proc \cup {Dir}, ProtocolInv(ph, r),
         NEW p \in Proc, NEW m \in net, m.to = p, Writeback_Ack(p, m), UNCHANGED dir
  PROVE  ProtocolInv(ph, r)'
<1> USE DEF ProtocolInv
<1>1. cache[p] \in CacheRecord /\ cache \in [Proc -> CacheRecord] /\ m \in Message
  BY DEF TypeOK
<1>2. IsWbAck(m) /\ cache[p].state = "II" /\ p \notin Own(ph, r) /\ cache[p].loc = "none"
  BY DEF Writeback_Ack, IsWbAck, WritebacksOK, RecordsOK
<1>3. /\ net' = net \ {m} /\ merged' = merged
      /\ UNCHANGED <<latest, readRequestTable, writeRequestTable, requestQueue, dir>>
  BY DEF Writeback_Ack, CacheTransition, Transmit, sequencerVars, TypeOK
<1>4. /\ cache' \in [Proc -> CacheRecord]
      /\ \A q \in Proc : q # p => cache'[q] = cache[q]
      /\ cache'[p].state = "NP" /\ cache'[p].loc = "none" /\ ~cache'[p].tbe
      /\ cache'[p].pending = 0 /\ cache'[p].trigger = cache[p].trigger
  <2>1. PICK c : c = deallocateTBE(cache[p])
    OBVIOUS
  <2>2. /\ c \in CacheRecord /\ ~c.tbe /\ c.loc = "none"
        /\ c.pending = 0 /\ c.trigger = cache[p].trigger
    BY <1>1, <1>2, <2>1, DeallocateTBE
  <2>3. CacheTransition(p, c, "I", {m}, {}) /\ "I" \in CacheState
    BY <2>1 DEF Writeback_Ack, CacheState
  <2> QED
    BY <1>1, <2>2, <2>3, Transition, SetState
<1>5. TypeOK' /\ ~merged'
  BY <1>3, <1>4 DEF TypeOK, SequencerTypeOK, DirectoryTypeOK
<1>6. MessagesOK' /\ DirectoryOK'
  BY <1>3 DEF MessagesOK, IsAck, DirectoryOK
<1>7. RequestsOK'
  BY <1>2, <1>3, <1>4 DEF RequestsOK, MessagesOK, WritebacksOK
<1>8. WritebacksOK(ph, r)'
  BY <1>2, <1>3, <1>4 DEF WritebacksOK, MessagesOK, IsWbAck, Own
<1>9. RecordsOK'
  BY <1>4 DEF RecordsOK
<1>10. SequencerOK'
  BY <1>3, <1>4 DEF SequencerOK
<1>11. TransactionOK(ph, r)'
  BY <1>2, <1>3 DEF TransactionOK, IsForward, IsData, IsUnblock, IsWbAck, Acks
<1>12. ph \notin {"idle", "unbS", "unbE"} => r \in Proc /\ r # p
  BY <1>2 DEF RequestorOK, TransactionOK, Phase
<1>13. RequestorOK(ph, r)'
  BY <1>3, <1>4, <1>12 DEF RequestorOK, Phase
<1>14. HoldersOK(ph, r)'
  BY <1>2, <1>3, <1>4 DEF HoldersOK, Own, Exclusive, IsInv, IsWbAck
<1>15. InvalidationsOK(ph, r)'
  BY <1>3 DEF InvalidationsOK, IsInv, IsAck
<1>16. CountsOK(ph, r)'
  <2>1. Unacked' = Unacked
    BY <1>2, <1>3 DEF Unacked, IsInv, IsAck, IsWbAck
  <2> QED
    BY <2>1, <1>3, <1>4, <1>12 DEF CountsOK, Acks, Invalidating
<1>17. DataOK(ph, r)'
  BY <1>2, <1>3, <1>4 DEF DataOK, Own
<1> QED
  BY <1>5, <1>6, <1>7, <1>8, <1>9, <1>10, <1>11, <1>13, <1>14, <1>15, <1>16, <1>17

(* The owner gives the block away; in OM it falls back to waiting for its *)
(* own data.                                                              *)
LEMMA Fwd_GETXStep ==
  ASSUME NEW ph \in Phase, NEW r \in Proc \cup {Dir}, ProtocolInv(ph, r),
         NEW p \in Proc, NEW m \in net, m.to = p, Fwd_GETX(p, m), UNCHANGED dir
  PROVE  ph = "fwdX" /\ ProtocolInv("dataX", r)'
<1> DEFINE n == sendData(p, "DATA", OwnerData(p), m)
<1> USE DEF ProtocolInv
<1>1. /\ cache[p] \in CacheRecord /\ cache \in [Proc -> CacheRecord] /\ m \in Message
      /\ latest \in Nat
  BY DEF TypeOK
<1>2. /\ IsForward(m) /\ ph = "fwdX" /\ m.from = r /\ dir.owner = {p} /\ m.acks = Acks(r)
      /\ p # r /\ r \in Proc
  BY DEF Fwd_GETX, IsForward, TransactionOK, MessagesOK
<1>3. Own(ph, r) = {p}
  BY <1>2 DEF Own
<1>4. OwnerData(p) = latest
  <2>1. cache[p].state \in {"O_C", "O_D", "OM", "E", "M", "MM", "II"}
    BY DEF Fwd_GETX, SupplyingStates
  <2> QED
    BY <1>3, <2>1 DEF OwnerData, DataOK
<1>5. /\ n \in Message /\ n.vnet = "response" /\ n.type = "DATA"
      /\ n.from = p /\ n.to = r /\ n.acks = Acks(r) /\ n.data = latest
  BY <1>1, <1>2, <1>4 DEF sendData, ResponseMsg, Message, VirtualNetwork,
         CoherenceRequestType, CoherenceResponseType
<1>6. /\ net' = (net \ {m}) \cup {n} /\ merged' = (merged \/ (net \ {m}) \cap {n} # {})
      /\ UNCHANGED <<latest, readRequestTable, writeRequestTable, requestQueue, dir>>
      /\ cache[p].state \in {"O_C", "O_D", "OM", "E", "M", "MM", "II"}
  BY DEF Fwd_GETX, CacheTransition, Transmit, sequencerVars, SupplyingStates
<1>7. /\ cache' \in [Proc -> CacheRecord]
      /\ \A q \in Proc : q # p => cache'[q] = cache[q]
      /\ cache[p].state = "OM" => cache'[p].state = "IM"
      /\ cache[p].state = "II" => cache'[p].state = "II"
      /\ cache[p].state \notin {"OM", "II"} => cache'[p].state = "I"
      /\ cache'[p].loc = cache[p].loc /\ cache'[p].tbe = cache[p].tbe
      /\ cache'[p].data = cache[p].data /\ cache'[p].tbeData = cache[p].tbeData
      /\ cache'[p].pending = cache[p].pending /\ cache'[p].trigger = cache[p].trigger
  <2>1. PICK s : s = CASE cache[p].state = "OM" -> "IM"
                       [] cache[p].state = "II" -> "II"
                       [] OTHER -> "I"
    OBVIOUS
  <2>2. CacheTransition(p, cache[p], s, {m}, {n})
    BY <2>1 DEF Fwd_GETX
  <2>3. /\ cache[p].state = "OM" => s = "IM"
        /\ cache[p].state = "II" => s = "II"
        /\ cache[p].state \notin {"OM", "II"} => s = "I"
    BY <2>1
  <2>4. s \in CacheState
    BY <2>3 DEF CacheState
  <2>5. cache[p].tbe \/ cache[p].loc # "none"
    BY <1>6 DEF RecordsOK
  <2> QED
    BY <1>1, <2>2, <2>3, <2>4, <2>5, Transition, SetState
<1>8. TypeOK' /\ ~merged'
  BY <1>2, <1>5, <1>6, <1>7 DEF TypeOK, SequencerTypeOK, DirectoryTypeOK, TransactionOK, IsData
<1>9. MessagesOK' /\ DirectoryOK'
  BY <1>2, <1>5, <1>6 DEF MessagesOK, IsAck, DirectoryOK
<1>10. RequestsOK'
  BY <1>5, <1>6, <1>7 DEF RequestsOK, MessagesOK
<1>11. WritebacksOK("dataX", r)'
  BY <1>5, <1>6, <1>7 DEF WritebacksOK, MessagesOK, IsWbAck, Own
<1>12. RecordsOK'
  BY <1>6, <1>7 DEF RecordsOK
<1>13. SequencerOK'
  BY <1>6, <1>7 DEF SequencerOK
<1>14. TransactionOK("dataX", r)'
  BY <1>2, <1>5, <1>6 DEF TransactionOK, IsForward, IsData, IsUnblock, Acks, DirStates
<1>15. RequestorOK("dataX", r)'
  BY <1>2, <1>5, <1>6, <1>7 DEF RequestorOK
<1>16. HoldersOK("dataX", r)'
  <2>1. Own("dataX", r)' = {}
    BY DEF Own
  <2> QED
    BY <1>2, <1>3, <1>5, <1>6, <1>7, <2>1 DEF HoldersOK, IsInv, Invalidating, IsForward
<1>17. InvalidationsOK("dataX", r)'
  BY <1>2, <1>5, <1>6 DEF InvalidationsOK, IsInv, IsAck, Invalidating, IsForward
<1>18. CountsOK("dataX", r)'
  <2>1. Unacked' = Unacked
    BY <1>2, <1>5, <1>6 DEF Unacked, IsInv, IsAck, IsForward
  <2>2. Acks(r)' = Acks(r)
    BY <1>6 DEF Acks
  <2> QED
    BY <2>1, <2>2, <1>2, <1>7 DEF CountsOK, Invalidating
<1>19. DataOK("dataX", r)'
  <2>1. Own("dataX", r)' = {}
    BY DEF Own
  <2>2. \A q \in Proc : cache'[q].state \notin {"E", "O_C"}
    BY <1>3, <1>6, <1>7 DEF HoldersOK
  <2> QED
    BY <1>2, <1>3, <1>5, <1>6, <1>7, <2>1, <2>2 DEF DataOK
<1> QED
  BY <1>2, <1>8, <1>9, <1>10, <1>11, <1>12, <1>13, <1>14, <1>15, <1>16, <1>17, <1>18, <1>19

(* The acks to come are at most the ones the directory has announced.     *)
LEMMA UnackedCount ==
  ASSUME NEW ph \in Phase, NEW r \in Proc \cup {Dir}, ProtocolInv(ph, r)
  PROVE  /\ IsFiniteSet(Unacked)
         /\ Cardinality(Unacked) \in Nat
         /\ Acks(r) \in Nat
         /\ Cardinality(Unacked) <= Acks(r)
         /\ Cardinality(Unacked) = 0 <=> Unacked = {}
<1>1. IsFiniteSet(dir.sharers \ {r})
  <2>1. IsFiniteSet(dir.sharers)
    BY DEF ProtocolInv, DirectoryOK
  <2> QED
    BY <2>1, FS_Subset
<1>2. Unacked \subseteq dir.sharers \ {r}
  BY DEF ProtocolInv, InvalidationsOK, Unacked
<1> QED
  BY <1>1, <1>2, FS_Subset, FS_CardinalityType, FS_EmptySet DEF Acks

(* The owner answers a load: it shares the block, or hands it over when   *)
(* it has written it (migratory sharing).                                 *)
LEMMA Fwd_GETSStep ==
  ASSUME NEW ph \in Phase, NEW r \in Proc \cup {Dir}, ProtocolInv(ph, r),
         NEW p \in Proc, NEW m \in net, m.to = p, Fwd_GETS(p, m), UNCHANGED dir,
         NEW next, next = IF cache[p].state = "MM" THEN "dataE" ELSE "dataS"
  PROVE  ph = "fwdS" /\ ProtocolInv(next, r)'
<1> DEFINE n == sendData(p, IF cache[p].state = "MM" THEN "DATA_EXCLUSIVE_DIRTY" ELSE "DATA",
                         OwnerData(p), m)
<1> USE DEF ProtocolInv
<1>1. /\ cache[p] \in CacheRecord /\ cache \in [Proc -> CacheRecord] /\ m \in Message
      /\ latest \in Nat
  BY DEF TypeOK
<1>2. /\ IsForward(m) /\ ph = "fwdS" /\ m.from = r /\ dir.owner = {p}
      /\ r \in Proc /\ cache[r].state = "IS" /\ dir.state \in {"OO", "MO"}
  BY DEF Fwd_GETS, IsForward, TransactionOK, MessagesOK, RequestorOK, DirStates
<1>3. Own(ph, r) = {p}
  BY <1>2 DEF Own
<1>4. /\ cache[p].state \in {"O_C", "O_D", "OM", "E", "M", "MM", "II"}
      /\ net' = (net \ {m}) \cup {n} /\ merged' = (merged \/ (net \ {m}) \cap {n} # {})
      /\ UNCHANGED <<latest, readRequestTable, writeRequestTable, requestQueue, dir>>
  BY DEF Fwd_GETS, CacheTransition, Transmit, sequencerVars, SupplyingStates
<1>5. p # r
  BY <1>2, <1>4
<1>6. OwnerData(p) = latest
  BY <1>3, <1>4 DEF OwnerData, DataOK
<1>7. /\ n \in Message /\ n.vnet = "response"
      /\ n.type = IF cache[p].state = "MM" THEN "DATA_EXCLUSIVE_DIRTY" ELSE "DATA"
      /\ n.from = p /\ n.to = r /\ n.data = latest
  BY <1>1, <1>2, <1>6 DEF sendData, ResponseMsg, Message, VirtualNetwork,
         CoherenceRequestType, CoherenceResponseType
<1>8. /\ cache' \in [Proc -> CacheRecord]
      /\ \A q \in Proc : q # p => cache'[q] = cache[q]
      /\ cache[p].state = "MM" => cache'[p].state = "I"
      /\ cache[p].state = "M" => cache'[p].state = "O_D"
      /\ cache[p].state = "E" => cache'[p].state = "O_C"
      /\ cache[p].state \notin {"MM", "M", "E"} => cache'[p].state = cache[p].state
      /\ cache'[p].loc = cache[p].loc /\ cache'[p].tbe = cache[p].tbe
      /\ cache'[p].data = cache[p].data /\ cache'[p].tbeData = cache[p].tbeData
      /\ cache'[p].pending = cache[p].pending /\ cache'[p].trigger = cache[p].trigger
  <2>1. PICK s : s = CASE cache[p].state = "MM" -> "I"
                       [] cache[p].state = "M"  -> "O_D"
                       [] cache[p].state = "E"  -> "O_C"
                       [] OTHER -> cache[p].state
    OBVIOUS
  <2>2. CacheTransition(p, cache[p], s, {m}, {n})
    BY <2>1 DEF Fwd_GETS
  <2>3. /\ cache[p].state = "MM" => s = "I"
        /\ cache[p].state = "M" => s = "O_D"
        /\ cache[p].state = "E" => s = "O_C"
        /\ cache[p].state \notin {"MM", "M", "E"} => s = cache[p].state
    BY <2>1
  <2>4. s \in CacheState
    BY <2>3, <1>4 DEF CacheState
  <2>5. cache[p].tbe \/ cache[p].loc # "none"
    BY <1>4 DEF RecordsOK
  <2> QED
    BY <1>1, <2>2, <2>3, <2>4, <2>5, Transition, SetState
<1>9. TypeOK' /\ ~merged'
  BY <1>2, <1>4, <1>7, <1>8 DEF TypeOK, SequencerTypeOK, DirectoryTypeOK, TransactionOK, IsData
<1>10. MessagesOK' /\ DirectoryOK'
  BY <1>2, <1>4, <1>7 DEF MessagesOK, IsAck, DirectoryOK
<1>11. RequestsOK'
  BY <1>4, <1>7, <1>8 DEF RequestsOK, MessagesOK
<1>12. WritebacksOK(next, r)'
  BY <1>2, <1>4, <1>7, <1>8 DEF WritebacksOK, MessagesOK, IsWbAck, Own
<1>13. RecordsOK'
  BY <1>4, <1>8 DEF RecordsOK
<1>14. SequencerOK'
  BY <1>4, <1>8 DEF SequencerOK
<1>15. cache[p].state = "MM" => dir.state = "MO"
  BY <1>2, <1>3 DEF HoldersOK, Exclusive
<1>16. TransactionOK(next, r)'
  BY <1>2, <1>4, <1>7, <1>15 DEF TransactionOK, IsForward, IsData, IsUnblock, DirStates
<1>17. RequestorOK(next, r)'
  BY <1>2, <1>4, <1>5, <1>7, <1>8 DEF RequestorOK
<1>18. HoldersOK(next, r)'
  <2>1. /\ next = "dataE" => Own(next, r)' = {}
        /\ next = "dataS" => Own(next, r)' = {p}
        /\ ~Exclusive(next)'
    BY <1>2, <1>4 DEF Own, Exclusive
  <2> QED
    BY <1>2, <1>3, <1>4, <1>5, <1>7, <1>8, <2>1 DEF HoldersOK, IsInv, Invalidating, IsForward
<1>19. InvalidationsOK(next, r)'
  BY <1>2, <1>4, <1>7 DEF InvalidationsOK, IsInv, IsAck, Invalidating, IsForward
<1>20. CountsOK(next, r)'
  BY <1>2, <1>8 DEF CountsOK, Invalidating
<1>21. DataOK(next, r)'
  <2>1. Own(next, r)' \subseteq {p} /\ dir.owner # {}
    BY <1>2, <1>4 DEF Own
  <2>2. next = "dataE" => dir.state # "IS"
    BY <1>2
  <2> QED
    BY <1>2, <1>3, <1>4, <1>7, <1>8, <2>1, <2>2 DEF DataOK
<1> QED
  BY <1>2, <1>9, <1>10, <1>11, <1>12, <1>13, <1>14, <1>16, <1>17, <1>18, <1>19, <1>20, <1>21

(* The directory forwards the GETX of the owner to the owner itself:      *)
(* there is no data to wait for, only the acks.                           *)
LEMMA Own_GETXStep ==
  ASSUME NEW ph \in Phase, NEW r \in Proc \cup {Dir}, ProtocolInv(ph, r),
         NEW p \in Proc, NEW m \in net, m.to = p, Own_GETX(p, m), UNCHANGED dir
  PROVE  ph = "fwdX" /\ ProtocolInv("acks", r)'
<1> USE DEF ProtocolInv
<1>1. /\ cache[p] \in CacheRecord /\ cache \in [Proc -> CacheRecord] /\ m \in Message
      /\ latest \in Nat /\ m.acks \in Int
  BY DEF TypeOK, Message
<1>2. /\ IsForward(m) /\ ph = "fwdX" /\ m.from = r /\ dir.owner = {p} /\ m.acks = Acks(r)
      /\ p = r /\ cache[p].state = "OM"
  BY DEF Own_GETX, IsForward, TransactionOK, MessagesOK
<1>3. /\ cache[p].pending = Acks(r) - Cardinality(Unacked) /\ cache[p].trigger = 0
      /\ cache[p].loc # "none"
  BY <1>2 DEF CountsOK, Invalidating, RecordsOK
<1>4. /\ net' = net \ {m} /\ merged' = merged
      /\ UNCHANGED <<latest, readRequestTable, writeRequestTable, requestQueue, dir>>
  BY DEF Own_GETX, CacheTransition, Transmit, sequencerVars, TypeOK
<1>5. Cardinality(Unacked) \in Nat /\ Acks(r) \in Nat /\ (Cardinality(Unacked) = 0 <=> Unacked = {})
  BY UnackedCount
<1>6. /\ cache' \in [Proc -> CacheRecord]
      /\ \A q \in Proc : q # p => cache'[q] = cache[q]
      /\ cache'[p].state = "OM"
      /\ cache'[p].loc = cache[p].loc /\ cache'[p].tbe = cache[p].tbe
      /\ cache'[p].data = cache[p].data
      /\ cache'[p].pending = 0 - Cardinality(Unacked)
      /\ cache'[p].trigger = IF Unacked = {} THEN 1 ELSE 0
  <2>1. PICK c : c = decrementNumberOfMessages(cache[p], m)
    OBVIOUS
  <2>2. /\ c \in CacheRecord /\ c.loc = cache[p].loc /\ c.tbe = cache[p].tbe
        /\ c.data = cache[p].data /\ c.pending = cache[p].pending - m.acks
        /\ c.trigger = cache[p].trigger
    BY <1>1, <2>1, Decrement
  <2>3. PICK d : d = checkForCompletion(c)
    OBVIOUS
  <2>4. /\ d \in CacheRecord /\ d.loc = cache[p].loc /\ d.tbe = cache[p].tbe
        /\ d.data = cache[p].data /\ d.pending = c.pending
        /\ d.trigger = IF c.pending = 0 THEN c.trigger + 1 ELSE c.trigger
    BY <2>2, <2>3, CheckForCompletion
  <2>5. d.pending = 0 - Cardinality(Unacked) /\ d.trigger = IF Unacked = {} THEN 1 ELSE 0
    BY <1>2, <1>3, <1>5, <2>2, <2>4
  <2>6. CacheTransition(p, d, "OM", {m}, {}) /\ "OM" \in CacheState
    BY <2>1, <2>3 DEF Own_GETX, CacheState
  <2> QED
    BY <1>1, <1>3, <2>4, <2>5, <2>6, Transition, SetState
<1>7. TypeOK' /\ ~merged'
  BY <1>4, <1>6 DEF TypeOK, SequencerTypeOK, DirectoryTypeOK
<1>8. MessagesOK' /\ DirectoryOK'
  BY <1>4 DEF MessagesOK, IsAck, DirectoryOK
<1>9. RequestsOK'
  BY <1>2, <1>4, <1>6 DEF RequestsOK, MessagesOK
<1>10. WritebacksOK("acks", r)'
  BY <1>2, <1>4, <1>6 DEF WritebacksOK, MessagesOK, IsWbAck, Own
<1>11. RecordsOK'
  BY <1>2, <1>6 DEF RecordsOK
<1>12. SequencerOK'
  BY <1>2, <1>4, <1>6 DEF SequencerOK
<1>13. TransactionOK("acks", r)'
  BY <1>2, <1>4 DEF TransactionOK, IsForward, IsData, IsUnblock, DirStates
<1>14. RequestorOK("acks", r)'
  BY <1>2, <1>4, <1>6 DEF RequestorOK
<1>15. HoldersOK("acks", r)'
  <2>1. Own("acks", r)' = {} /\ Own(ph, r) = {p}
    BY <1>2 DEF Own
  <2> QED
    BY <1>2, <1>4, <1>6, <2>1 DEF HoldersOK, IsInv, Invalidating, IsForward
<1>16. InvalidationsOK("acks", r)'
  BY <1>2, <1>4 DEF InvalidationsOK, IsInv, IsAck, Invalidating
<1>17. CountsOK("acks", r)'
  <2>1. Unacked' = Unacked
    BY <1>2, <1>4 DEF Unacked, IsInv, IsAck, IsForward
  <2> QED
    BY <2>1, <1>2, <1>6 DEF CountsOK, Invalidating
<1>18. DataOK("acks", r)'
  <2>1. Own("acks", r)' = {} /\ Own(ph, r) = {p}
    BY <1>2 DEF Own
  <2> QED
    BY <1>2, <1>4, <1>6, <2>1 DEF DataOK
<1> QED
  BY <1>2, <1>7, <1>8, <1>9, <1>10, <1>11, <1>12, <1>13, <1>14, <1>15, <1>16, <1>17, <1>18

(* An ack may arrive before the data that announces it: the count is      *)
(* negative until then, and never reaches zero early.                     *)
LEMMA AckStep ==
  ASSUME NEW ph \in Phase, NEW r \in Proc \cup {Dir}, ProtocolInv(ph, r),
         NEW p \in Proc, NEW m \in net, m.to = p, Ack(p, m), UNCHANGED dir
  PROVE  ProtocolInv(ph, r)'
<1> USE DEF ProtocolInv
<1>1. /\ cache[p] \in CacheRecord /\ cache \in [Proc -> CacheRecord] /\ m \in Message
      /\ m.acks \in Int /\ cache[p].state \in CacheState
  BY DEF TypeOK, Message, CacheRecord
<1>2. /\ IsAck(m) /\ Invalidating(ph) /\ p = r /\ m.from \in dir.sharers /\ m.acks = -1
      /\ m.from \in Proc /\ cache[p].state \in {"IM", "SM", "OM"} /\ cache[p].loc # "none"
  BY DEF Ack, IsAck, InvalidationsOK, MessagesOK, RecordsOK
<1>3. /\ net' = net \ {m} /\ merged' = merged
      /\ UNCHANGED <<latest, readRequestTable, writeRequestTable, requestQueue, dir>>
  BY DEF Ack, CacheTransition, Transmit, sequencerVars, TypeOK
<1>4. Unacked' = Unacked \ {m.from} /\ m.from \in Unacked
  BY <1>2, <1>3 DEF Unacked, IsInv, IsAck, InvalidationsOK
<1>5. /\ Cardinality(Unacked) \in Nat /\ Cardinality(Unacked) <= Acks(r) /\ Acks(r) \in Nat
      /\ Cardinality(Unacked') = Cardinality(Unacked) - 1
      /\ Cardinality(Unacked') = 0 <=> Unacked' = {}
  <2>1. IsFiniteSet(Unacked)
    BY UnackedCount
  <2>2. IsFiniteSet(Unacked')
    BY <1>4, <2>1, FS_RemoveElement
  <2> QED
    BY <1>4, <2>1, <2>2, UnackedCount, FS_RemoveElement, FS_EmptySet
<1>6. /\ cache[p].pending = (IF ph = "acks" THEN 0 ELSE Acks(r)) - Cardinality(Unacked)
      /\ cache[p].trigger = 0
  BY <1>2, <1>4 DEF CountsOK
<1>7. /\ cache' \in [Proc -> CacheRecord]
      /\ \A q \in Proc : q # p => cache'[q] = cache[q]
      /\ cache'[p].state = cache[p].state
      /\ cache'[p].loc = cache[p].loc /\ cache'[p].tbe = cache[p].tbe
      /\ cache'[p].data = cache[p].data
      /\ cache'[p].pending = (IF ph = "acks" THEN 0 ELSE Acks(r)) - Cardinality(Unacked')
      /\ cache'[p].trigger = IF ph = "acks" /\ Unacked' = {} THEN 1 ELSE 0
  <2>1. PICK c : c = decrementNumberOfMessages(cache[p], m)
    OBVIOUS
  <2>2. /\ c \in CacheRecord /\ c.loc = cache[p].loc /\ c.tbe = cache[p].tbe
        /\ c.data = cache[p].data /\ c.pending = cache[p].pending - m.acks
        /\ c.trigger = cache[p].trigger
    BY <1>1, <2>1, Decrement
  <2>3. PICK d : d = checkForCompletion(c)
    OBVIOUS
  <2>4. /\ d \in CacheRecord /\ d.loc = cache[p].loc /\ d.tbe = cache[p].tbe
        /\ d.data = cache[p].data /\ d.pending = c.pending
        /\ d.trigger = IF c.pending = 0 THEN c.trigger + 1 ELSE c.trigger
    BY <2>2, <2>3, CheckForCompletion
  <2>5. /\ d.pending = (IF ph = "acks" THEN 0 ELSE Acks(r)) - Cardinality(Unacked')
        /\ d.trigger = IF ph = "acks" /\ Unacked' = {} THEN 1 ELSE 0
    BY <1>2, <1>5, <1>6, <2>2, <2>4
  <2>6. CacheTransition(p, d, cache[p].state, {m}, {})
    BY <2>1, <2>3 DEF Ack
  <2> QED
    BY <1>1, <1>2, <2>4, <2>5, <2>6, Transition, SetState
<1>8. TypeOK' /\ ~merged'
  BY <1>3, <1>7 DEF TypeOK, SequencerTypeOK, DirectoryTypeOK
<1>9. MessagesOK' /\ DirectoryOK'
  BY <1>3 DEF MessagesOK, IsAck, DirectoryOK
<1>10. RequestsOK'
  BY <1>2, <1>3, <1>7 DEF RequestsOK, MessagesOK
<1>11. WritebacksOK(ph, r)'
  BY <1>2, <1>3, <1>7 DEF WritebacksOK, MessagesOK, IsWbAck, Own
<1>12. RecordsOK'
  BY <1>2, <1>7 DEF RecordsOK
<1>13. SequencerOK'
  BY <1>2, <1>3, <1>7 DEF SequencerOK
<1>14. TransactionOK(ph, r)'
  BY <1>2, <1>3, TransactionFrame DEF IsForward, IsData, IsUnblock, IsAck
<1>15. RequestorOK(ph, r)'
  BY <1>2, <1>3, <1>7 DEF RequestorOK
<1>16. HoldersOK(ph, r)'
  BY <1>2, <1>3, <1>7 DEF HoldersOK, IsInv, IsAck, Own, Exclusive
<1>17. InvalidationsOK(ph, r)'
  BY <1>2, <1>3 DEF InvalidationsOK, IsInv, IsAck
<1>18. CountsOK(ph, r)'
  <2>1. Acks(r)' = Acks(r)
    BY <1>3 DEF Acks
  <2> QED
    BY <2>1, <1>2, <1>7 DEF CountsOK
<1>19. DataOK(ph, r)'
  BY <1>2, <1>3, <1>7 DEF DataOK, Own
<1> QED
  BY <1>8, <1>9, <1>10, <1>11, <1>12, <1>13, <1>14, <1>15, <1>16, <1>17, <1>18, <1>19

(* The data of a GETX announces the acks; the ones that came first have   *)
(* been counted.                                                          *)
LEMMA DataForStoreStep ==
  ASSUME NEW ph \in Phase, NEW r \in Proc \cup {Dir}, ProtocolInv(ph, r),
         NEW p \in Proc, NEW m \in net, m.to = p, DataForStore(p, m), UNCHANGED dir
  PROVE  ph = "dataX" /\ ProtocolInv("acks", r)'
<1> USE DEF ProtocolInv
<1>1. /\ cache[p] \in CacheRecord /\ cache \in [Proc -> CacheRecord] /\ m \in Message
      /\ latest \in Nat /\ m.acks \in Int /\ m.data \in Nat
  BY DEF TypeOK, Message
<1>2. /\ IsData(m) /\ ph = "dataX" /\ p = r /\ m.acks = Acks(r) /\ m.data = latest
      /\ cache[p].state \in {"IM", "SM"} /\ cache[p].loc # "none"
  BY DEF DataForStore, IsData, TransactionOK, RequestorOK, RecordsOK
<1>3. cache[p].pending = Acks(r) - Cardinality(Unacked) /\ cache[p].trigger = 0
  BY <1>2 DEF CountsOK, Invalidating
<1>4. /\ net' = net \ {m} /\ merged' = merged
      /\ UNCHANGED <<latest, readRequestTable, writeRequestTable, requestQueue, dir>>
  BY DEF DataForStore, CacheTransition, Transmit, sequencerVars, TypeOK
<1>5. Cardinality(Unacked) \in Nat /\ Acks(r) \in Nat /\ (Cardinality(Unacked) = 0 <=> Unacked = {})
  BY UnackedCount
<1>6. /\ cache' \in [Proc -> CacheRecord]
      /\ \A q \in Proc : q # p => cache'[q] = cache[q]
      /\ cache'[p].state = "OM"
      /\ cache'[p].loc = cache[p].loc /\ cache'[p].tbe = cache[p].tbe
      /\ cache'[p].data = latest
      /\ cache'[p].pending = 0 - Cardinality(Unacked)
      /\ cache'[p].trigger = IF Unacked = {} THEN 1 ELSE 0
  <2>1. PICK b : b = writeDataToCache(cache[p], m)
    OBVIOUS
  <2>2. /\ b \in CacheRecord /\ b.loc = cache[p].loc /\ b.tbe = cache[p].tbe
        /\ b.data = latest /\ b.pending = cache[p].pending /\ b.trigger = cache[p].trigger
    BY <1>1, <1>2, <2>1, WriteData
  <2>3. PICK c : c = decrementNumberOfMessages(b, m)
    OBVIOUS
  <2>4. /\ c \in CacheRecord /\ c.loc = cache[p].loc /\ c.tbe = cache[p].tbe
        /\ c.data = latest /\ c.pending = cache[p].pending - m.acks
        /\ c.trigger = cache[p].trigger
    BY <1>1, <2>2, <2>3, Decrement
  <2>5. PICK d : d = checkForCompletion(c)
    OBVIOUS
  <2>6. /\ d \in CacheRecord /\ d.loc = cache[p].loc /\ d.tbe = cache[p].tbe
        /\ d.data = latest /\ d.pending = c.pending
        /\ d.trigger = IF c.pending = 0 THEN c.trigger + 1 ELSE c.trigger
    BY <2>4, <2>5, CheckForCompletion
  <2>7. d.pending = 0 - Cardinality(Unacked) /\ d.trigger = IF Unacked = {} THEN 1 ELSE 0
    BY <1>2, <1>3, <1>5, <2>4, <2>6
  <2>8. CacheTransition(p, d, "OM", {m}, {}) /\ "OM" \in CacheState
    BY <2>1, <2>3, <2>5 DEF DataForStore, CacheState
  <2> QED
    BY <1>1, <1>2, <2>6, <2>7, <2>8, Transition, SetState
<1>7. TypeOK' /\ ~merged'
  BY <1>4, <1>6 DEF TypeOK, SequencerTypeOK, DirectoryTypeOK
<1>8. MessagesOK' /\ DirectoryOK'
  BY <1>4 DEF MessagesOK, IsAck, DirectoryOK
<1>9. RequestsOK'
  BY <1>2, <1>4, <1>6 DEF RequestsOK, MessagesOK
<1>10. WritebacksOK("acks", r)'
  BY <1>2, <1>4, <1>6 DEF WritebacksOK, MessagesOK, IsWbAck, Own
<1>11. RecordsOK'
  BY <1>2, <1>6 DEF RecordsOK
<1>12. SequencerOK'
  BY <1>2, <1>4, <1>6 DEF SequencerOK
<1>13. TransactionOK("acks", r)'
  BY <1>2, <1>4 DEF TransactionOK, IsForward, IsData, IsUnblock, DirStates
<1>14. RequestorOK("acks", r)'
  BY <1>2, <1>4, <1>6 DEF RequestorOK
<1>15. Own("acks", r)' = {} /\ Own(ph, r) = {}
  BY <1>2 DEF Own
<1>16. HoldersOK("acks", r)'
  BY <1>2, <1>4, <1>6, <1>15 DEF HoldersOK, IsInv, Invalidating, IsData
<1>17. InvalidationsOK("acks", r)'
  BY <1>2, <1>4 DEF InvalidationsOK, IsInv, IsAck, Invalidating
<1>18. CountsOK("acks", r)'
  <2>1. Unacked' = Unacked
    BY <1>2, <1>4 DEF Unacked, IsInv, IsAck, IsData
  <2> QED
    BY <2>1, <1>2, <1>6 DEF CountsOK, Invalidating
<1>19. DataOK("acks", r)'
  BY <1>2, <1>4, <1>6, <1>15 DEF DataOK
<1> QED
  BY <1>2, <1>7, <1>8, <1>9, <1>10, <1>11, <1>12, <1>13, <1>14, <1>16, <1>17, <1>18, <1>19

(* The data of a GETS completes the load.                                 *)
LEMMA DataForLoadStep ==
  ASSUME NEW ph \in Phase, NEW r \in Proc \cup {Dir}, ProtocolInv(ph, r),
         NEW p \in Proc, NEW m \in net, m.to = p, DataForLoad(p, m), UNCHANGED dir,
         NEW next, next = IF m.type = "DATA" THEN "unbS" ELSE "unbE"
  PROVE  ph \in {"dataS", "dataE"} /\ ProtocolInv(next, r)'
<1> DEFINE n == sendUnblock(p, IF m.type = "DATA" THEN "UNBLOCK" ELSE "UNBLOCK_EXCLUSIVE")
<1> USE DEF ProtocolInv
<1>1. /\ cache[p] \in CacheRecord /\ cache \in [Proc -> CacheRecord] /\ m \in Message
      /\ latest \in Nat /\ m.data \in Nat
  BY DEF TypeOK, Message
<1>2. /\ IsData(m) /\ p = r /\ m.data = latest
      /\ m.type \in {"DATA", "DATA_EXCLUSIVE_CLEAN", "DATA_EXCLUSIVE_DIRTY"}
      /\ cache[p].state = "IS" /\ cache[p].loc # "none"
      /\ ph = IF m.type = "DATA" THEN "dataS" ELSE "dataE"
      /\ m.type = "DATA_EXCLUSIVE_CLEAN" => dir.state = "IS"
      /\ dir.state \in DirStates(ph)
  BY DEF DataForLoad, LoadedState, IsData, TransactionOK, RequestorOK, RecordsOK
<1>3. /\ n \in Message /\ n.vnet = "unblock" /\ n.from = p /\ n.to = Dir
      /\ n.type = IF m.type = "DATA" THEN "UNBLOCK" ELSE "UNBLOCK_EXCLUSIVE"
  BY DEF sendUnblock, ResponseMsg, Message, VirtualNetwork, CoherenceRequestType,
         CoherenceResponseType
<1>4. /\ net' = (net \ {m}) \cup {n} /\ merged' = (merged \/ (net \ {m}) \cap {n} # {})
      /\ readRequestTable' = [readRequestTable EXCEPT ![p] = "none"]
      /\ UNCHANGED <<latest, writeRequestTable, requestQueue, dir>>
  BY DEF DataForLoad, CacheTransition, Transmit, readCallback
<1>5. /\ cache' \in [Proc -> CacheRecord]
      /\ \A q \in Proc : q # p => cache'[q] = cache[q]
      /\ m.type = "DATA" => cache'[p].state = "S"
      /\ m.type = "DATA_EXCLUSIVE_CLEAN" => cache'[p].state = "E"
      /\ m.type = "DATA_EXCLUSIVE_DIRTY" => cache'[p].state = "M"
      /\ cache'[p].loc = cache[p].loc /\ ~cache'[p].tbe
      /\ cache'[p].data = latest
      /\ cache'[p].pending = 0 /\ cache'[p].trigger = cache[p].trigger
  <2>1. PICK b : b = writeDataToCache(cache[p], m)
    OBVIOUS
  <2>2. /\ b \in CacheRecord /\ b.loc = cache[p].loc
        /\ b.data = latest /\ b.trigger = cache[p].trigger
    BY <1>1, <1>2, <2>1, WriteData
  <2>3. PICK c : c = deallocateTBE(b)
    OBVIOUS
  <2>4. /\ c \in CacheRecord /\ c.loc = cache[p].loc /\ ~c.tbe
        /\ c.data = latest /\ c.pending = 0 /\ c.trigger = cache[p].trigger
    BY <2>2, <2>3, DeallocateTBE
  <2>5. PICK s : s = LoadedState[m.type]
    OBVIOUS
  <2>6. CacheTransition(p, c, s, {m}, {n})
    BY <2>1, <2>3, <2>5 DEF DataForLoad
  <2>7. /\ m.type = "DATA" => s = "S"
        /\ m.type = "DATA_EXCLUSIVE_CLEAN" => s = "E"
        /\ m.type = "DATA_EXCLUSIVE_DIRTY" => s = "M"
        /\ s \in CacheState
    BY <1>2, <2>5 DEF LoadedState, CacheState
  <2> QED
    BY <1>1, <1>2, <2>4, <2>6, <2>7, Transition, SetState
<1>6. TypeOK' /\ ~merged'
  <2>1. SequencerTypeOK'
    BY <1>4 DEF TypeOK, SequencerTypeOK
  <2>2. n \notin net
    BY <1>2, <1>3 DEF TransactionOK, IsUnblock
  <2> QED
    BY <1>3, <1>4, <1>5, <2>1, <2>2 DEF TypeOK, DirectoryTypeOK
<1>7. MessagesOK' /\ DirectoryOK'
  BY <1>3, <1>4 DEF MessagesOK, IsAck, DirectoryOK
<1>8. RequestsOK'
  BY <1>2, <1>3, <1>4, <1>5 DEF RequestsOK, MessagesOK, RequestorOK
<1>9. WritebacksOK(next, r)'
  BY <1>2, <1>3, <1>4, <1>5 DEF WritebacksOK, MessagesOK, IsWbAck, Own
<1>10. RecordsOK'
  BY <1>2, <1>5 DEF RecordsOK
<1>11. SequencerOK'
  BY <1>2, <1>4, <1>5 DEF SequencerOK, TypeOK, SequencerTypeOK
<1>12. TransactionOK(next, r)'
  BY <1>2, <1>3, <1>4 DEF TransactionOK, IsForward, IsData, IsUnblock, DirStates
<1>13. ph = "dataS" => r \notin dir.owner
  BY <1>2 DEF HoldersOK, Own, Exclusive
<1>14. RequestorOK(next, r)'
  BY <1>2, <1>4, <1>13 DEF RequestorOK
<1>15. /\ ph = "dataS" => Own(next, r)' = Own(ph, r)
       /\ ph = "dataE" => Own(next, r)' = {r} /\ Own(ph, r) = {} /\ dir.sharers = {}
  BY <1>2, <1>4 DEF Own, DirectoryOK, DirStates
<1>16. HoldersOK(next, r)'
  BY <1>2, <1>3, <1>4, <1>5, <1>15 DEF HoldersOK, IsInv, Invalidating, IsData, Exclusive
<1>17. InvalidationsOK(next, r)'
  BY <1>2, <1>3, <1>4 DEF InvalidationsOK, IsInv, IsAck, Invalidating
<1>18. CountsOK(next, r)'
  BY <1>2, <1>5 DEF CountsOK, Invalidating
<1>19. DataOK(next, r)'
  <2>1. \A x \in net : x.vnet = "request" => x.from # r
    BY <1>2 DEF RequestorOK
  <2> QED
    BY <1>2, <1>3, <1>4, <1>5, <1>15, <2>1 DEF DataOK
<1> QED
  BY <1>2, <1>6, <1>7, <1>8, <1>9, <1>10, <1>11, <1>12, <1>14, <1>16, <1>17, <1>18, <1>19

(* ALL_ACKS completes the store: nobody else has a copy any more.         *)
LEMMA All_acksStep ==
  ASSUME NEW ph \in Phase, NEW r \in Proc \cup {Dir}, ProtocolInv(ph, r),
         NEW p \in Proc, All_acks(p), UNCHANGED dir
  PROVE  ph = "acks" /\ ProtocolInv("unbE", r)'
<1> DEFINE n == sendUnblock(p, "UNBLOCK_EXCLUSIVE")
<1> USE DEF ProtocolInv
<1>1. cache[p] \in CacheRecord /\ cache \in [Proc -> CacheRecord] /\ latest \in Nat
  BY DEF TypeOK
<1>2. /\ ph = "acks" /\ p = r /\ Unacked = {}
      /\ cache[p].trigger = 1 /\ cache[p].state = "OM" /\ cache[p].loc # "none"
  BY DEF All_acks, CountsOK, RecordsOK
<1>3. /\ n \in Message /\ n.vnet = "unblock" /\ n.from = p /\ n.to = Dir
      /\ n.type = "UNBLOCK_EXCLUSIVE"
  BY DEF sendUnblock, ResponseMsg, Message, VirtualNetwork, CoherenceRequestType,
         CoherenceResponseType
<1>4. /\ net' = net \cup {n} /\ merged' = (merged \/ net \cap {n} # {})
      /\ latest' = latest + 1
      /\ writeRequestTable' = [writeRequestTable EXCEPT ![p] = "none"]
      /\ UNCHANGED <<readRequestTable, requestQueue, dir>>
  BY DEF All_acks, CacheTransition, Transmit, writeCallback
<1>5. /\ cache' \in [Proc -> CacheRecord]
      /\ \A q \in Proc : q # p => cache'[q] = cache[q]
      /\ cache'[p].state = "MM"
      /\ cache'[p].loc = cache[p].loc /\ ~cache'[p].tbe
      /\ cache'[p].data = latest + 1
      /\ cache'[p].pending = 0 /\ cache'[p].trigger = 0
  <2>1. PICK b : b = StoreData(cache[p])
    OBVIOUS
  <2>2. /\ b \in CacheRecord /\ b.loc = cache[p].loc
        /\ b.data = latest + 1 /\ b.trigger = cache[p].trigger
    BY <1>1, <1>2, <2>1, StoreRecord
  <2>3. PICK c : c = deallocateTBE(b)
    OBVIOUS
  <2>4. /\ c \in CacheRecord /\ c.loc = cache[p].loc /\ ~c.tbe
        /\ c.data = latest + 1 /\ c.pending = 0 /\ c.trigger = 1
    BY <1>2, <2>2, <2>3, DeallocateTBE
  <2>5. PICK d : d = [c EXCEPT !.trigger = @ - 1]
    OBVIOUS
  <2>6. /\ d \in CacheRecord /\ d.loc = cache[p].loc /\ ~d.tbe
        /\ d.data = latest + 1 /\ d.pending = 0 /\ d.trigger = 0
    BY <2>4, <2>5 DEF CacheRecord
  <2>7. CacheTransition(p, d, "MM", {}, {n}) /\ "MM" \in CacheState
    BY <2>1, <2>3, <2>5 DEF All_acks, CacheState
  <2> QED
    BY <1>1, <1>2, <2>6, <2>7, Transition, SetState
<1>6. TypeOK' /\ ~merged'
  <2>1. SequencerTypeOK'
    BY <1>4 DEF TypeOK, SequencerTypeOK
  <2>2. n \notin net
    BY <1>2, <1>3 DEF TransactionOK, IsUnblock
  <2> QED
    BY <1>1, <1>3, <1>4, <1>5, <2>1, <2>2 DEF TypeOK, DirectoryTypeOK
<1>7. MessagesOK' /\ DirectoryOK'
  BY <1>3, <1>4 DEF MessagesOK, IsAck, DirectoryOK
<1>8. RequestsOK'
  BY <1>2, <1>3, <1>4, <1>5 DEF RequestsOK, MessagesOK, RequestorOK
<1>9. WritebacksOK("unbE", r)'
  BY <1>2, <1>3, <1>4, <1>5 DEF WritebacksOK, MessagesOK, IsWbAck, Own
<1>10. RecordsOK'
  BY <1>2, <1>5 DEF RecordsOK
<1>11. SequencerOK'
  BY <1>2, <1>4, <1>5 DEF SequencerOK, TypeOK, SequencerTypeOK
<1>12. TransactionOK("unbE", r)'
  BY <1>2, <1>3, <1>4 DEF TransactionOK, IsForward, IsData, IsUnblock, DirStates
<1>13. RequestorOK("unbE", r)'
  BY DEF RequestorOK
<1>14. Own("unbE", r)' = {r} /\ Own(ph, r) = {}
  BY <1>2 DEF Own
<1>15. \A q \in Proc : q # p =>
          cache[q].state \notin {"S", "SM", "O_C", "O_D", "OM", "E", "M", "MM"}
  <2>1. \A x \in net : ~IsInv(x)
    BY <1>2 DEF Unacked, MessagesOK, IsInv
  <2> QED
    BY <1>2, <1>14, <2>1 DEF HoldersOK, Invalidating
<1>16. HoldersOK("unbE", r)'
  BY <1>2, <1>5, <1>14, <1>15 DEF HoldersOK, Invalidating, Exclusive
<1>17. InvalidationsOK("unbE", r)'
  BY <1>2, <1>3, <1>4 DEF InvalidationsOK, IsInv, IsAck, Unacked, MessagesOK
<1>18. CountsOK("unbE", r)'
  BY <1>2, <1>5 DEF CountsOK, Invalidating
<1>19. DataOK("unbE", r)'
  <2>1. \A x \in net : x.vnet = "request" => x.from # r
    BY <1>2 DEF RequestorOK
  <2>2. dir.data \in Nat
    BY DEF TypeOK, DirectoryTypeOK
  <2> QED
    BY <1>1, <1>2, <1>3, <1>4, <1>5, <1>14, <1>15, <2>1, <2>2 DEF DataOK
<1> QED
  BY <1>2, <1>6, <1>7, <1>8, <1>9, <1>10, <1>11, <1>12, <1>13, <1>16, <1>17, <1>18, <1>19

------------------------------------------------------------------------------
(* Messages the directory receives.                                       *)

(* When the directory is not busy, nothing of a transaction is under way. *)
LEMMA IdleDirectory ==
  ASSUME NEW ph \in Phase, NEW r \in Proc \cup {Dir}, ProtocolInv(ph, r),
         dir.state \in {"I", "S", "O", "M"}
  PROVE  /\ ph = "idle" /\ Own(ph, r) = dir.owner
         /\ \A x \in net : /\ ~IsForward(x) /\ ~IsData(x) /\ ~IsUnblock(x)
                           /\ ~IsInv(x) /\ ~IsAck(x)
         /\ \A p \in Proc : cache[p].pending = 0 /\ cache[p].trigger = 0
<1> USE DEF ProtocolInv
<1>1. ph = "idle"
  BY DEF TransactionOK, DirStates, Phase
<1>2. \A x \in net : ~IsForward(x) /\ ~IsData(x) /\ ~IsUnblock(x)
  BY <1>1 DEF TransactionOK
<1>3. \A x \in net : ~IsInv(x) /\ ~IsAck(x)
  BY <1>1 DEF InvalidationsOK, Invalidating
<1>4. \A p \in Proc : cache[p].pending = 0 /\ cache[p].trigger = 0
  BY <1>1 DEF CountsOK, Invalidating
<1>5. Own(ph, r) = dir.owner
  BY <1>1 DEF Own
<1> QED
  BY <1>1, <1>2, <1>3, <1>4, <1>5

(* The directory answers a GETS from memory, which has the latest         *)
(* version.                                                               *)
LEMMA SendGETSStep ==
  ASSUME NEW ph \in Phase, NEW r \in Proc \cup {Dir}, ProtocolInv(ph, r),
         NEW m \in net, SendGETS(m), UNCHANGED <<cacheVars, sequencerVars>>,
         NEW next, next = IF dir.state = "I" THEN "dataE" ELSE "dataS"
  PROVE  m.from \in Proc /\ ProtocolInv(next, m.from)'
<1> DEFINE p == m.from
           n == dirSendData(m)
<1> USE DEF ProtocolInv
<1>1. /\ m \in Message /\ dir \in [state : DirectoryState, owner : SUBSET Proc,
                                   sharers : SUBSET Proc, data : Nat]
      /\ latest \in Nat
  BY DEF TypeOK, DirectoryTypeOK
<1>2. /\ m.vnet = "request" /\ m.type = "GETS" /\ p \in Proc /\ cache[p].state = "IS"
      /\ dir.state \in {"I", "S"} /\ dir.owner = {}
      /\ dir.state = "I" <=> dir.sharers = {}
  BY DEF SendGETS, IsRequest, MessagesOK, RequestsOK, DirectoryOK
<1>3. /\ ph = "idle" /\ Own(ph, r) = dir.owner
      /\ \A x \in net : ~IsForward(x) /\ ~IsData(x) /\ ~IsUnblock(x) /\ ~IsInv(x) /\ ~IsAck(x)
      /\ \A q \in Proc : cache[q].pending = 0 /\ cache[q].trigger = 0
  BY <1>2, IdleDirectory
<1>4. dir.data = latest
  BY <1>2, <1>3 DEF DataOK
<1>5. Acks(p) \in Nat
  <2>1. IsFiniteSet(dir.sharers \ {p})
    BY FS_Subset DEF DirectoryOK
  <2> QED
    BY <2>1, FS_CardinalityType DEF Acks
<1>6. /\ n \in Message /\ n.vnet = "response" /\ n.to = p /\ n.data = latest
      /\ n.type = IF dir.state = "I" THEN "DATA_EXCLUSIVE_CLEAN" ELSE "DATA"
  BY <1>1, <1>2, <1>4, <1>5 DEF dirSendData, ResponseMsg, Message, VirtualNetwork,
         CoherenceRequestType, CoherenceResponseType
<1>7. /\ net' = (net \ {m}) \cup {n} /\ merged' = (merged \/ (net \ {m}) \cap {n} # {})
      /\ UNCHANGED <<cache, latest, readRequestTable, writeRequestTable, requestQueue>>
  BY DEF SendGETS, DirTransition, Transmit, cacheVars, sequencerVars
<1>8. /\ dir' \in [state : DirectoryState, owner : SUBSET Proc,
                   sharers : SUBSET Proc, data : Nat]
      /\ dir'.state = IF dir.state = "I" THEN "IS" ELSE "SS"
      /\ dir'.owner = {} /\ dir'.sharers = dir.sharers /\ dir'.data = latest
  BY <1>1, <1>2, <1>4 DEF SendGETS, DirTransition, DirectoryState
<1>9. TypeOK' /\ ~merged'
  <2>1. n \notin net
    BY <1>3, <1>6 DEF IsData
  <2> QED
    BY <1>6, <1>7, <1>8, <2>1 DEF TypeOK, SequencerTypeOK, DirectoryTypeOK
<1>10. MessagesOK'
  BY <1>2, <1>6, <1>7 DEF MessagesOK, IsAck
<1>11. DirectoryOK'
  BY <1>2, <1>8 DEF DirectoryOK
<1>12. RequestsOK'
  BY <1>6, <1>7 DEF RequestsOK
<1>13. Own(next, p)' = {}
  BY <1>8 DEF Own
<1>14. WritebacksOK(next, p)'
  BY <1>6, <1>7, <1>13 DEF WritebacksOK, IsWbAck
<1>15. RecordsOK' /\ SequencerOK'
  BY <1>7 DEF RecordsOK, SequencerOK
<1>16. TransactionOK(next, p)'
  BY <1>2, <1>3, <1>6, <1>7, <1>8 DEF TransactionOK, IsForward, IsData, IsUnblock, DirStates
<1>17. RequestorOK(next, p)'
  BY <1>2, <1>6, <1>7 DEF RequestorOK, RequestsOK
<1>18. HoldersOK(next, p)'
  BY <1>2, <1>3, <1>7, <1>8, <1>13 DEF HoldersOK, Invalidating, Exclusive
<1>19. InvalidationsOK(next, p)'
  BY <1>3, <1>6, <1>7 DEF InvalidationsOK, IsInv, IsAck
<1>20. CountsOK(next, p)'
  BY <1>3, <1>7 DEF CountsOK, Invalidating
<1>21. DataOK(next, p)'
  BY <1>2, <1>3, <1>4, <1>6, <1>7, <1>8, <1>13 DEF DataOK
<1> QED
  BY <1>2, <1>9, <1>10, <1>11, <1>12, <1>14, <1>15, <1>16, <1>17, <1>18, <1>19, <1>20, <1>21

(* The invalidations of a GETX are one message to each sharer but the     *)
(* requestor.                                                             *)
LEMMA Invalidations ==
  ASSUME NEW ph \in Phase, NEW r \in Proc \cup {Dir}, ProtocolInv(ph, r),
         NEW m \in net, m.from \in Proc
  PROVE  /\ \A x \in sendInvalidations(m) :
               /\ x \in Message /\ x.vnet = "forward" /\ x.type = "INV" /\ x.from = m.from
               /\ x.to \in dir.sharers \ {m.from} /\ x.to \in Proc
         /\ \A q \in dir.sharers \ {m.from} : \E x \in sendInvalidations(m) : x.to = q
         /\ \A x, y \in sendInvalidations(m) : x.to = y.to => x = y
         /\ dir.sharers = {} => sendInvalidations(m) = {}
<1>1. \A q \in dir.sharers : q \in Proc
  BY DEF ProtocolInv, TypeOK, DirectoryTypeOK
<1> DEFINE V(q) == RequestMsg("forward", "INV", m.from, q, 0, 0)
<1>2. \A q \in Proc : /\ V(q) \in Message /\ V(q).vnet = "forward" /\ V(q).type = "INV"
                      /\ V(q).from = m.from /\ V(q).to = q
  BY DEF RequestMsg, Message, VirtualNetwork, CoherenceRequestType, CoherenceResponseType
<1>3. sendInvalidations(m) = {V(q) : q \in dir.sharers \ {m.from}}
  BY DEF sendInvalidations
<1> HIDE DEF V
<1> QED
  BY <1>1, <1>2, <1>3

(* The directory answers a GETX from memory and invalidates the sharers.  *)
LEMMA SendGETXStep ==
  ASSUME NEW ph \in Phase, NEW r \in Proc \cup {Dir}, ProtocolInv(ph, r),
         NEW m \in net, SendGETX(m), UNCHANGED <<cacheVars, sequencerVars>>
  PROVE  m.from \in Proc /\ ProtocolInv("dataX", m.from)'
<1> DEFINE p == m.from
           n == dirSendData(m)
           Invs == sendInvalidations(m)
<1> USE DEF ProtocolInv
<1>1. /\ m \in Message /\ dir \in [state : DirectoryState, owner : SUBSET Proc,
                                   sharers : SUBSET Proc, data : Nat]
      /\ latest \in Nat
  BY DEF TypeOK, DirectoryTypeOK
<1>2. /\ m.vnet = "request" /\ m.type = "GETX" /\ p \in Proc
      /\ cache[p].state \in {"IM", "SM", "OM"}
      /\ dir.state \in {"I", "S"} /\ dir.owner = {}
      /\ dir.state = "I" <=> dir.sharers = {}
  BY DEF SendGETX, IsRequest, MessagesOK, RequestsOK, DirectoryOK
<1>3. /\ ph = "idle" /\ Own(ph, r) = dir.owner
      /\ \A x \in net : ~IsForward(x) /\ ~IsData(x) /\ ~IsUnblock(x) /\ ~IsInv(x) /\ ~IsAck(x)
      /\ \A q \in Proc : cache[q].pending = 0 /\ cache[q].trigger = 0
  BY <1>2, IdleDirectory
<1>4. dir.data = latest /\ cache[p].state \in {"IM", "SM"}
  BY <1>2, <1>3 DEF DataOK, HoldersOK
<1>5. Acks(p) \in Nat
  <2>1. IsFiniteSet(dir.sharers \ {p})
    BY FS_Subset DEF DirectoryOK
  <2> QED
    BY <2>1, FS_CardinalityType DEF Acks
<1>6. /\ n \in Message /\ n.vnet = "response" /\ n.to = p /\ n.data = latest
      /\ n.type = (IF dir.state = "I" THEN "DATA_EXCLUSIVE_CLEAN" ELSE "DATA") /\ n.acks = Acks(p)
  BY <1>1, <1>2, <1>4, <1>5 DEF dirSendData, ResponseMsg, Message, VirtualNetwork,
         CoherenceRequestType, CoherenceResponseType
<1>7. /\ \A x \in Invs : /\ x \in Message /\ x.vnet = "forward" /\ x.type = "INV"
                         /\ x.from = p /\ x.to \in dir.sharers \ {p} /\ x.to \in Proc
      /\ \A q \in dir.sharers \ {p} : \E x \in Invs : x.to = q
      /\ \A x, y \in Invs : x.to = y.to => x = y
      /\ dir.sharers = {} => Invs = {}
  BY <1>2, Invalidations
<1> HIDE DEF n, Invs
<1>8. /\ net' = (net \ {m}) \cup ({n} \cup Invs)
      /\ merged' = (merged \/ (net \ {m}) \cap ({n} \cup Invs) # {})
      /\ UNCHANGED <<cache, latest, readRequestTable, writeRequestTable, requestQueue>>
  <2>1. Transmit({m}, {n} \cup (IF dir.state = "S" THEN Invs ELSE {}))
    BY DEF SendGETX, DirTransition, n, Invs
  <2>2. (IF dir.state = "S" THEN Invs ELSE {}) = Invs
    BY <1>2, <1>7
  <2> QED
    BY <2>1, <2>2 DEF Transmit, cacheVars, sequencerVars
<1>9. /\ dir' \in [state : DirectoryState, owner : SUBSET Proc,
                   sharers : SUBSET Proc, data : Nat]
      /\ dir'.state = IF dir.state = "I" THEN "IM" ELSE "SM"
      /\ dir'.owner = {} /\ dir'.sharers = dir.sharers /\ dir'.data = latest
  BY <1>1, <1>2, <1>4 DEF SendGETX, DirTransition, DirectoryState
<1>10. TypeOK' /\ ~merged'
  <2>1. \A x \in {n} \cup Invs : x \notin net /\ x \in Message
    BY <1>3, <1>6, <1>7 DEF IsData, IsInv
  <2> QED
    BY <1>8, <1>9, <2>1 DEF TypeOK, SequencerTypeOK, DirectoryTypeOK
<1>11. MessagesOK'
  BY <1>2, <1>6, <1>7, <1>8 DEF MessagesOK, IsAck
<1>12. DirectoryOK'
  BY <1>2, <1>9 DEF DirectoryOK
<1>13. RequestsOK'
  BY <1>6, <1>7, <1>8 DEF RequestsOK
<1>14. Own("dataX", p)' = {}
  BY DEF Own
<1>15. WritebacksOK("dataX", p)'
  BY <1>6, <1>7, <1>8, <1>14 DEF WritebacksOK, IsWbAck
<1>16. RecordsOK' /\ SequencerOK'
  BY <1>8 DEF RecordsOK, SequencerOK
<1>17. Acks(p)' = Acks(p)
  BY <1>9 DEF Acks
<1>18. TransactionOK("dataX", p)'
  BY <1>2, <1>3, <1>6, <1>7, <1>8, <1>9, <1>17
     DEF TransactionOK, IsForward, IsData, IsUnblock, IsInv, DirStates
<1>19. RequestorOK("dataX", p)'
  BY <1>2, <1>4, <1>6, <1>7, <1>8 DEF RequestorOK, RequestsOK
<1>20. HoldersOK("dataX", p)'
  BY <1>2, <1>3, <1>7, <1>8, <1>9, <1>14 DEF HoldersOK, Invalidating, IsInv
<1>21. InvalidationsOK("dataX", p)'
  BY <1>3, <1>6, <1>7, <1>8, <1>9 DEF InvalidationsOK, IsInv, IsAck, Invalidating
<1>22. CountsOK("dataX", p)'
  <2>1. Unacked' = dir.sharers \ {p}
    BY <1>1, <1>3, <1>6, <1>7, <1>8 DEF Unacked, IsInv, IsAck
  <2>2. Cardinality(Unacked') = Acks(p)
    BY <2>1 DEF Acks
  <2> QED
    BY <1>3, <1>5, <1>8, <1>17, <2>2 DEF CountsOK, Invalidating
<1>23. DataOK("dataX", p)'
  BY <1>2, <1>3, <1>4, <1>6, <1>7, <1>8, <1>9, <1>14 DEF DataOK
<1> QED
  BY <1>2, <1>10, <1>11, <1>12, <1>13, <1>15, <1>16, <1>18, <1>19, <1>20, <1>21, <1>22, <1>23

(* A forwarded request is one message, to the one owner.                  *)
LEMMA Forwarded ==
  ASSUME NEW m, m.from \in Proc, m.type \in {"GETS", "GETX"},
         NEW o \in Proc, dir.owner = {o}, Acks(m.from) \in Nat
  PROVE  \E n \in Message : /\ forwardRequest(m) = {n}
                            /\ n.vnet = "forward" /\ n.type = m.type /\ n.from = m.from
                            /\ n.to = o /\ n.acks = Acks(m.from)
<1> DEFINE n == RequestMsg("forward", m.type, m.from, o, 0, Acks(m.from))
<1>1. forwardRequest(m) = {n}
  BY DEF forwardRequest
<1>2. /\ n \in Message /\ n.vnet = "forward" /\ n.type = m.type /\ n.from = m.from
      /\ n.to = o /\ n.acks = Acks(m.from)
  BY DEF RequestMsg, Message, VirtualNetwork, CoherenceRequestType, CoherenceResponseType
<1> QED
  BY <1>1, <1>2

(* The directory forwards a GETS to the owner.                            *)
LEMMA ForwardGETSStep ==
  ASSUME NEW ph \in Phase, NEW r \in Proc \cup {Dir}, ProtocolInv(ph, r),
         NEW m \in net, ForwardGETS(m), UNCHANGED <<cacheVars, sequencerVars>>
  PROVE  m.from \in Proc /\ ProtocolInv("fwdS", m.from)'
<1> DEFINE p == m.from
<1> USE DEF ProtocolInv
<1>1. /\ m \in Message /\ dir \in [state : DirectoryState, owner : SUBSET Proc,
                                   sharers : SUBSET Proc, data : Nat]
      /\ latest \in Nat
  BY DEF TypeOK, DirectoryTypeOK
<1>2. /\ m.vnet = "request" /\ m.type = "GETS" /\ p \in Proc /\ cache[p].state = "IS"
      /\ dir.state \in {"O", "M"}
  BY DEF ForwardGETS, IsRequest, MessagesOK, RequestsOK
<1>3. /\ ph = "idle" /\ Own(ph, r) = dir.owner
      /\ \A x \in net : ~IsForward(x) /\ ~IsData(x) /\ ~IsUnblock(x) /\ ~IsInv(x) /\ ~IsAck(x)
      /\ \A q \in Proc : cache[q].pending = 0 /\ cache[q].trigger = 0
  BY <1>2, IdleDirectory
<1>4. PICK o \in Proc : dir.owner = {o}
  BY <1>2 DEF DirectoryOK
<1>5. Acks(p) \in Nat
  <2>1. IsFiniteSet(dir.sharers \ {p})
    BY FS_Subset DEF DirectoryOK
  <2> QED
    BY <2>1, FS_CardinalityType DEF Acks
<1>6. PICK n \in Message : /\ forwardRequest(m) = {n}
                           /\ n.vnet = "forward" /\ n.type = m.type /\ n.from = m.from
                           /\ n.to = o /\ n.acks = Acks(m.from)
  BY <1>2, <1>4, <1>5, Forwarded
<1>7. /\ net' = (net \ {m}) \cup {n} /\ merged' = (merged \/ (net \ {m}) \cap {n} # {})
      /\ UNCHANGED <<cache, latest, readRequestTable, writeRequestTable, requestQueue>>
  BY <1>6 DEF ForwardGETS, DirTransition, Transmit, cacheVars, sequencerVars
<1>8. /\ dir' \in [state : DirectoryState, owner : SUBSET Proc,
                   sharers : SUBSET Proc, data : Nat]
      /\ dir'.state = IF dir.state = "O" THEN "OO" ELSE "MO"
      /\ dir'.owner = dir.owner /\ dir'.sharers = dir.sharers /\ dir'.data = dir.data
  BY <1>1, <1>2 DEF ForwardGETS, DirTransition, DirectoryState
<1>9. TypeOK' /\ ~merged'
  <2>1. n \notin net
    BY <1>2, <1>3, <1>6 DEF IsForward
  <2> QED
    BY <1>6, <1>7, <1>8, <2>1 DEF TypeOK, SequencerTypeOK, DirectoryTypeOK
<1>10. MessagesOK'
  BY <1>2, <1>6, <1>7 DEF MessagesOK, IsAck
<1>11. DirectoryOK'
  BY <1>2, <1>8 DEF DirectoryOK
<1>12. RequestsOK'
  BY <1>6, <1>7 DEF RequestsOK
<1>13. Own("fwdS", p)' = Own(ph, r) /\ (Exclusive("fwdS")' <=> Exclusive(ph))
  BY <1>2, <1>3, <1>8 DEF Own, Exclusive
<1>14. WritebacksOK("fwdS", p)'
  BY <1>6, <1>7, <1>13 DEF WritebacksOK, IsWbAck
<1>15. RecordsOK' /\ SequencerOK'
  BY <1>7 DEF RecordsOK, SequencerOK
<1>16. Acks(p)' = Acks(p)
  BY <1>8 DEF Acks
<1>17. TransactionOK("fwdS", p)'
  BY <1>2, <1>3, <1>4, <1>6, <1>7, <1>8, <1>16
     DEF TransactionOK, IsForward, IsData, IsUnblock, DirStates
<1>18. RequestorOK("fwdS", p)'
  BY <1>2, <1>6, <1>7 DEF RequestorOK, RequestsOK
<1>19. HoldersOK("fwdS", p)'
  BY <1>2, <1>3, <1>7, <1>8, <1>13 DEF HoldersOK, Invalidating
<1>20. InvalidationsOK("fwdS", p)'
  BY <1>2, <1>3, <1>6, <1>7 DEF InvalidationsOK, IsInv, IsAck
<1>21. CountsOK("fwdS", p)'
  BY <1>3, <1>7 DEF CountsOK, Invalidating
<1>22. DataOK("fwdS", p)'
  BY <1>2, <1>3, <1>6, <1>7, <1>8, <1>13 DEF DataOK
<1> QED
  BY <1>2, <1>9, <1>10, <1>11, <1>12, <1>14, <1>15, <1>17, <1>18, <1>19, <1>20, <1>21, <1>22

(* The directory forwards a GETX to the owner and invalidates the         *)
(* sharers; the requestor may be the owner or a sharer.                   *)
LEMMA ForwardGETXStep ==
  ASSUME NEW ph \in Phase, NEW r \in Proc \cup {Dir}, ProtocolInv(ph, r),
         NEW m \in net, ForwardGETX(m), UNCHANGED <<cacheVars, sequencerVars>>
  PROVE  m.from \in Proc /\ ProtocolInv("fwdX", m.from)'
<1> DEFINE p == m.from
           Invs == sendInvalidations(m)
<1> USE DEF ProtocolInv
<1>1. /\ m \in Message /\ dir \in [state : DirectoryState, owner : SUBSET Proc,
                                   sharers : SUBSET Proc, data : Nat]
      /\ latest \in Nat
  BY DEF TypeOK, DirectoryTypeOK
<1>2. /\ m.vnet = "request" /\ m.type = "GETX" /\ p \in Proc
      /\ cache[p].state \in {"IM", "SM", "OM"}
      /\ dir.state \in {"O", "M"}
      /\ dir.state = "M" => dir.sharers = {}
  BY DEF ForwardGETX, IsRequest, MessagesOK, RequestsOK, DirectoryOK
<1>3. /\ ph = "idle" /\ Own(ph, r) = dir.owner
      /\ \A x \in net : ~IsForward(x) /\ ~IsData(x) /\ ~IsUnblock(x) /\ ~IsInv(x) /\ ~IsAck(x)
      /\ \A q \in Proc : cache[q].pending = 0 /\ cache[q].trigger = 0
  BY <1>2, IdleDirectory
<1>4. PICK o \in Proc : dir.owner = {o}
  BY <1>2 DEF DirectoryOK
<1>5. cache[p].state \in (IF p \in dir.owner THEN {"OM"} ELSE {"IM", "SM"})
  BY <1>2, <1>3 DEF HoldersOK
<1>6. Acks(p) \in Nat
  <2>1. IsFiniteSet(dir.sharers \ {p})
    BY FS_Subset DEF DirectoryOK
  <2> QED
    BY <2>1, FS_CardinalityType DEF Acks
<1>7. PICK n \in Message : /\ forwardRequest(m) = {n}
                           /\ n.vnet = "forward" /\ n.type = m.type /\ n.from = m.from
                           /\ n.to = o /\ n.acks = Acks(m.from)
  BY <1>2, <1>4, <1>6, Forwarded
<1>8. /\ \A x \in Invs : /\ x \in Message /\ x.vnet = "forward" /\ x.type = "INV"
                         /\ x.from = p /\ x.to \in dir.sharers \ {p} /\ x.to \in Proc
      /\ \A q \in dir.sharers \ {p} : \E x \in Invs : x.to = q
      /\ \A x, y \in Invs : x.to = y.to => x = y
      /\ dir.sharers = {} => Invs = {}
  BY <1>2, Invalidations
<1> HIDE DEF Invs
<1>9. /\ net' = (net \ {m}) \cup ({n} \cup Invs)
      /\ merged' = (merged \/ (net \ {m}) \cap ({n} \cup Invs) # {})
      /\ UNCHANGED <<cache, latest, readRequestTable, writeRequestTable, requestQueue>>
  <2>1. Transmit({m}, {n} \cup (IF dir.state = "O" THEN Invs ELSE {}))
    BY <1>7 DEF ForwardGETX, DirTransition, Invs
  <2>2. (IF dir.state = "O" THEN Invs ELSE {}) = Invs
    BY <1>2, <1>8
  <2> QED
    BY <2>1, <2>2 DEF Transmit, cacheVars, sequencerVars
<1>10. /\ dir' \in [state : DirectoryState, owner : SUBSET Proc,
                    sharers : SUBSET Proc, data : Nat]
       /\ dir'.state = IF dir.state = "O" THEN "OM" ELSE "MM"
       /\ dir'.owner = dir.owner /\ dir'.sharers = dir.sharers /\ dir'.data = dir.data
  BY <1>1, <1>2 DEF ForwardGETX, DirTransition, DirectoryState
<1>11. TypeOK' /\ ~merged'
  <2>1. \A x \in {n} \cup Invs : x \notin net /\ x \in Message
    BY <1>2, <1>3, <1>7, <1>8 DEF IsForward, IsInv
  <2> QED
    BY <1>9, <1>10, <2>1 DEF TypeOK, SequencerTypeOK, DirectoryTypeOK
<1>12. MessagesOK'
  BY <1>2, <1>7, <1>8, <1>9 DEF MessagesOK, IsAck
<1>13. DirectoryOK'
  BY <1>2, <1>10 DEF DirectoryOK
<1>14. RequestsOK'
  BY <1>7, <1>8, <1>9 DEF RequestsOK
<1>15. Own("fwdX", p)' = Own(ph, r) /\ (Exclusive("fwdX")' <=> Exclusive(ph))
  BY <1>2, <1>3, <1>10 DEF Own, Exclusive
<1>16. WritebacksOK("fwdX", p)'
  BY <1>7, <1>8, <1>9, <1>15 DEF WritebacksOK, IsWbAck
<1>17. RecordsOK' /\ SequencerOK'
  BY <1>9 DEF RecordsOK, SequencerOK
<1>18. Acks(p)' = Acks(p)
  BY <1>10 DEF Acks
<1>19. TransactionOK("fwdX", p)'
  BY <1>2, <1>3, <1>4, <1>7, <1>8, <1>9, <1>10, <1>18
     DEF TransactionOK, IsForward, IsData, IsUnblock, IsInv, DirStates
<1>20. RequestorOK("fwdX", p)'
  BY <1>2, <1>5, <1>7, <1>8, <1>9, <1>10 DEF RequestorOK, RequestsOK
<1>21. HoldersOK("fwdX", p)'
  BY <1>2, <1>3, <1>8, <1>9, <1>10, <1>15 DEF HoldersOK, Invalidating, IsInv
<1>22. InvalidationsOK("fwdX", p)'
  BY <1>2, <1>3, <1>7, <1>8, <1>9, <1>10 DEF InvalidationsOK, IsInv, IsAck, Invalidating
<1>23. CountsOK("fwdX", p)'
  <2>1. Unacked' = dir.sharers \ {p}
    BY <1>1, <1>2, <1>3, <1>7, <1>8, <1>9 DEF Unacked, IsInv, IsAck
  <2>2. Cardinality(Unacked') = Acks(p)
    BY <2>1 DEF Acks
  <2> QED
    BY <1>3, <1>6, <1>9, <1>18, <2>2 DEF CountsOK, Invalidating
<1>24. DataOK("fwdX", p)'
  BY <1>2, <1>3, <1>7, <1>8, <1>9, <1>10, <1>15 DEF DataOK
<1> QED
  BY <1>2, <1>11, <1>12, <1>13, <1>14, <1>16, <1>17, <1>19, <1>20, <1>21, <1>22, <1>23, <1>24

(* A PUT, whoever the directory believes the owner is: what is common to  *)
(* the three transitions that answer it with WB_ACK.                      *)
LEMMA PutStep ==
  ASSUME NEW ph \in Phase, NEW r \in Proc \cup {Dir}, ProtocolInv(ph, r),
         NEW m \in net, UNCHANGED <<cacheVars, sequencerVars>>,
         IsPut(m), dir.state \in {"I", "S", "O", "M"},
         Transmit({m}, {sendWritebackAck(m)}),
         dir' \in [state : DirectoryState, owner : SUBSET Proc,
                   sharers : SUBSET Proc, data : Nat],
         \/ dir' = dir /\ m.from \notin dir.owner
         \/ /\ m.from \in dir.owner
            /\ dir.state \in {"O", "M"}
            /\ dir'.state = IF dir.state = "O" THEN "S" ELSE "I"
            /\ dir'.owner = {} /\ dir'.sharers = dir.sharers /\ dir'.data = latest
  PROVE  ProtocolInv("idle", r)'
<1> DEFINE p == m.from
           n == sendWritebackAck(m)
<1> USE DEF ProtocolInv
<1>1. /\ m.vnet = "request" /\ m.type \in {"PUT_CLEAN", "PUT_DIRTY"} /\ p \in Proc
      /\ cache[p].state = "II"
  BY DEF IsPut, MessagesOK, RequestsOK
<1>2. /\ ph = "idle" /\ Own(ph, r) = dir.owner
      /\ \A x \in net : ~IsForward(x) /\ ~IsData(x) /\ ~IsUnblock(x) /\ ~IsInv(x) /\ ~IsAck(x)
      /\ \A q \in Proc : cache[q].pending = 0 /\ cache[q].trigger = 0
  BY IdleDirectory
<1>3. /\ n \in Message /\ n.vnet = "response" /\ n.type = "WB_ACK" /\ n.from = p /\ n.to = p
  BY <1>1 DEF sendWritebackAck, ResponseMsg, Message, VirtualNetwork,
         CoherenceRequestType, CoherenceResponseType
<1>4. /\ net' = (net \ {m}) \cup {n} /\ merged' = (merged \/ (net \ {m}) \cap {n} # {})
      /\ UNCHANGED <<cache, latest, readRequestTable, writeRequestTable, requestQueue>>
  BY DEF Transmit, cacheVars, sequencerVars
<1>5. TypeOK' /\ ~merged'
  <2>1. n \notin net
    BY <1>1, <1>3 DEF WritebacksOK, IsWbAck
  <2> QED
    BY <1>3, <1>4, <2>1 DEF TypeOK, SequencerTypeOK, DirectoryTypeOK
<1>6. MessagesOK'
  BY <1>1, <1>3, <1>4 DEF MessagesOK, IsAck
<1>7. DirectoryOK'
  BY DEF DirectoryOK
<1>8. RequestsOK'
  BY <1>3, <1>4 DEF RequestsOK
<1>9. /\ Own("idle", r)' = dir'.owner /\ p \notin dir'.owner /\ dir'.owner \subseteq dir.owner
      /\ dir'.owner = {} \/ dir' = dir
  BY DEF Own
<1>10. WritebacksOK("idle", r)'
  BY <1>1, <1>2, <1>3, <1>4, <1>9 DEF WritebacksOK, IsWbAck, RequestsOK
<1>11. RecordsOK' /\ SequencerOK'
  BY <1>4 DEF RecordsOK, SequencerOK
<1>12. TransactionOK("idle", r)'
  <2>1. dir'.state \in {"I", "S", "O", "M"}
    OBVIOUS
  <2> QED
    BY <1>2, <1>3, <1>4, <2>1 DEF TransactionOK, IsForward, IsData, IsUnblock, DirStates
<1>13. RequestorOK("idle", r)'
  BY DEF RequestorOK
<1>14. HoldersOK("idle", r)'
  <2>1. CASE dir' = dir
    BY <1>2, <1>4, <1>9, <2>1 DEF HoldersOK, Invalidating, Exclusive
  <2>2. CASE dir'.owner = {} /\ m.from \in dir.owner /\ dir'.sharers = dir.sharers
    <3>1. Own(ph, r) = {p}
      BY <1>2, <2>2, OwnAtMostOne
    <3> QED
      BY <1>1, <1>2, <1>4, <1>9, <2>2, <3>1 DEF HoldersOK, Invalidating
  <2> QED
    BY <2>1, <2>2
<1>15. InvalidationsOK("idle", r)'
  BY <1>2, <1>3, <1>4 DEF InvalidationsOK, IsInv, IsAck
<1>16. CountsOK("idle", r)'
  BY <1>2, <1>4 DEF CountsOK, Invalidating
<1>17. DataOK("idle", r)'
  <2>1. CASE dir' = dir
    BY <1>2, <1>3, <1>4, <1>9, <2>1 DEF DataOK
  <2>2. CASE dir'.owner = {} /\ dir'.data = latest
    <3>1. latest \in Nat
      BY DEF TypeOK
    <3> QED
      BY <1>2, <1>3, <1>4, <1>9, <2>2, <3>1 DEF DataOK
  <2> QED
    BY <2>1, <2>2
<1> QED
  BY <1>5, <1>6, <1>7, <1>8, <1>10, <1>11, <1>12, <1>13, <1>14, <1>15, <1>16, <1>17

(* The PUT of the owner brings the latest version to memory; the PUT of a *)
(* cache that has given the block away in the meantime is only answered.  *)
LEMMA PutsStep ==
  ASSUME NEW ph \in Phase, NEW r \in Proc \cup {Dir}, ProtocolInv(ph, r),
         NEW m \in net, Dirty_PUT(m) \/ Clean_PUT(m) \/ Stale_PUT(m),
         UNCHANGED <<cacheVars, sequencerVars>>
  PROVE  ProtocolInv("idle", r)' /\ dir'.data >= dir.data
<1> USE DEF ProtocolInv
<1>1. /\ dir \in [state : DirectoryState, owner : SUBSET Proc,
                  sharers : SUBSET Proc, data : Nat]
      /\ latest \in Nat /\ dir.data <= latest
  BY DEF TypeOK, DirectoryTypeOK, DataOK
<1>2. IsPut(m) /\ Transmit({m}, {sendWritebackAck(m)})
  BY DEF Dirty_PUT, Clean_PUT, Stale_PUT, DirTransition, IsPut, IsOwnerPut, IsStalePut, IsRequest
<1>3. dir.state \in {"I", "S", "O", "M"}
  BY <1>1 DEF Dirty_PUT, Clean_PUT, Stale_PUT, Busy, DirectoryState
<1>4. ph = "idle" /\ Own(ph, r) = dir.owner
  BY <1>3, IdleDirectory
<1>5. CASE Stale_PUT(m)
  <2>1. dir' = dir /\ m.from \notin dir.owner
    BY <1>5 DEF Stale_PUT, DirTransition, IsStalePut
  <2> QED
    BY <1>1, <1>2, <1>3, <2>1, PutStep
<1>6. CASE Dirty_PUT(m) \/ Clean_PUT(m)
  <2>1. m.from \in dir.owner /\ dir.state \in {"O", "M"} /\ m.from \in Proc
    BY <1>1, <1>6 DEF Dirty_PUT, Clean_PUT, IsOwnerPut
  <2>2. m.data = latest
    BY <1>2, <1>4, <2>1 DEF RequestsOK, DataOK, IsPut
  <2>3. PICK d : /\ d \in Nat
                 /\ dir' = [dir EXCEPT !.state = IF @ = "O" THEN "S" ELSE "I",
                                       !.owner = {}, !.data = d]
                 /\ d = latest
    <3>1. CASE Dirty_PUT(m)
      BY <1>1, <2>2, <3>1 DEF Dirty_PUT, DirTransition
    <3>2. CASE Clean_PUT(m)
      <4>1. m.data = dir.data
        BY <1>4, <2>1, <3>2 DEF Clean_PUT, IsOwnerPut, IsRequest, DataOK
      <4>2. dir' = [dir EXCEPT !.state = IF @ = "O" THEN "S" ELSE "I",
                               !.owner = {}, !.data = dir.data]
        BY <1>1, <3>2 DEF Clean_PUT, DirTransition
      <4> QED
        BY <1>1, <2>2, <4>1, <4>2
    <3> QED
      BY <1>6, <3>1, <3>2
  <2>4. /\ dir' \in [state : DirectoryState, owner : SUBSET Proc,
                     sharers : SUBSET Proc, data : Nat]
        /\ dir'.state = IF dir.state = "O" THEN "S" ELSE "I"
        /\ dir'.owner = {} /\ dir'.sharers = dir.sharers /\ dir'.data = latest
    BY <1>1, <2>3 DEF DirectoryState
  <2> QED
    BY <1>1, <1>2, <1>3, <2>1, <2>4, PutStep
<1> QED
  BY <1>5, <1>6

(* UNBLOCK: the directory records the new sharer.                         *)
LEMMA UnblockStep ==
  ASSUME NEW ph \in Phase, NEW r \in Proc \cup {Dir}, ProtocolInv(ph, r),
         NEW m \in net, Unblock(m), UNCHANGED <<cacheVars, sequencerVars>>
  PROVE  ph = "unbS" /\ ProtocolInv("idle", r)'
<1> USE DEF ProtocolInv
<1>1. /\ dir \in [state : DirectoryState, owner : SUBSET Proc,
                  sharers : SUBSET Proc, data : Nat]
      /\ latest \in Nat /\ m \in Message
  BY DEF TypeOK, DirectoryTypeOK
<1>2. /\ IsUnblock(m) /\ ph = "unbS" /\ m.from = r /\ r \in Proc
      /\ r \notin dir.owner /\ dir.state \in {"SS", "OO", "MO"}
  BY DEF Unblock, IsUnblock, TransactionOK, RequestorOK, MessagesOK, DirStates
<1>3. /\ net' = net \ {m} /\ merged' = merged
      /\ UNCHANGED <<cache, latest, readRequestTable, writeRequestTable, requestQueue>>
  BY DEF Unblock, DirTransition, Transmit, cacheVars, sequencerVars, TypeOK
<1>4. /\ dir' \in [state : DirectoryState, owner : SUBSET Proc,
                   sharers : SUBSET Proc, data : Nat]
      /\ dir'.state = IF dir.state = "SS" THEN "S" ELSE "O"
      /\ dir'.owner = dir.owner /\ dir'.sharers = dir.sharers \cup {r}
      /\ dir'.data = dir.data
  <2>1. PICK s : s = UnblockedState[dir.state]
    OBVIOUS
  <2>2. s = (IF dir.state = "SS" THEN "S" ELSE "O") /\ s \in DirectoryState
    BY <1>2, <2>1 DEF UnblockedState, DirectoryState
  <2>3. dir' = [dir EXCEPT !.state = s, !.sharers = @ \cup {r}]
    BY <1>1, <1>2, <2>1 DEF Unblock, DirTransition
  <2> QED
    BY <1>1, <1>2, <2>2, <2>3
<1>5. TypeOK' /\ ~merged'
  BY <1>3, <1>4 DEF TypeOK, SequencerTypeOK, DirectoryTypeOK
<1>6. MessagesOK' /\ RequestsOK' /\ RecordsOK' /\ SequencerOK'
  BY <1>3 DEF MessagesOK, IsAck, RequestsOK, RecordsOK, SequencerOK
<1>7. DirectoryOK'
  <2>1. IsFiniteSet(dir'.sharers)
    BY <1>4, FS_AddElement DEF DirectoryOK
  <2> QED
    BY <1>2, <1>4, <2>1 DEF DirectoryOK
<1>8. Own("idle", r)' = dir.owner /\ Own(ph, r) = dir.owner /\ ~Exclusive(ph) /\ ~Exclusive("idle")'
  BY <1>2, <1>4 DEF Own, Exclusive
<1>9. WritebacksOK("idle", r)'
  BY <1>3, <1>8 DEF WritebacksOK, IsWbAck
<1>10. TransactionOK("idle", r)'
  BY <1>2, <1>3, <1>4 DEF TransactionOK, IsForward, IsData, IsUnblock, DirStates
<1>11. RequestorOK("idle", r)'
  BY DEF RequestorOK
<1>12. HoldersOK("idle", r)'
  BY <1>2, <1>3, <1>4, <1>8 DEF HoldersOK, Invalidating
<1>13. InvalidationsOK("idle", r)'
  BY <1>2, <1>3 DEF InvalidationsOK, IsInv, IsAck, Invalidating
<1>14. CountsOK("idle", r)'
  BY <1>2, <1>3 DEF CountsOK, Invalidating
<1>15. DataOK("idle", r)'
  BY <1>2, <1>3, <1>4, <1>8 DEF DataOK
<1> QED
  BY <1>2, <1>5, <1>6, <1>7, <1>9, <1>10, <1>11, <1>12, <1>13, <1>14, <1>15

(* UNBLOCK_EXCLUSIVE: the directory records the new owner.                *)
LEMMA Exclusive_UnblockStep ==
  ASSUME NEW ph \in Phase, NEW r \in Proc \cup {Dir}, ProtocolInv(ph, r),
         NEW m \in net, Exclusive_Unblock(m), UNCHANGED <<cacheVars, sequencerVars>>
  PROVE  ph = "unbE" /\ ProtocolInv("idle", r)'
<1> USE DEF ProtocolInv
<1>1. /\ dir \in [state : DirectoryState, owner : SUBSET Proc,
                  sharers : SUBSET Proc, data : Nat]
      /\ latest \in Nat /\ m \in Message
  BY DEF TypeOK, DirectoryTypeOK
<1>2. /\ IsUnblock(m) /\ ph = "unbE" /\ m.from = r /\ r \in Proc
  BY DEF Exclusive_Unblock, IsUnblock, TransactionOK, MessagesOK
<1>3. /\ net' = net \ {m} /\ merged' = merged
      /\ UNCHANGED <<cache, latest, readRequestTable, writeRequestTable, requestQueue>>
  BY DEF Exclusive_Unblock, DirTransition, Transmit, cacheVars, sequencerVars, TypeOK
<1>4. /\ dir' \in [state : DirectoryState, owner : SUBSET Proc,
                   sharers : SUBSET Proc, data : Nat]
      /\ dir'.state = "M" /\ dir'.owner = {r} /\ dir'.sharers = {} /\ dir'.data = dir.data
  <2>1. dir' = [dir EXCEPT !.state = "M", !.sharers = {}, !.owner = {r}]
    BY <1>2 DEF Exclusive_Unblock, DirTransition
  <2> QED
    BY <1>1, <1>2, <2>1 DEF DirectoryState
<1>5. TypeOK' /\ ~merged'
  BY <1>3, <1>4 DEF TypeOK, SequencerTypeOK, DirectoryTypeOK
<1>6. MessagesOK' /\ RequestsOK' /\ RecordsOK' /\ SequencerOK'
  BY <1>3 DEF MessagesOK, IsAck, RequestsOK, RecordsOK, SequencerOK
<1>7. DirectoryOK'
  BY <1>2, <1>4, FS_EmptySet DEF DirectoryOK
<1>8. Own("idle", r)' = {r} /\ Own(ph, r) = {r} /\ Exclusive(ph) /\ Exclusive("idle")'
  BY <1>2, <1>4 DEF Own, Exclusive
<1>9. WritebacksOK("idle", r)'
  BY <1>3, <1>8 DEF WritebacksOK, IsWbAck
<1>10. TransactionOK("idle", r)'
  BY <1>2, <1>3, <1>4 DEF TransactionOK, IsForward, IsData, IsUnblock, DirStates
<1>11. RequestorOK("idle", r)'
  BY DEF RequestorOK
<1>12. HoldersOK("idle", r)'
  BY <1>2, <1>3, <1>4, <1>8 DEF HoldersOK, Invalidating
<1>13. InvalidationsOK("idle", r)'
  BY <1>2, <1>3 DEF InvalidationsOK, IsInv, IsAck, Invalidating
<1>14. CountsOK("idle", r)'
  BY <1>2, <1>3 DEF CountsOK, Invalidating
<1>15. DataOK("idle", r)'
  BY <1>2, <1>3, <1>4, <1>8 DEF DataOK
<1> QED
  BY <1>2, <1>5, <1>6, <1>7, <1>9, <1>10, <1>11, <1>12, <1>13, <1>14, <1>15

------------------------------------------------------------------------------
(* The invariant.                                                         *)

(* Nothing is cached and nothing is under way at the start.               *)
LEMMA InitIInv == Init => IInv
<1> SUFFICES ASSUME Init PROVE ProtocolInv("idle", Dir)
  BY DEF IInv, Phase
<1> USE DEF Init, SequencerInit, CacheInit, DirectoryInit, NetworkInit
<1>1. NotPresent \in CacheRecord
  BY DEF NotPresent, CacheRecord, CacheState
<1>2. \A p \in Proc : /\ cache[p].state = "NP" /\ cache[p].loc = "none" /\ ~cache[p].tbe
                      /\ cache[p].pending = 0 /\ cache[p].trigger = 0
  BY DEF NotPresent
<1>3. TypeOK /\ ~merged
  BY <1>1 DEF TypeOK, SequencerTypeOK, DirectoryTypeOK, DirectoryState
<1>4. MessagesOK /\ RequestsOK /\ WritebacksOK("idle", Dir) /\ InvalidationsOK("idle", Dir)
  BY DEF MessagesOK, RequestsOK, WritebacksOK, InvalidationsOK
<1>5. RecordsOK /\ SequencerOK
  BY <1>2 DEF RecordsOK, SequencerOK
<1>6. DirectoryOK
  BY FS_EmptySet DEF DirectoryOK
<1>7. TransactionOK("idle", Dir)
  BY DEF TransactionOK, DirStates
<1>8. RequestorOK("idle", Dir) /\ CountsOK("idle", Dir)
  BY <1>2 DEF RequestorOK, CountsOK, Invalidating
<1>9. HoldersOK("idle", Dir) /\ DataOK("idle", Dir)
  BY <1>2 DEF HoldersOK, DataOK, Own
<1> QED
  BY <1>3, <1>4, <1>5, <1>6, <1>7, <1>8, <1>9 DEF ProtocolInv

(* A stuttering step keeps the invariant.                                 *)
LEMMA StutterStep ==
  ASSUME NEW ph \in Phase, NEW r \in Proc \cup {Dir}, ProtocolInv(ph, r), UNCHANGED vars
  PROVE  ProtocolInv(ph, r)'
<1> USE DEF ProtocolInv, vars
<1>1. TypeOK' /\ RecordsOK' /\ SequencerOK'
  BY DEF TypeOK, SequencerTypeOK, DirectoryTypeOK, RecordsOK, SequencerOK
<1> QED
  BY <1>1, Frame

(* Every message a cache receives moves the transaction to the next       *)
(* phase, or leaves it where it is.                                       *)
LEMMA CacheReceiveStep ==
  ASSUME IInv, NEW p \in Proc, NEW m \in net, m.to = p, CacheReceive(p, m), UNCHANGED dir
  PROVE  IInv'
<1>1. PICK ph \in Phase, r \in Proc \cup {Dir} : ProtocolInv(ph, r)
  BY DEF IInv
<1> SUFFICES \E next \in Phase, s \in Proc \cup {Dir} : ProtocolInv(next, s)'
  BY DEF IInv
<1>2. {"dataX", "acks", "dataS", "dataE", "unbS", "unbE"} \subseteq Phase
  BY DEF Phase
<1>3. CASE Inv(p, m)
  BY <1>1, <1>3, InvStep
<1>4. CASE Fwd_GETX(p, m)
  BY <1>1, <1>2, <1>4, Fwd_GETXStep
<1>5. CASE Fwd_GETS(p, m)
  <2>0. PICK next \in Phase : next = IF cache[p].state = "MM" THEN "dataE" ELSE "dataS"
    BY <1>2
  <2>1. ProtocolInv(next, r)'
    BY <1>1, <2>0, <1>5, Fwd_GETSStep
  <2> QED
    BY <2>1
<1>6. CASE Own_GETX(p, m)
  BY <1>1, <1>2, <1>6, Own_GETXStep
<1>7. CASE Ack(p, m)
  BY <1>1, <1>7, AckStep
<1>8. CASE DataForStore(p, m)
  BY <1>1, <1>2, <1>8, DataForStoreStep
<1>9. CASE DataForLoad(p, m)
  <2>0. PICK next \in Phase : next = IF m.type = "DATA" THEN "unbS" ELSE "unbE"
    BY <1>2
  <2>1. ProtocolInv(next, r)'
    BY <1>1, <2>0, <1>9, DataForLoadStep
  <2> QED
    BY <2>1
<1>10. CASE Writeback_Ack(p, m)
  BY <1>1, <1>10, Writeback_AckStep
<1> QED
  BY <1>3, <1>4, <1>5, <1>6, <1>7, <1>8, <1>9, <1>10 DEF CacheReceive

(* Nothing a processor does on its own, and no replacement, moves a       *)
(* transaction; ALL_ACKS ends the collection of the acks.                 *)
LEMMA CacheRequestStep ==
  ASSUME IInv, NEW p \in Proc, CacheRequest(p) \/ All_acks(p), UNCHANGED dir
  PROVE  IInv'
<1>1. PICK ph \in Phase, r \in Proc \cup {Dir} : ProtocolInv(ph, r)
  BY DEF IInv
<1> SUFFICES \E next \in Phase : ProtocolInv(next, r)'
  BY DEF IInv
<1>2. CASE \E type \in CacheRequestType : MakeRequest(p, type)
  BY <1>1, <1>2, MakeRequestStep
<1>3. CASE \E type \in CacheRequestType : LoadMiss(p, type)
  BY <1>1, <1>3, LoadMissStep
<1>4. CASE \E type \in CacheRequestType : LoadHit(p, type)
  BY <1>1, <1>4, LoadHitStep
<1>5. CASE L1_to_L2(p) \/ \E type \in CacheRequestType : L2_to_L1(p, type)
  BY <1>1, <1>5, MoveStep
<1>6. CASE FastPathStore(p)
  BY <1>1, <1>6, FastPathStoreStep
<1>7. CASE StoreMiss(p)
  BY <1>1, <1>7, StoreMissStep
<1>8. CASE StoreHit(p)
  BY <1>1, <1>8, StoreHitStep
<1>9. CASE SilentReplacement(p)
  BY <1>1, <1>9, SilentReplacementStep
<1>10. CASE OwnerReplacement(p)
  BY <1>1, <1>10, OwnerReplacementStep
<1>11. CASE All_acks(p)
  BY <1>1, <1>11, All_acksStep DEF Phase
<1> QED
  BY <1>2, <1>3, <1>4, <1>5, <1>6, <1>7, <1>8, <1>9, <1>10, <1>11 DEF CacheRequest

(* The directory starts a transaction only when it is idle, and ends it   *)
(* with the UNBLOCK.                                                      *)
LEMMA DirectoryStep ==
  ASSUME IInv, NEW m \in net, DirectoryReceive(m), UNCHANGED <<cacheVars, sequencerVars>>
  PROVE  IInv'
<1>1. PICK ph \in Phase, r \in Proc \cup {Dir} : ProtocolInv(ph, r)
  BY DEF IInv
<1> SUFFICES \E next \in Phase, s \in Proc \cup {Dir} : ProtocolInv(next, s)'
  BY DEF IInv
<1>2. {"idle", "dataX", "dataS", "dataE", "fwdS", "fwdX"} \subseteq Phase
  BY DEF Phase
<1>3. CASE SendGETS(m)
  <2>0. PICK next \in Phase : next = IF dir.state = "I" THEN "dataE" ELSE "dataS"
    BY <1>2
  <2>1. m.from \in Proc /\ ProtocolInv(next, m.from)'
    BY <1>1, <2>0, <1>3, SendGETSStep
  <2> QED
    BY <2>1
<1>4. CASE SendGETX(m)
  BY <1>1, <1>2, <1>4, SendGETXStep
<1>5. CASE ForwardGETS(m)
  BY <1>1, <1>2, <1>5, ForwardGETSStep
<1>6. CASE ForwardGETX(m)
  BY <1>1, <1>2, <1>6, ForwardGETXStep
<1>7. CASE Dirty_PUT(m) \/ Clean_PUT(m) \/ Stale_PUT(m)
  BY <1>1, <1>2, <1>7, PutsStep
<1>8. CASE Unblock(m)
  BY <1>1, <1>2, <1>8, UnblockStep
<1>9. CASE Exclusive_Unblock(m)
  BY <1>1, <1>2, <1>9, Exclusive_UnblockStep
<1> QED
  BY <1>3, <1>4, <1>5, <1>6, <1>7, <1>8, <1>9 DEF DirectoryReceive

(* The invariant is inductive: it names neither the order in which        *)
(* messages are delivered nor the number of caches.                       *)
LEMMA NextIInv == IInv /\ [Next]_vars => IInv'
<1> SUFFICES ASSUME IInv, [Next]_vars PROVE IInv'
  OBVIOUS
<1>1. CASE CacheNext /\ UNCHANGED dir
  BY <1>1, CacheRequestStep, CacheReceiveStep DEF CacheNext
<1>2. CASE DirectoryNext /\ UNCHANGED <<cacheVars, sequencerVars>>
  BY <1>2, DirectoryStep DEF DirectoryNext
<1>3. CASE UNCHANGED vars
  BY <1>3, StutterStep DEF IInv
<1> QED
  BY <1>1, <1>2, <1>3 DEF Next

(* Every reachable state satisfies the invariant.                         *)
LEMMA SpecIInv == Spec => []IInv
  BY InitIInv, NextIInv, PTL DEF Spec

------------------------------------------------------------------------------
(* What the invariant implies.                                            *)

(* Whatever is delivered has a transition in its receiver's state.        *)
LEMMA InvNoInvalidTransition ==
  ASSUME NEW ph \in Phase, NEW r \in Proc \cup {Dir}, ProtocolInv(ph, r)
  PROVE  NoInvalidTransition
<1> USE DEF ProtocolInv
<1>1. ASSUME NEW m \in net, m.to \in Proc
      PROVE  cache[m.to].state \in CacheExpects(m.to, m)
  <2>1. /\ m.vnet \in {"forward", "response"}
        /\ cache[m.to].state \in CacheState
    BY <1>1, DirAssumption DEF MessagesOK, TypeOK, CacheRecord
  <2>2. CASE IsInv(m)
    <3>1. /\ m.to \in dir.sharers /\ m.to # r
          /\ Invalidating(ph) /\ m.to \notin dir.owner
      BY <1>1, <2>2 DEF InvalidationsOK, DirectoryOK, TypeOK, DirectoryTypeOK, DirectoryState
    <3>2. m.to \notin Own(ph, r)
      BY <3>1 DEF Own, Invalidating
    <3>3. cache[m.to].state \notin {"E", "M", "MM", "O_C", "O_D", "OM"}
      BY <1>1, <3>1, <3>2 DEF HoldersOK
    <3> QED
      BY <2>1, <2>2, <3>3 DEF CacheExpects, IsInv, CacheState
  <2>3. CASE IsForward(m)
    <3>1. /\ m.type \in {"GETS", "GETX"} /\ m.vnet = "forward"
          /\ ph \in {"fwdS", "fwdX"} /\ m.from = r /\ dir.owner = {m.to}
          /\ m.type = "GETX" => ph = "fwdX"
      BY <2>3 DEF MessagesOK, IsForward, TransactionOK
    <3>2. cache[m.to].state \in SupplyingStates
      BY <1>1, <3>1 DEF HoldersOK, Own, SupplyingStates
    <3>3. m.type = "GETX" /\ m.from = m.to => cache[m.to].state = "OM"
      BY <3>1 DEF RequestorOK
    <3> QED
      BY <3>1, <3>2, <3>3 DEF CacheExpects
  <2>4. CASE IsAck(m)
    <3>1. Invalidating(ph) /\ m.to = r
      BY <2>4 DEF InvalidationsOK
    <3>2. cache[m.to].state \in {"IM", "SM", "OM"}
      BY <3>1 DEF RequestorOK, Invalidating
    <3> QED
      BY <2>4, <3>2 DEF CacheExpects, IsAck
  <2>5. CASE IsWbAck(m)
    BY <2>5 DEF WritebacksOK, CacheExpects, IsWbAck
  <2>6. CASE IsData(m)
    <3>1. m.type \in {"DATA", "DATA_EXCLUSIVE_CLEAN", "DATA_EXCLUSIVE_DIRTY"}
      BY <2>6 DEF MessagesOK, IsData
    <3>2. /\ m.to = r
          /\ \/ ph \in {"dataS", "dataE"} /\ cache[m.to].state = "IS"
             \/ /\ ph = "dataX" /\ cache[m.to].state \in {"IM", "SM"}
                /\ m.type \in {"DATA", "DATA_EXCLUSIVE_CLEAN"}
      BY <2>6 DEF TransactionOK, RequestorOK
    <3> QED
      BY <2>6, <3>1, <3>2 DEF CacheExpects, IsData
  <2> QED
    BY <2>1, <2>2, <2>3, <2>4, <2>5, <2>6
       DEF IsInv, IsForward, IsAck, IsWbAck, IsData
<1>2. ASSUME NEW m \in net, m.to = Dir
      PROVE  dir.state \in DirectoryExpects(m)
  <2>1. m.vnet \in {"request", "unblock"} /\ dir.state \in DirectoryState
    BY <1>2, DirAssumption DEF MessagesOK, TypeOK, DirectoryTypeOK
  <2>2. CASE m.vnet = "request" /\ m.type \in {"GETS", "GETX"}
    BY <2>1, <2>2 DEF DirectoryExpects, IsStalePut, IsPut
  <2>3. CASE IsPut(m)
    <3>1. m.from \in dir.owner => dir.state \in {"O", "M", "OO", "MO", "OM", "MM"}
      BY <2>1 DEF DirectoryOK, DirectoryState
    <3> QED
      BY <2>1, <2>3, <3>1 DEF DirectoryExpects, IsStalePut, IsPut
  <2>4. CASE IsUnblock(m) /\ m.type = "UNBLOCK"
    <3>1. dir.state \in {"SS", "OO", "MO"}
      BY <2>4 DEF TransactionOK, DirStates
    <3> QED
      BY <2>4, <3>1 DEF DirectoryExpects, IsUnblock, IsPut, IsStalePut, UnblockedState
  <2>5. CASE IsUnblock(m) /\ m.type = "UNBLOCK_EXCLUSIVE"
    <3>1. dir.state \in {"IM", "SM", "OM", "MM", "IS", "MO"}
      BY <2>5 DEF TransactionOK, DirStates
    <3> QED
      BY <2>5, <3>1 DEF DirectoryExpects, IsUnblock, IsPut, IsStalePut
  <2> QED
    BY <2>1, <2>2, <2>3, <2>4, <2>5 DEF MessagesOK, IsPut, IsUnblock
<1>3. ASSUME NEW p \in Proc, cache[p].trigger > 0
      PROVE  cache[p].trigger = 1 /\ cache[p].state = "OM"
  <2>1. p = r /\ ph = "acks" /\ cache[p].trigger = 1
    BY <1>3 DEF CountsOK
  <2> QED
    BY <2>1 DEF RequestorOK
<1> QED
  BY <1>1, <1>2, <1>3 DEF NoInvalidTransition

(* The assertions of setState, writeDataToCacheVerify,                    *)
(* ll_checkDataInMemory and the sequencer's callbacks.                    *)
LEMMA InvAssertionsHold ==
  ASSUME NEW ph \in Phase, NEW r \in Proc \cup {Dir}, ProtocolInv(ph, r)
  PROVE  AssertionsHold
<1> USE DEF ProtocolInv
<1>1. \A o : Cardinality({o}) = 1
  BY FS_Singleton
<1>2. SetStateAsserts
  BY <1>1 DEF DirectoryOK, SetStateAsserts
<1>3. \A m \in net : /\ m.vnet = "response"
                     /\ m.type \in {"DATA", "DATA_EXCLUSIVE_CLEAN"}
                     /\ cache[m.to].state = "SM"
                     => m.data = cache[m.to].data
  BY DEF MessagesOK, TransactionOK, DataOK, IsData
<1>4. \A m \in net : IsOwnerPut(m, "PUT_CLEAN") => m.data = dir.data
  BY DEF DataOK, IsOwnerPut, IsRequest
<1>5. \A p \in Proc : /\ cache[p].state = "IS" => readRequestTable[p] # "none"
                      /\ cache[p].state \in {"IM", "SM", "OM"} => writeRequestTable[p] = "ST"
  BY DEF SequencerOK
<1> QED
  BY <1>2, <1>3, <1>4, <1>5 DEF AssertionsHold

(* Single writer: from SoleHolder.                                        *)
LEMMA InvSingleWriter ==
  ASSUME NEW ph \in Phase, NEW r \in Proc \cup {Dir}, ProtocolInv(ph, r)
  PROVE  SingleWriter
<1> SUFFICES ASSUME NEW p \in Proc, NEW q \in Proc, p # q, cache[p].state \in {"E", "M", "MM"}
             PROVE  Permission(cache[q]) \in {"NotPresent", "Invalid"}
  BY DEF SingleWriter
<1>1. cache[q].state \notin {"S", "SM", "O_C", "O_D", "OM", "E", "M", "MM"}
  BY SoleHolder
<1> QED
  BY <1>1 DEF Permission

(* Every readable copy is the latest: a part of DataOK.                   *)
LEMMA InvNoStaleRead ==
  ASSUME NEW ph \in Phase, NEW r \in Proc \cup {Dir}, ProtocolInv(ph, r)
  PROVE  NoStaleRead
BY DEF ProtocolInv, DataOK, NoStaleRead, Permission

(* The owner can supply the latest version, from its entry or its TBE.    *)
LEMMA OwnerSupplies ==
  ASSUME NEW ph \in Phase, NEW r \in Proc \cup {Dir}, ProtocolInv(ph, r),
         NEW p \in Own(ph, r)
  PROVE  p \in Proc /\ cache[p].state \in SupplyingStates /\ OwnerData(p) = latest
<1>1. p \in Proc
  BY OwnAtMostOne
<1>2. cache[p].state \in SupplyingStates
  BY <1>1 DEF ProtocolInv, HoldersOK, SupplyingStates
<1>3. OwnerData(p) = latest
  BY <1>1, <1>2 DEF ProtocolInv, DataOK, SupplyingStates, OwnerData
<1> QED
  BY <1>1, <1>2, <1>3

(* In each phase the latest version is with the owner, in the data under  *)
(* way, with the requestor, or in memory.                                 *)
LEMMA InvLatestSurvives ==
  ASSUME NEW ph \in Phase, NEW r \in Proc \cup {Dir}, ProtocolInv(ph, r)
  PROVE  LatestSurvives
<1> USE DEF ProtocolInv
<1>1. CASE Own(ph, r) # {}
  BY <1>1, OwnerSupplies DEF LatestSurvives
<1>2. CASE ph \in {"dataS", "dataE", "dataX"}
  <2>1. PICK m \in net : IsData(m)
    BY <1>2 DEF TransactionOK
  <2> QED
    BY <2>1 DEF TransactionOK, LatestSurvives, IsData
<1>3. CASE ph = "acks"
  <2>1. r \in Proc /\ cache[r].state = "OM" /\ cache[r].data = latest
    BY <1>3 DEF TransactionOK, RequestorOK, DataOK
  <2> QED
    BY <2>1 DEF LatestSurvives, SupplyingStates, OwnerData
<1>4. CASE Own(ph, r) = {} /\ ph \in {"idle", "unbS"}
  BY <1>4 DEF Own, DataOK, LatestSurvives
<1>5. CASE Own(ph, r) = {} /\ ph \in {"fwdS", "fwdX"}
  BY <1>5 DEF Own, TransactionOK, DirStates, DirectoryOK
<1>6. CASE Own(ph, r) = {} /\ ph = "unbE"
  BY <1>6 DEF Own
<1> QED
  BY <1>1, <1>2, <1>3, <1>4, <1>5, <1>6 DEF Phase

(* When the directory is idle its record is accurate.                     *)
LEMMA InvDirectoryKnowsHolders ==
  ASSUME NEW ph \in Phase, NEW r \in Proc \cup {Dir}, ProtocolInv(ph, r)
  PROVE  DirectoryKnowsHolders
<1> SUFFICES ASSUME dir.state \notin Busy, NEW p \in Proc
             PROVE  /\ cache[p].state \in {"S", "SM"} => p \in dir.sharers \cup dir.owner
                    /\ cache[p].state \in {"E", "M", "MM", "O_C", "O_D"} => dir.owner = {p}
                    /\ p \in dir.owner => cache[p].state \in SupplyingStates
  BY DEF DirectoryKnowsHolders
<1>1. dir.state \in {"I", "S", "O", "M"}
  BY DEF ProtocolInv, TypeOK, DirectoryTypeOK, DirectoryState, Busy
<1>2. ph = "idle" /\ Own(ph, r) = dir.owner
  BY <1>1, IdleDirectory
<1>3. cache[p].state \in {"S", "SM"} => p \in dir.sharers
  BY <1>2 DEF ProtocolInv, HoldersOK
<1>4. cache[p].state \in {"E", "M", "MM", "O_C", "O_D"} => dir.owner = {p}
  <2>1. cache[p].state \in {"E", "M", "MM", "O_C", "O_D"} => p \in Own(ph, r)
    BY DEF ProtocolInv, HoldersOK
  <2> QED
    BY <1>2, <2>1, OwnAtMostOne
<1>5. p \in dir.owner => cache[p].state \in SupplyingStates
  BY <1>2, OwnerSupplies
<1> QED
  BY <1>3, <1>4, <1>5

------------------------------------------------------------------------------
(* The properties of the runs, for every value of the constants.          *)

(* Every variable of the protocol has its type, for any number of         *)
(* processors, requests and stores: the record fields setState and the    *)
(* TBE actions write, the counts of acks and the messages of the five     *)
(* virtual networks.                                                      *)
THEOREM TypesAreCorrect == Spec => []TypeOK
<1>1. IInv => TypeOK
  BY DEF IInv, ProtocolInv
<1> QED
  BY <1>1, SpecIInv, PTL

(* No generated controller of MOESI_directory reaches ERROR_MSG("Invalid  *)
(* transition"), in whatever order the network delivers messages, and no  *)
(* two equal messages are ever in flight together.                        *)
THEOREM NoTransitionIsInvalid == Spec => []NoInvalidTransition
<1>1. IInv => NoInvalidTransition
  BY InvNoInvalidTransition DEF IInv
<1> QED
  BY <1>1, SpecIInv, PTL

(* No assertion of the controllers' actions and of the sequencer's        *)
(* callbacks fails.                                                       *)
THEOREM NoAssertionFails == Spec => []AssertionsHold
<1>1. IInv => AssertionsHold
  BY InvAssertionsHold DEF IInv
<1> QED
  BY <1>1, SpecIInv, PTL

(* While a cache can write the block in place, no other cache can read    *)
(* it.                                                                    *)
THEOREM WritersAreAlone == Spec => []SingleWriter
<1>1. IInv => SingleWriter
  BY InvSingleWriter DEF IInv
<1> QED
  BY <1>1, SpecIInv, PTL

(* Every copy a processor can read has the version of the last completed  *)
(* store, with any delay of the invalidations, the data and the acks.     *)
THEOREM ReadsAreCurrent == Spec => []NoStaleRead
<1>1. IInv => NoStaleRead
  BY InvNoStaleRead DEF IInv
<1> QED
  BY <1>1, SpecIInv, PTL

(* The version of the last completed store is always in memory, with a    *)
(* cache that answers for the block, or in a message on its way to one.   *)
THEOREM StoresAreNotLost == Spec => []LatestSurvives
<1>1. IInv => LatestSurvives
  BY InvLatestSurvives DEF IInv
<1> QED
  BY <1>1, SpecIInv, PTL

(* When the directory is not serving a request, its owner and sharers     *)
(* cover every cache with a copy, and the owner it records does own the   *)
(* block.                                                                 *)
THEOREM HoldersAreKnown == Spec => []DirectoryKnowsHolders
<1>1. IInv => DirectoryKnowsHolders
  BY InvDirectoryKnowsHolders DEF IInv
<1> QED
  BY <1>1, SpecIInv, PTL

(* Only the PUT of the owner writes memory, and it brings the latest      *)
(* version.                                                               *)
LEMMA MemoryStep ==
  ASSUME IInv, NEW m \in net, DirectoryReceive(m), UNCHANGED <<cacheVars, sequencerVars>>
  PROVE  dir'.data >= dir.data
<1>1. PICK ph \in Phase, r \in Proc \cup {Dir} : ProtocolInv(ph, r)
  BY DEF IInv
<1>2. dir \in [state : DirectoryState, owner : SUBSET Proc, sharers : SUBSET Proc, data : Nat]
  BY <1>1 DEF ProtocolInv, TypeOK, DirectoryTypeOK
<1>3. CASE Dirty_PUT(m) \/ Clean_PUT(m) \/ Stale_PUT(m)
  BY <1>1, <1>3, PutsStep
<1>4. CASE SendGETS(m) \/ ForwardGETS(m)
  BY <1>2, <1>4 DEF SendGETS, ForwardGETS, DirTransition
<1>5. CASE SendGETX(m) \/ ForwardGETX(m)
  BY <1>2, <1>5 DEF SendGETX, ForwardGETX, DirTransition
<1>6. CASE Unblock(m)
  <2>1. PICK s : s = UnblockedState[dir.state]
    OBVIOUS
  <2>2. dir' = [dir EXCEPT !.state = s, !.sharers = @ \cup {m.from}]
    BY <1>2, <1>6, <2>1 DEF Unblock, DirTransition
  <2> QED
    BY <1>2, <2>2
<1>7. CASE Exclusive_Unblock(m)
  BY <1>2, <1>7 DEF Exclusive_Unblock, DirTransition
<1> QED
  BY <1>3, <1>4, <1>5, <1>6, <1>7 DEF DirectoryReceive

(* The memory's version never goes back: no PUT that crossed another      *)
(* request overwrites a later writeback.                                  *)
THEOREM MemoryOnlyAdvances == Spec => MemoryNeverRegresses
<1>1. IInv /\ [Next]_vars => [dir.data' >= dir.data]_dir
  <2> SUFFICES ASSUME IInv, [Next]_vars, dir' # dir
               PROVE  dir.data' >= dir.data
    OBVIOUS
  <2>1. DirectoryNext /\ UNCHANGED <<cacheVars, sequencerVars>>
    BY DEF Next, vars
  <2> QED
    BY <2>1, MemoryStep DEF DirectoryNext
<1> QED
  BY <1>1, SpecIInv, PTL DEF Spec, MemoryNeverRegresses

------------------------------------------------------------------------------
(* The refinement of CoherentMemory.                                      *)

(* The states in which a processor may read its copy.                     *)
Readable == {"S", "SM", "O_C", "O_D", "OM", "E", "M", "MM"}

(* What a processor would read: the refinement mapping of view.           *)
Seen(p) == IF Permission(cache[p]) \in {"Read_Only", "Read_Write"} THEN cache[p].data ELSE -1

(* What the refinement needs of the invariant.                            *)
ViewOK ==
    /\ \A p \in Proc : Seen(p) = IF cache[p].state \in Readable THEN latest ELSE -1
    /\ \A p, q \in Proc : p # q /\ cache[p].state = "MM" => cache[q].state \notin Readable

(* It follows from the invariant.                                         *)
LEMMA InvViewOK == IInv => ViewOK
<1> SUFFICES ASSUME NEW ph \in Phase, NEW r \in Proc \cup {Dir}, ProtocolInv(ph, r)
             PROVE  ViewOK
  BY DEF IInv
<1>1. ASSUME NEW p \in Proc
      PROVE  Seen(p) = IF cache[p].state \in Readable THEN latest ELSE -1
  <2>1. cache[p].state \in Readable => cache[p].loc # "none"
    BY DEF ProtocolInv, RecordsOK, Readable
  <2>2. Permission(cache[p]) \in {"Read_Only", "Read_Write"} <=> cache[p].state \in Readable
    BY <2>1 DEF Permission, Readable
  <2>3. cache[p].state \in Readable => cache[p].data = latest
    BY DEF ProtocolInv, DataOK, Readable
  <2> QED
    BY <2>2, <2>3 DEF Seen
<1>2. \A p, q \in Proc : p # q /\ cache[p].state = "MM" => cache[q].state \notin Readable
  BY SoleHolder DEF Readable
<1> QED
  BY <1>1, <1>2 DEF ViewOK

(* Data sent as exclusive finds no other copy: the directory sends it     *)
(* from memory only when it records no holder, and an owner that has      *)
(* written the block gives its own copy up.                               *)
LEMMA ExclusiveDataIsAlone ==
  ASSUME NEW ph \in Phase, NEW r \in Proc \cup {Dir}, ProtocolInv(ph, r),
         NEW m \in net, m.type \in {"DATA_EXCLUSIVE_CLEAN", "DATA_EXCLUSIVE_DIRTY"},
         NEW q \in Proc, q # m.to
  PROVE  Permission(cache[q]) \in {"NotPresent", "Invalid"}
<1> USE DEF ProtocolInv
<1>1. IsData(m)
  BY DEF MessagesOK, IsData
<1>2. ph \in {"dataE", "dataX"} /\ m.to = r /\ dir.state \in {"IS", "MO", "IM"}
  BY <1>1 DEF TransactionOK, DirStates
<1>3. dir.sharers = {} /\ Own(ph, r) = {}
  BY <1>2 DEF DirectoryOK, Own
<1>4. cache[q].state \notin {"S", "SM", "O_C", "O_D", "OM", "E", "M", "MM"}
  BY <1>2, <1>3 DEF HoldersOK
<1> QED
  BY <1>4 DEF Permission

(* A step that changes one cache and completes no store is, to the        *)
(* processors, that this cache acquires or loses a copy of the value, or  *)
(* nothing.                                                               *)
LEMMA OneCacheStep ==
  ASSUME ViewOK, ViewOK', NEW p \in Proc, latest' = latest,
         \A q \in Proc : q # p => cache'[q] = cache[q]
  PROVE  \/ Coherence!Acquire(p)
         \/ Coherence!Release(p)
         \/ UNCHANGED <<latest, [q \in Proc |-> Seen(q)]>>
<1>1. \A q \in Proc : Seen(q) = IF cache[q].state \in Readable THEN latest ELSE -1
  BY DEF ViewOK
<1>2. \A q \in Proc : Seen(q)' = IF cache'[q].state \in Readable THEN latest ELSE -1
  BY DEF ViewOK
<1>3. \A q \in Proc : q # p => Seen(q)' = Seen(q)
  BY <1>1, <1>2
<1>4. CASE cache[p].state \in Readable <=> cache'[p].state \in Readable
  <2>1. \A q \in Proc : Seen(q)' = Seen(q)
    BY <1>1, <1>2, <1>3, <1>4
  <2> QED
    BY <2>1
<1>5. CASE cache[p].state \notin Readable /\ cache'[p].state \in Readable
  <2>1. Seen(p)' = latest
    BY <1>2, <1>5
  <2>2. Coherence!Acquire(p)
    BY <1>3, <2>1 DEF Coherence!Acquire, Seen
  <2> QED
    BY <2>2
<1>6. CASE cache[p].state \in Readable /\ cache'[p].state \notin Readable
  <2>1. Seen(p)' = -1
    BY <1>2, <1>6
  <2>2. Coherence!Release(p)
    BY <1>3, <2>1 DEF Coherence!Release, Seen
  <2> QED
    BY <2>2
<1> QED
  BY <1>4, <1>5, <1>6

(* A step that completes a store leaves the value with one cache only.    *)
LEMMA StoreStep ==
  ASSUME ViewOK', NEW p \in Proc, latest' = latest + 1, cache'[p].state = "MM"
  PROVE  Coherence!Store(p)
<1>1. Seen(p)' = latest + 1
  BY DEF ViewOK, Readable
<1>2. \A q \in Proc : q # p => Seen(q)' = -1
  BY DEF ViewOK
<1> QED
  BY <1>1, <1>2 DEF Coherence!Store, Seen

(* A controller changes its own cache only.                               *)
LEMMA OtherCachesUnchanged ==
  ASSUME cache \in [Proc -> CacheRecord], NEW p \in Proc,
         CacheRequest(p) \/ All_acks(p) \/ \E m \in net : CacheReceive(p, m)
  PROVE  \A q \in Proc : q # p => cache'[q] = cache[q]
<1>1. ASSUME NEW c, NEW s, NEW popped, NEW sent, CacheTransition(p, c, s, popped, sent)
      PROVE  \A q \in Proc : q # p => cache'[q] = cache[q]
  BY <1>1 DEF CacheTransition
<1>2. CASE \E m \in net : CacheReceive(p, m)
  BY <1>1, <1>2 DEF CacheReceive, Inv, Fwd_GETX, Fwd_GETS, Own_GETX, Ack, DataForStore,
                    DataForLoad, Writeback_Ack
<1>3. CASE All_acks(p)
  BY <1>1, <1>3 DEF All_acks
<1>4. CASE CacheRequest(p)
  <2>1. CASE \E type \in CacheRequestType : MakeRequest(p, type) \/ LoadHit(p, type)
    BY <2>1 DEF MakeRequest, LoadHit, cacheVars
  <2>2. CASE \E type \in CacheRequestType : LoadMiss(p, type)
    BY <1>1, <2>2 DEF LoadMiss
  <2>3. CASE L1_to_L2(p) \/ \E type \in CacheRequestType : L2_to_L1(p, type)
    BY <2>3 DEF L1_to_L2, L2_to_L1
  <2>4. CASE FastPathStore(p)
    BY <2>4 DEF FastPathStore
  <2>5. CASE StoreMiss(p) \/ StoreHit(p) \/ SilentReplacement(p) \/ OwnerReplacement(p)
    BY <1>1, <2>5 DEF StoreMiss, StoreHit, SilentReplacement, OwnerReplacement
  <2> QED
    BY <1>4, <2>1, <2>2, <2>3, <2>4, <2>5 DEF CacheRequest
<1> QED
  BY <1>2, <1>3, <1>4

(* Only the three transitions that complete a store write a version.      *)
LEMMA OnlyStoresAdvance ==
  ASSUME NEW p \in Proc,
         CacheRequest(p) \/ All_acks(p) \/ \E m \in net : CacheReceive(p, m),
         ~(FastPathStore(p) \/ StoreHit(p) \/ All_acks(p))
  PROVE  latest' = latest
BY DEF CacheRequest, CacheReceive, MakeRequest, LoadHit, LoadMiss, L1_to_L2, L2_to_L1,
       StoreMiss, SilentReplacement, OwnerReplacement, Inv, Fwd_GETX, Fwd_GETS, Own_GETX,
       Ack, DataForStore, DataForLoad, Writeback_Ack, cacheVars

(* They leave the block in MM.                                            *)
LEMMA StoresMakeWritable ==
  ASSUME IInv, NEW p \in Proc, FastPathStore(p) \/ StoreHit(p) \/ All_acks(p)
  PROVE  latest' = latest + 1 /\ cache'[p].state = "MM"
<1>1. PICK ph \in Phase, r \in Proc \cup {Dir} : ProtocolInv(ph, r)
  BY DEF IInv
<1>2. cache \in [Proc -> CacheRecord] /\ latest \in Nat /\ "MM" \in CacheState
  BY <1>1 DEF ProtocolInv, TypeOK, CacheState
<1>3. PICK d : d = StoreData(cache[p])
  OBVIOUS
<1>4. d \in CacheRecord /\ d.state = cache[p].state /\ d.loc = cache[p].loc
  BY <1>2, <1>3, StoreRecord
<1>5. CASE FastPathStore(p)
  <2>1. cache[p].state = "MM"
    BY <1>5 DEF FastPathStore, tryCacheAccess, Permission, PrimaryArray
  <2> QED
    BY <1>2, <1>3, <1>4, <1>5, <2>1 DEF FastPathStore
<1>6. CASE StoreHit(p)
  <2>1. cache[p].loc # "none" /\ CacheTransition(p, d, "MM", {}, {}) /\ latest' = latest + 1
    BY <1>1, <1>3, <1>6 DEF StoreHit, ProtocolInv, RecordsOK
  <2> QED
    BY <1>2, <1>4, <2>1, Transition, SetState
<1>7. CASE All_acks(p)
  <2>1. PICK e : e = deallocateTBE(d)
    OBVIOUS
  <2>2. e \in CacheRecord /\ e.loc = cache[p].loc
    BY <1>4, <2>1, DeallocateTBE
  <2>3. PICK f : f = [e EXCEPT !.trigger = @ - 1]
    OBVIOUS
  <2>4. cache[p].trigger > 0 /\ cache[p].state = "OM" /\ latest' = latest + 1
    BY <1>7 DEF All_acks
  <2>5. cache[p].loc # "none" /\ p = r /\ cache[p].trigger = 1
    BY <1>1, <2>4 DEF ProtocolInv, RecordsOK, CountsOK
  <2>6. e.trigger = 1
    BY <1>2, <1>3, <2>1, <2>5, DeallocateTBE, StoreRecord
  <2>7. f \in CacheRecord /\ f.loc # "none"
    BY <2>2, <2>3, <2>5, <2>6 DEF CacheRecord
  <2>8. CacheTransition(p, f, "MM", {}, {sendUnblock(p, "UNBLOCK_EXCLUSIVE")})
    BY <1>3, <1>7, <2>1, <2>3 DEF All_acks
  <2> QED
    BY <1>2, <2>4, <2>7, <2>8, Transition, SetState
<1> QED
  BY <1>5, <1>6, <1>7

(* MOESI_directory implements the coherent memory of CoherentMemory:      *)
(* every step of every behaviour acquires or releases one readable copy   *)
(* of the single value, completes one store while nobody else can read,   *)
(* or is invisible to the processors.                                     *)
THEOREM ProtocolIsCoherent == Spec => ImplementsCoherentMemory
<1>1. Init => Coherence!Init
  <2> SUFFICES ASSUME Init PROVE Coherence!Init
    OBVIOUS
  <2>1. latest = 0 /\ \A p \in Proc : cache[p].loc = "none"
    BY DEF Init, CacheInit, NotPresent
  <2>2. \A p \in Proc : Permission(cache[p]) = "NotPresent"
    BY <2>1 DEF Init, CacheInit, NotPresent, Permission
  <2> QED
    BY <2>1, <2>2 DEF Coherence!Init
<1>2. ViewOK /\ ViewOK' /\ IInv /\ [Next]_vars
      => [Coherence!Next]_<<latest, [p \in Proc |->
                              IF Permission(cache[p]) \in {"Read_Only", "Read_Write"}
                              THEN cache[p].data ELSE -1]>>
  <2> SUFFICES ASSUME ViewOK, ViewOK', IInv, [Next]_vars
               PROVE  Coherence!Next \/ UNCHANGED <<latest, [p \in Proc |-> Seen(p)]>>
    BY DEF Seen
  <2>1. CASE CacheNext /\ UNCHANGED dir
    <3>1. PICK p \in Proc : \/ CacheRequest(p)
                            \/ All_acks(p)
                            \/ \E m \in net : CacheReceive(p, m)
      BY <2>1 DEF CacheNext
    <3>2. cache \in [Proc -> CacheRecord]
      BY DEF IInv, ProtocolInv, TypeOK
    <3>3. CASE FastPathStore(p) \/ StoreHit(p) \/ All_acks(p)
      BY <3>3, StoresMakeWritable, StoreStep DEF Coherence!Next
    <3>4. CASE ~(FastPathStore(p) \/ StoreHit(p) \/ All_acks(p))
      <4>1. latest' = latest
        BY <3>1, <3>4, OnlyStoresAdvance
      <4>2. \A q \in Proc : q # p => cache'[q] = cache[q]
        BY <3>1, <3>2, OtherCachesUnchanged
      <4> QED
        BY <4>1, <4>2, OneCacheStep DEF Coherence!Next
    <3> QED
      BY <3>3, <3>4
  <2>2. CASE UNCHANGED <<cache, latest>>
    BY <2>2 DEF Seen
  <2> QED
    BY <2>1, <2>2 DEF Next, vars, cacheVars
<1>3. IInv => ViewOK
  BY InvViewOK
<1> QED
  BY <1>1, <1>2, <1>3, SpecIInv, PTL DEF Spec, ImplementsCoherentMemory, Coherence!Spec
==============================================================================
