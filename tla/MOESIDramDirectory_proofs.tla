---------------------- MODULE MOESIDramDirectory_proofs ----------------------
(* MOESI_DRAM_directory, the protocol of the default build, refines       *)
(* MOESI_directory: what is proved of the one, for every set of           *)
(* processors and every number of stores, carries over to the caches of   *)
(* the other. RANDOMIZATION, with which messages overtake the answer of   *)
(* the memory, is excluded by hypothesis: TLC finds the caches incoherent *)
(* with it.                                                               *)
EXTENDS MOESIDramDirectory, TLAPS

(* The refinement mapping: a request that waits for the memory, or whose  *)
(* answer from the memory is under way, is still a request to the         *)
(* directory.                                                             *)
AsRequest(m) == IF m.vnet = "dram" THEN [m EXCEPT !.vnet = "request"] ELSE m

Requests == {AsRequest(m) : m \in net}

P == INSTANCE MOESIDirectory_proofs WITH net <- Requests

(* The mapping is faithful: the memory holds no copy of a request that is *)
(* also in the request queue.                                             *)
NetOK ==
    /\ net \subseteq Message
    /\ \A m, n \in net : AsRequest(m) = AsRequest(n) => m = n

(* While a request is with the memory, no UNBLOCK is under way (the       *)
(* directory was idle when it accepted the request), and the writeback    *)
(* the memory answers is still the owner's if the directory can complete  *)
(* it.                                                                    *)
DramOK ==
    /\ DramPending => \A m \in net : m.vnet # "unblock"
    /\ \A m \in net : /\ m.vnet = "dram" /\ m.type = "PUT_DIRTY"
                      /\ dir.state \in {"O", "M"}
                      => m.from \in dir.owner

(* The inductive invariant: that of MOESI_directory, of the mapped        *)
(* network, and the two above.                                            *)
DramInv == P!IInv /\ NetOK /\ DramOK

------------------------------------------------------------------------------
(* Lemmas about the mapping.                                              *)

(* The mapping changes the virtual network of a message only.             *)
LEMMA AsRequestRecord ==
  ASSUME NEW m \in Message
  PROVE  /\ AsRequest(m) \in Message
         /\ AsRequest(m).vnet = IF m.vnet = "dram" THEN "request" ELSE m.vnet
         /\ AsRequest(m).type = m.type
         /\ AsRequest(m).from = m.from
         /\ AsRequest(m).to = m.to
         /\ AsRequest(m).data = m.data
         /\ AsRequest(m).acks = m.acks
         /\ m.vnet # "dram" => AsRequest(m) = m
BY DEF AsRequest, Message, VirtualNetwork

(* The end of a cache's transition, while nothing is at the memory.       *)
LEMMA CacheTransitionRefines ==
  ASSUME Requests = net, Requests' = net', NEW p, NEW c, NEW s, NEW popped, NEW sent,
         CacheTransition(p, c, s, popped, sent)
  PROVE  P!CacheTransition(p, c, s, popped, sent)
BY DEF CacheTransition, setState, Transmit, P!CacheTransition, P!setState, P!Transmit

(* The end of a directory's transition: popping the memory's answer is    *)
(* popping the request, and neither network already has what is sent.     *)
LEMMA TransmitRefines ==
  ASSUME NetOK, NEW m \in net, NEW sent, \A x \in sent : x.vnet \in {"forward", "response"},
         Transmit({m}, sent)
  PROVE  P!Transmit({AsRequest(m)}, sent)
<1>1. net' = (net \ {m}) \cup sent /\ merged' = (merged \/ (net \ {m}) \cap sent # {})
  BY DEF Transmit
<1>2. \A x \in sent : AsRequest(x) = x
  BY DEF AsRequest
<1>3. \A x \in net : AsRequest(x) = AsRequest(m) => x = m
  BY DEF NetOK
<1>4. Requests' = (Requests \ {AsRequest(m)}) \cup sent
  BY <1>1, <1>2, <1>3 DEF Requests
<1>5. \A x \in sent : x \in net \ {m} <=> x \in Requests \ {AsRequest(m)}
  <2> SUFFICES ASSUME NEW x \in sent
               PROVE  x \in net \ {m} <=> x \in Requests \ {AsRequest(m)}
    OBVIOUS
  <2>1. x \in net <=> x \in Requests
    <3>1. x \in net => x \in Requests
      BY <1>2 DEF Requests
    <3>2. ASSUME NEW y \in net, x = AsRequest(y) PROVE x \in net
      <4>1. y \in Message
        BY DEF NetOK
      <4>2. y.vnet # "dram"
        BY <3>2, <4>1, AsRequestRecord
      <4> QED
        BY <3>2, <4>1, <4>2, AsRequestRecord
    <3> QED
      BY <3>1, <3>2 DEF Requests
  <2>2. x \in net => (x = m <=> x = AsRequest(m))
    BY <1>2, <1>3
  <2> QED
    BY <2>1, <2>2
<1> QED
  BY <1>1, <1>4, <1>5 DEF P!Transmit

------------------------------------------------------------------------------
(* The caches.                                                            *)

(* The same with the directory's entry.                                   *)
LEMMA DirTransitionRefines ==
  ASSUME NetOK, NEW m \in net, NEW d, NEW sent,
         \A x \in sent : x.vnet \in {"forward", "response"},
         DirTransition(d, m, sent)
  PROVE  P!DirTransition(d, AsRequest(m), sent)
BY TransmitRefines DEF DirTransition, P!DirTransition
(* The count of acks is the same in both protocols.                       *)
LEMMA SameCardinality ==
  \A S : P!Cardinality(S) = Cardinality(S)
BY DEF Cardinality, P!Cardinality

(* A cache never sends to the memory.                                     *)
LEMMA NothingBecomesPending ==
  ASSUME ~DramPending, NEW p,
         CacheRequest(p) \/ All_acks(p) \/ \E m \in net : CacheReceive(p, m)
  PROVE  \A x \in net' : x.vnet # "dram"
<1>1. \A x \in net : x.vnet # "dram"
  BY DEF DramPending
<1>2. ASSUME NEW c, NEW s, NEW popped, NEW n, n.vnet # "dram",
             CacheTransition(p, c, s, popped, {n})
      PROVE  \A x \in net' : x.vnet # "dram"
  BY <1>1, <1>2 DEF CacheTransition, Transmit
<1>3. ASSUME NEW c, NEW s, NEW popped, CacheTransition(p, c, s, popped, {})
      PROVE  \A x \in net' : x.vnet # "dram"
  BY <1>1, <1>3 DEF CacheTransition, Transmit
<1>4. /\ issueGETS(p).vnet = "request" /\ issueGETX(p).vnet = "request"
      /\ \A type : issuePUT(p, type).vnet = "request"
      /\ \A type : sendUnblock(p, type).vnet = "unblock"
      /\ \A m : sendAck(p, m).vnet = "response"
      /\ \A type, data, m : sendData(p, type, data, m).vnet = "response"
  BY DEF issueGETS, issueGETX, issuePUT, sendUnblock, sendAck, sendData, RequestMsg, ResponseMsg
<1>5. CASE \E m \in net : CacheReceive(p, m)
  <2>1. CASE \E m \in net : Inv(p, m) \/ Fwd_GETX(p, m) \/ Fwd_GETS(p, m)
    BY <1>2, <1>4, <2>1 DEF Inv, Fwd_GETX, Fwd_GETS
  <2>2. CASE \E m \in net : Own_GETX(p, m) \/ Ack(p, m) \/ DataForStore(p, m)
                            \/ Writeback_Ack(p, m)
    BY <1>3, <2>2 DEF Own_GETX, Ack, DataForStore, Writeback_Ack
  <2>3. CASE \E m \in net : DataForLoad(p, m)
    BY <1>2, <1>4, <2>3 DEF DataForLoad
  <2> QED
    BY <1>5, <2>1, <2>2, <2>3 DEF CacheReceive
<1>6. CASE All_acks(p)
  BY <1>2, <1>4, <1>6 DEF All_acks
<1>7. CASE CacheRequest(p)
  <2>1. CASE \E type \in CacheRequestType : MakeRequest(p, type) \/ LoadHit(p, type)
    BY <1>1, <2>1 DEF MakeRequest, LoadHit
  <2>2. CASE \E type \in CacheRequestType : LoadMiss(p, type)
    BY <1>2, <1>4, <2>2 DEF LoadMiss
  <2>3. CASE L1_to_L2(p) \/ \E type \in CacheRequestType : L2_to_L1(p, type)
    BY <1>1, <2>3 DEF L1_to_L2, L2_to_L1
  <2>4. CASE FastPathStore(p)
    BY <1>1, <2>4 DEF FastPathStore
  <2>5. CASE StoreMiss(p) \/ OwnerReplacement(p)
    BY <1>2, <1>4, <2>5 DEF StoreMiss, OwnerReplacement
  <2>6. CASE StoreHit(p) \/ SilentReplacement(p)
    BY <1>3, <2>6 DEF StoreHit, SilentReplacement
  <2> QED
    BY <1>7, <2>1, <2>2, <2>3, <2>4, <2>5, <2>6 DEF CacheRequest
<1> QED
  BY <1>5, <1>6, <1>7

(* A message a cache receives while nothing is at the memory: the         *)
(* transition is the same in both protocols, whose L1 controller is one.  *)
LEMMA ReceiveRefines ==
  ASSUME Requests = net, Requests' = net', NEW p, NEW m, CacheReceive(p, m)
  PROVE  P!CacheReceive(p, m)
<1> USE DEF sequencerVars, P!sequencerVars, SupplyingStates, P!SupplyingStates,
            OwnerData, P!OwnerData
<1>1. CASE Inv(p, m)
  <2>1. P!Inv(p, m)
    BY <1>1, CacheTransitionRefines DEF Inv, P!Inv, sendAck, P!sendAck, ResponseMsg, P!ResponseMsg
  <2> QED
    BY <2>1 DEF P!CacheReceive
<1>2. CASE Fwd_GETX(p, m)
  <2>1. P!Fwd_GETX(p, m)
    BY <1>2, CacheTransitionRefines
       DEF Fwd_GETX, P!Fwd_GETX, sendData, P!sendData, ResponseMsg, P!ResponseMsg
  <2> QED
    BY <2>1 DEF P!CacheReceive
<1>3. CASE Fwd_GETS(p, m)
  <2>1. P!Fwd_GETS(p, m)
    BY <1>3, CacheTransitionRefines
       DEF Fwd_GETS, P!Fwd_GETS, sendData, P!sendData, ResponseMsg, P!ResponseMsg
  <2> QED
    BY <2>1 DEF P!CacheReceive
<1>4. CASE Own_GETX(p, m)
  <2>1. P!Own_GETX(p, m)
    BY <1>4, CacheTransitionRefines
       DEF Own_GETX, P!Own_GETX, checkForCompletion, P!checkForCompletion,
           decrementNumberOfMessages, P!decrementNumberOfMessages
  <2> QED
    BY <2>1 DEF P!CacheReceive
<1>5. CASE Ack(p, m)
  <2>1. P!Ack(p, m)
    BY <1>5, CacheTransitionRefines
       DEF Ack, P!Ack, checkForCompletion, P!checkForCompletion,
           decrementNumberOfMessages, P!decrementNumberOfMessages
  <2> QED
    BY <2>1 DEF P!CacheReceive
<1>6. CASE DataForStore(p, m)
  <2>1. P!DataForStore(p, m)
    BY <1>6, CacheTransitionRefines
       DEF DataForStore, P!DataForStore, checkForCompletion, P!checkForCompletion,
           decrementNumberOfMessages, P!decrementNumberOfMessages,
           writeDataToCache, P!writeDataToCache
  <2> QED
    BY <2>1 DEF P!CacheReceive
<1>7. CASE DataForLoad(p, m)
  <2>1. P!DataForLoad(p, m)
    BY <1>7, CacheTransitionRefines
       DEF DataForLoad, P!DataForLoad, LoadedState, P!LoadedState, deallocateTBE,
           P!deallocateTBE, writeDataToCache, P!writeDataToCache, sendUnblock, P!sendUnblock,
           ResponseMsg, P!ResponseMsg, readCallback, P!readCallback
  <2> QED
    BY <2>1 DEF P!CacheReceive
<1>8. CASE Writeback_Ack(p, m)
  <2>1. P!Writeback_Ack(p, m)
    BY <1>8, CacheTransitionRefines
       DEF Writeback_Ack, P!Writeback_Ack, deallocateTBE, P!deallocateTBE
  <2> QED
    BY <2>1 DEF P!CacheReceive
<1> QED
  BY <1>1, <1>2, <1>3, <1>4, <1>5, <1>6, <1>7, <1>8 DEF CacheReceive

(* The same for what a processor does, the replacements, and ALL_ACKS.    *)
LEMMA RequestRefines ==
  ASSUME Requests = net, Requests' = net', NEW p, CacheRequest(p) \/ All_acks(p)
  PROVE  P!CacheRequest(p) \/ P!All_acks(p)
<1> USE DEF sequencerVars, P!sequencerVars, cacheVars, P!cacheVars, PrimaryArray, P!PrimaryArray,
            Triggers, P!Triggers, popMandatoryQueue, P!popMandatoryQueue
<1>budget. P!StoreBudget <=> StoreBudget
  BY SameCardinality DEF StoreBudget, P!StoreBudget, StoresOutstanding, P!StoresOutstanding
<1>permission. \A c : P!Permission(c) = Permission(c)
  BY DEF Permission, P!Permission
<1>access. \A type : P!tryCacheAccess(p, type) <=> tryCacheAccess(p, type)
  BY <1>permission DEF tryCacheAccess, P!tryCacheAccess
<1>ready. \A type : P!isReady(p, type) <=> isReady(p, type)
  BY DEF isReady, P!isReady, Outstanding, P!Outstanding
<1>1. CASE \E type \in CacheRequestType : MakeRequest(p, type)
  <2>1. \E type \in CacheRequestType : P!MakeRequest(p, type)
    BY <1>budget, <1>access, <1>ready, <1>1 DEF MakeRequest, P!MakeRequest, issueRequest, P!issueRequest
  <2> QED
    BY <2>1 DEF P!CacheRequest
<1>2. CASE \E type \in CacheRequestType : LoadMiss(p, type)
  <2>1. \E type \in CacheRequestType : P!LoadMiss(p, type)
    BY <1>2, CacheTransitionRefines
       DEF LoadMiss, P!LoadMiss, allocateTBE, P!allocateTBE, allocateL1, P!allocateL1,
           issueGETS, P!issueGETS, RequestMsg, P!RequestMsg
  <2> QED
    BY <2>1 DEF P!CacheRequest
<1>3. CASE \E type \in CacheRequestType : LoadHit(p, type)
  <2>1. \E type \in CacheRequestType : P!LoadHit(p, type)
    BY <1>3 DEF LoadHit, P!LoadHit, readCallback, P!readCallback
  <2> QED
    BY <2>1 DEF P!CacheRequest
<1>4. CASE \E type \in CacheRequestType : L2_to_L1(p, type)
  <2>1. \E type \in CacheRequestType : P!L2_to_L1(p, type)
    BY <1>4 DEF L2_to_L1, P!L2_to_L1, Movable, P!Movable
  <2> QED
    BY <2>1 DEF P!CacheRequest
<1>5. CASE FastPathStore(p)
  <2>1. P!FastPathStore(p)
    BY <1>budget, <1>access, <1>ready, <1>5 DEF FastPathStore, P!FastPathStore, StoreData, P!StoreData
  <2> QED
    BY <2>1 DEF P!CacheRequest
<1>6. CASE StoreMiss(p)
  <2>1. P!StoreMiss(p)
    BY <1>6, CacheTransitionRefines
       DEF StoreMiss, P!StoreMiss, allocateTBE, P!allocateTBE, allocateL1, P!allocateL1,
           issueGETX, P!issueGETX, RequestMsg, P!RequestMsg, StoreMissState, P!StoreMissState
  <2> QED
    BY <2>1 DEF P!CacheRequest
<1>7. CASE StoreHit(p)
  <2>1. P!StoreHit(p)
    BY <1>7, CacheTransitionRefines
       DEF StoreHit, P!StoreHit, StoreData, P!StoreData, writeCallback, P!writeCallback
  <2> QED
    BY <2>1 DEF P!CacheRequest
<1>8. CASE L1_to_L2(p)
  <2>1. P!L1_to_L2(p)
    BY <1>8 DEF L1_to_L2, P!L1_to_L2, Movable, P!Movable
  <2> QED
    BY <2>1 DEF P!CacheRequest
<1>9. CASE SilentReplacement(p)
  <2>1. P!SilentReplacement(p)
    BY <1>9, CacheTransitionRefines
       DEF SilentReplacement, P!SilentReplacement, deallocateL2, P!deallocateL2
  <2> QED
    BY <2>1 DEF P!CacheRequest
<1>10. CASE OwnerReplacement(p)
  <2>1. P!OwnerReplacement(p)
    BY <1>10, CacheTransitionRefines
       DEF OwnerReplacement, P!OwnerReplacement, deallocateL2, P!deallocateL2, allocateTBE,
           P!allocateTBE, issuePUT, P!issuePUT, RequestMsg, P!RequestMsg, PutType, P!PutType
  <2> QED
    BY <2>1 DEF P!CacheRequest
<1>11. CASE All_acks(p)
  BY <1>11, CacheTransitionRefines
     DEF All_acks, P!All_acks, deallocateTBE, P!deallocateTBE, StoreData, P!StoreData,
         sendUnblock, P!sendUnblock, ResponseMsg, P!ResponseMsg, writeCallback, P!writeCallback
<1> QED
  BY <1>1, <1>2, <1>3, <1>4, <1>5, <1>6, <1>7, <1>8, <1>9, <1>10, <1>11 DEF CacheRequest

------------------------------------------------------------------------------
(* The directory.                                                         *)

(* What the directory sends depends on the request, not on the queue it   *)
(* comes from.                                                            *)
LEMMA DirMessagesRefine ==
  ASSUME NetOK, NEW m \in net
  PROVE  /\ P!dirSendData(AsRequest(m)) = dirSendData(m)
         /\ P!forwardRequest(AsRequest(m)) = forwardRequest(m)
         /\ P!sendInvalidations(AsRequest(m)) = sendInvalidations(m)
         /\ P!sendWritebackAck(AsRequest(m)) = sendWritebackAck(m)
         /\ dirSendData(m).vnet = "response"
         /\ sendWritebackAck(m).vnet = "response"
         /\ \A x \in forwardRequest(m) \cup sendInvalidations(m) : x.vnet = "forward"
<1>1. AsRequest(m).from = m.from /\ AsRequest(m).type = m.type
  BY AsRequestRecord DEF NetOK
<1>2. P!Acks(m.from) = Acks(m.from)
  BY SameCardinality DEF Acks, P!Acks
<1>3. P!dirSendData(AsRequest(m)) = dirSendData(m) /\ dirSendData(m).vnet = "response"
  BY <1>1, <1>2 DEF dirSendData, P!dirSendData, ResponseMsg, P!ResponseMsg
<1>4. /\ P!forwardRequest(AsRequest(m)) = forwardRequest(m)
      /\ \A x \in forwardRequest(m) : x.vnet = "forward"
  BY <1>1, <1>2 DEF forwardRequest, P!forwardRequest, RequestMsg, P!RequestMsg
<1>5. /\ P!sendInvalidations(AsRequest(m)) = sendInvalidations(m)
      /\ \A x \in sendInvalidations(m) : x.vnet = "forward"
  BY <1>1 DEF sendInvalidations, P!sendInvalidations, RequestMsg, P!RequestMsg
<1>6. /\ P!sendWritebackAck(AsRequest(m)) = sendWritebackAck(m)
      /\ sendWritebackAck(m).vnet = "response"
  BY <1>1 DEF sendWritebackAck, P!sendWritebackAck, ResponseMsg, P!ResponseMsg
<1> QED
  BY <1>3, <1>4, <1>5, <1>6

(* The answer of the memory completes the transition that MOESI_directory *)
(* runs when it receives the request.                                     *)
LEMMA MemoryReplyRefines ==
  ASSUME DramInv, NEW m \in net, Dram_ReadS(m) \/ Dram_ReadX(m) \/ Dram_Write(m)
  PROVE  P!DirectoryReceive(AsRequest(m))
<1> USE DEF DramInv
<1>1. /\ AsRequest(m).vnet = "request" /\ AsRequest(m).type = m.type
      /\ AsRequest(m).from = m.from /\ AsRequest(m).data = m.data
  BY AsRequestRecord DEF NetOK, Dram_ReadS, Dram_ReadX, Dram_Write
<1>2. CASE Dram_ReadS(m)
  <2>1. P!SendGETS(AsRequest(m))
    BY <1>1, <1>2, DirMessagesRefine, DirTransitionRefines
       DEF Dram_ReadS, P!SendGETS, P!IsRequest
  <2> QED
    BY <2>1 DEF P!DirectoryReceive
<1>3. CASE Dram_ReadX(m)
  <2>1. P!SendGETX(AsRequest(m))
    BY <1>1, <1>3, DirMessagesRefine, DirTransitionRefines
       DEF Dram_ReadX, P!SendGETX, P!IsRequest
  <2> QED
    BY <2>1 DEF P!DirectoryReceive
<1>4. CASE Dram_Write(m)
  <2>1. P!Dirty_PUT(AsRequest(m))
    BY <1>1, <1>4, DirMessagesRefine, DirTransitionRefines
       DEF Dram_Write, P!Dirty_PUT, P!IsOwnerPut, P!IsRequest, DramOK
  <2> QED
    BY <2>1 DEF P!DirectoryReceive
<1> QED
  BY <1>2, <1>3, <1>4

(* The transitions that do not touch the memory are the same.             *)
LEMMA NoMemoryRefines ==
  ASSUME DramInv, NEW m \in net,
         \/ ForwardGETS(m) \/ ForwardGETX(m) \/ Clean_PUT(m) \/ Stale_PUT(m)
         \/ Unblock(m) \/ Exclusive_Unblock(m)
  PROVE  P!DirectoryReceive(AsRequest(m))
<1> USE DEF DramInv, IsRequest, IsPut, IsOwnerPut, IsStalePut, P!IsRequest, P!IsPut,
            P!IsOwnerPut, P!IsStalePut
<1>1. AsRequest(m) = m
  BY AsRequestRecord
     DEF NetOK, ForwardGETS, ForwardGETX, Clean_PUT, Stale_PUT, Unblock, Exclusive_Unblock
<1>2. CASE ForwardGETS(m)
  <2>1. P!ForwardGETS(m)
    BY <1>1, <1>2, DirMessagesRefine, DirTransitionRefines DEF ForwardGETS, P!ForwardGETS
  <2> QED
    BY <1>1, <2>1 DEF P!DirectoryReceive
<1>3. CASE ForwardGETX(m)
  <2>1. P!ForwardGETX(m)
    BY <1>1, <1>3, DirMessagesRefine, DirTransitionRefines DEF ForwardGETX, P!ForwardGETX
  <2> QED
    BY <1>1, <2>1 DEF P!DirectoryReceive
<1>4. CASE Clean_PUT(m)
  <2>1. P!Clean_PUT(m)
    BY <1>1, <1>4, DirMessagesRefine, DirTransitionRefines DEF Clean_PUT, P!Clean_PUT
  <2> QED
    BY <1>1, <2>1 DEF P!DirectoryReceive
<1>5. CASE Stale_PUT(m)
  <2>1. DirTransition(dir, m, {sendWritebackAck(m)})
    BY <1>5 DEF Stale_PUT
  <2>2. P!DirTransition(dir, m, {P!sendWritebackAck(m)})
    BY <1>1, <2>1, DirMessagesRefine, DirTransitionRefines
  <2>3. P!Stale_PUT(m)
    BY <1>5, <2>2 DEF Stale_PUT, P!Stale_PUT, Busy, P!Busy
  <2> QED
    BY <1>1, <2>3 DEF P!DirectoryReceive
<1>6. CASE Unblock(m)
  <2>0. P!UnblockedState = UnblockedState
    BY DEF UnblockedState, P!UnblockedState
  <2>1. P!Unblock(m)
    BY <1>1, <1>6, <2>0, DirTransitionRefines DEF Unblock, P!Unblock
  <2> QED
    BY <1>1, <2>1 DEF P!DirectoryReceive
<1>7. CASE Exclusive_Unblock(m)
  <2>1. P!Exclusive_Unblock(m)
    BY <1>1, <1>7, DirTransitionRefines DEF Exclusive_Unblock, P!Exclusive_Unblock
  <2> QED
    BY <1>1, <2>1 DEF P!DirectoryReceive
<1> QED
  BY <1>2, <1>3, <1>4, <1>5, <1>6, <1>7

(* readDram and writeDram move the request to the memory, which the       *)
(* mapping hides.                                                         *)
LEMMA AccessRefines ==
  ASSUME DramInv, NEW m \in net, m.to = Dir, readDram(m) \/ writeDram(m)
  PROVE  /\ Requests' = Requests
         /\ UNCHANGED <<dir, merged>>
         /\ net' = (net \ {m}) \cup {dramReply(m)}
         /\ dramReply(m) \in Message
         /\ dramReply(m).vnet = "dram" /\ dramReply(m).type = m.type
         /\ dramReply(m).from = m.from
         /\ AsRequest(dramReply(m)) = m
<1>1. m \in Message /\ m.vnet = "request"
  BY DEF DramInv, NetOK, readDram, writeDram, IsOwnerPut, IsRequest
<1>2. /\ dramReply(m) \in Message
      /\ dramReply(m).vnet = "dram" /\ dramReply(m).type = m.type
      /\ dramReply(m).from = m.from /\ dramReply(m).to = Dir
      /\ dramReply(m).data = m.data /\ dramReply(m).acks = m.acks
  BY <1>1 DEF dramReply, RequestMsg, Message, VirtualNetwork
<1>3. AsRequest(dramReply(m)) = m
  <2>1. AsRequest(dramReply(m)) = [dramReply(m) EXCEPT !.vnet = "request"]
    BY <1>2 DEF AsRequest
  <2> QED
    BY <1>1, <1>2, <2>1 DEF Message
<1>4. AsRequest(m) = m
  BY <1>1 DEF AsRequest
<1>5. dramReply(m) \notin net
  BY <1>1, <1>2, <1>3, <1>4 DEF DramInv, NetOK
<1>6. /\ dir' = dir
      /\ net' = (net \ {m}) \cup {dramReply(m)}
      /\ merged' = (merged \/ (net \ {m}) \cap {dramReply(m)} # {})
  BY DEF readDram, writeDram, DirTransition, Transmit
<1>7. Requests' = Requests
  BY <1>3, <1>4, <1>6 DEF Requests
<1>8. merged' = merged
  <2>1. merged \in BOOLEAN
    BY DEF DramInv, P!IInv, P!ProtocolInv, P!TypeOK
  <2> QED
    BY <1>5, <1>6, <2>1
<1> QED
  BY <1>2, <1>3, <1>6, <1>7, <1>8

(* The directory accepts a request for the memory only while no           *)
(* transaction is open, so no UNBLOCK is under way.                       *)
LEMMA IdleMeansNoUnblock ==
  ASSUME DramInv, dir.state \in {"I", "S", "O", "M"}
  PROVE  \A m \in net : m.vnet # "unblock"
<1>1. PICK ph \in P!Phase, r \in Proc \cup {Dir} : P!ProtocolInv(ph, r)
  BY DEF DramInv, P!IInv
<1>2. \A x \in Requests : ~P!IsUnblock(x)
  BY <1>1, P!IdleDirectory, DirAssumption, SequencerAssumption, MaxStoresAssumption
<1> QED
  BY <1>2, AsRequestRecord DEF Requests, P!IsUnblock, DramInv, NetOK

(* readDram and writeDram are stuttering steps of MOESI_directory.        *)
LEMMA AccessStep ==
  ASSUME DramInv, NEW m \in net, m.to = Dir, readDram(m) \/ writeDram(m),
         UNCHANGED <<cacheVars, sequencerVars>>
  PROVE  UNCHANGED P!vars /\ NetOK' /\ DramOK'
<1>1. /\ Requests' = Requests /\ UNCHANGED <<dir, merged>>
      /\ net' = (net \ {m}) \cup {dramReply(m)}
      /\ dramReply(m) \in Message
      /\ dramReply(m).vnet = "dram" /\ dramReply(m).type = m.type
      /\ dramReply(m).from = m.from
      /\ AsRequest(dramReply(m)) = m
  BY AccessRefines
<1>2. UNCHANGED P!vars
  BY <1>1 DEF P!vars, cacheVars, sequencerVars
<1>3. AsRequest(m) = m
  BY DEF readDram, writeDram, IsOwnerPut, IsRequest, AsRequest
<1>4. NetOK'
  BY <1>1, <1>3 DEF DramInv, NetOK
<1>5. \A x \in net' : x.vnet # "unblock"
  BY <1>1, IdleMeansNoUnblock DEF readDram, writeDram
<1>6. \A x \in net' : /\ x.vnet = "dram" /\ x.type = "PUT_DIRTY"
                      /\ dir'.state \in {"O", "M"}
                      => x.from \in dir'.owner
  BY <1>1 DEF DramInv, DramOK, readDram, writeDram, IsOwnerPut, IsRequest
<1> QED
  BY <1>2, <1>4, <1>5, <1>6 DEF DramOK, DramPending

(* What any other transition of the directory does to the network.        *)
LEMMA DirectoryNetStep ==
  ASSUME DramInv, NEW m \in net, NEW d, NEW sent, Requests' \subseteq Message,
         \A x \in sent : x.vnet \in {"forward", "response"},
         DirTransition(d, m, sent)
  PROVE  NetOK' /\ net' = (net \ {m}) \cup sent /\ dir' = d
<1>1. net' = (net \ {m}) \cup sent /\ dir' = d
  BY DEF DirTransition, Transmit
<1>2. \A x \in sent : AsRequest(x) = x
  BY DEF AsRequest
<1>3. net' \subseteq Message
  BY <1>1, <1>2 DEF DramInv, NetOK, Requests
<1>4. ASSUME NEW x \in net', NEW y \in net', AsRequest(x) = AsRequest(y)
      PROVE  x = y
  <2>1. CASE x \in net /\ y \in net
    BY <1>4, <2>1 DEF DramInv, NetOK
  <2>2. CASE x \in sent /\ y \in sent
    BY <1>2, <1>4, <2>2
  <2>3. ASSUME NEW u \in net', NEW v \in sent, AsRequest(u) = AsRequest(v)
        PROVE  u = v
    <3>1. AsRequest(u) = v /\ u \in Message /\ v \in Message
      BY <1>1, <1>2, <1>3, <2>3
    <3>2. u.vnet # "dram"
      BY <2>3, <3>1, AsRequestRecord
    <3> QED
      BY <3>1, <3>2, AsRequestRecord
  <2> QED
    BY <1>1, <1>4, <2>1, <2>2, <2>3
<1> QED
  BY <1>1, <1>3, <1>4 DEF NetOK

(* It is a transition of MOESI_directory's directory.                     *)
LEMMA DirectoryRefines ==
  ASSUME DramInv, NEW m \in net, m.to = Dir, DramDirectoryReceive(m),
         ~(readDram(m) \/ writeDram(m))
  PROVE  P!DirectoryNext
<1>1. AsRequest(m) \in Requests /\ AsRequest(m).to = Dir
  BY AsRequestRecord DEF Requests, DramInv, NetOK
<1>2. P!DirectoryReceive(AsRequest(m))
  BY MemoryReplyRefines, NoMemoryRefines DEF DramDirectoryReceive
<1> QED
  BY <1>1, <1>2 DEF P!DirectoryNext

(* It keeps DramOK: it either makes the directory busy, or takes the      *)
(* owner away, or changes nothing, since no UNBLOCK is under way.         *)
LEMMA DirectoryStep ==
  ASSUME DramInv, NEW m \in net, DramDirectoryReceive(m), ~(readDram(m) \/ writeDram(m)),
         Requests' \subseteq Message
  PROVE  NetOK' /\ DramOK'
<1>1. \E d, sent : /\ DirTransition(d, m, sent)
                   /\ \A x \in sent : x.vnet \in {"forward", "response"}
                   /\ \/ d.state \notin {"O", "M"}
                      \/ d = dir
                      \/ m.vnet = "unblock"
  <2>1. dir \in [state : DirectoryState, owner : SUBSET Proc, sharers : SUBSET Proc, data : Nat]
    BY DEF DramInv, P!IInv, P!ProtocolInv, P!TypeOK, P!DirectoryTypeOK, DirectoryState,
           P!DirectoryState
  <2>2. /\ dirSendData(m).vnet = "response"
        /\ sendWritebackAck(m).vnet = "response"
        /\ \A x \in forwardRequest(m) \cup sendInvalidations(m) : x.vnet = "forward"
    BY DirMessagesRefine DEF DramInv
  <2>3. CASE Dram_ReadS(m)
    BY <2>1, <2>2, <2>3 DEF Dram_ReadS
  <2>4. CASE Dram_ReadX(m)
    BY <2>1, <2>2, <2>4 DEF Dram_ReadX
  <2>5. CASE Dram_Write(m)
    <3>1. PICK d : /\ d = [dir EXCEPT !.state = IF @ = "O" THEN "S" ELSE "I",
                                      !.owner = {}, !.data = m.data]
                   /\ DirTransition(d, m, {sendWritebackAck(m)})
      BY <2>5 DEF Dram_Write
    <3>2. d.state \notin {"O", "M"}
      BY <2>1, <3>1
    <3>3. DirTransition(d, m, {sendWritebackAck(m)})
      BY <3>1
    <3> QED
      BY <2>2, <3>2, <3>3
  <2>6. CASE ForwardGETS(m)
    BY <2>1, <2>2, <2>6 DEF ForwardGETS
  <2>7. CASE ForwardGETX(m)
    BY <2>1, <2>2, <2>7 DEF ForwardGETX
  <2>8. CASE Clean_PUT(m)
    <3>1. PICK d : /\ d = [dir EXCEPT !.state = IF @ = "O" THEN "S" ELSE "I",
                                      !.owner = {}]
                   /\ DirTransition(d, m, {sendWritebackAck(m)})
      BY <2>8 DEF Clean_PUT
    <3>2. d.state \notin {"O", "M"}
      BY <2>1, <3>1
    <3>3. DirTransition(d, m, {sendWritebackAck(m)})
      BY <3>1
    <3> QED
      BY <2>2, <3>2, <3>3
  <2>9. CASE Stale_PUT(m)
    BY <2>2, <2>9 DEF Stale_PUT
  <2>10. CASE Unblock(m) \/ Exclusive_Unblock(m)
    BY <2>10 DEF Unblock, Exclusive_Unblock
  <2> QED
    BY <2>3, <2>4, <2>5, <2>6, <2>7, <2>8, <2>9, <2>10 DEF DramDirectoryReceive
<1>2. PICK d, sent : /\ DirTransition(d, m, sent)
                     /\ \A x \in sent : x.vnet \in {"forward", "response"}
                     /\ \/ d.state \notin {"O", "M"}
                        \/ d = dir
                        \/ m.vnet = "unblock"
  BY <1>1
<1>3. NetOK' /\ net' = (net \ {m}) \cup sent /\ dir' = d
  BY <1>2, DirectoryNetStep
<1>4. \A x \in net' : x.vnet = "dram" => x \in net
  BY <1>2, <1>3
<1>5. DramPending' => DramPending /\ \A x \in net' : x.vnet # "unblock"
  BY <1>2, <1>3, <1>4 DEF DramPending, DramInv, DramOK
<1>6. DramPending => m.vnet # "unblock"
  BY DEF DramInv, DramOK
<1>7. ASSUME NEW x \in net', x.vnet = "dram", x.type = "PUT_DIRTY", dir'.state \in {"O", "M"}
      PROVE  x.from \in dir'.owner
  <2>1. DramPending /\ x \in net
    BY <1>4, <1>7 DEF DramPending
  <2>2. dir' = dir
    BY <1>2, <1>3, <1>6, <1>7, <2>1
  <2> QED
    BY <1>7, <2>1, <2>2 DEF DramInv, DramOK
<1> QED
  BY <1>3, <1>5, <1>7 DEF DramOK

------------------------------------------------------------------------------
(* The refinement.                                                        *)

(* Initially the networks are empty.                                      *)
LEMMA InitDramInv == Init => P!Init /\ DramInv
<1> SUFFICES ASSUME Init PROVE P!Init /\ DramInv
  OBVIOUS
<1>1. net = {} /\ Requests = {}
  BY DEF Init, NetworkInit, Requests
<1>2. P!Init
  BY <1>1 DEF Init, SequencerInit, CacheInit, DirectoryInit, NetworkInit, NotPresent,
              P!Init, P!SequencerInit, P!CacheInit, P!DirectoryInit, P!NetworkInit, P!NotPresent
<1>3. P!IInv
  BY <1>2, P!InitIInv, DirAssumption, SequencerAssumption, MaxStoresAssumption
<1>4. NetOK /\ DramOK
  BY <1>1 DEF NetOK, DramOK, DramPending
<1> QED
  BY <1>2, <1>3, <1>4 DEF DramInv

(* The invariant is inductive, and every step is one of MOESI_directory   *)
(* or a stutter.                                                          *)
LEMMA NextDramInv ==
  ASSUME ~Randomization, DramInv, [Next]_vars
  PROVE  [P!Next]_(P!vars) /\ DramInv'
<1>1. [P!Next]_(P!vars) => P!IInv'
  BY P!NextIInv, DirAssumption, SequencerAssumption, MaxStoresAssumption DEF DramInv
<1>2. P!IInv' => Requests' \subseteq Message
  BY DEF P!IInv, P!ProtocolInv, P!TypeOK, Message, P!Message, VirtualNetwork, P!VirtualNetwork,
         CoherenceRequestType, P!CoherenceRequestType, CoherenceResponseType,
         P!CoherenceResponseType
<1>3. CASE ~DramPending /\ CacheNext /\ UNCHANGED dir
  <2>1. PICK p \in Proc : \/ CacheRequest(p)
                          \/ All_acks(p)
                          \/ \E m \in net : m.to = p /\ CacheReceive(p, m)
    BY <1>3 DEF CacheNext
  <2>2. (\A x \in net : x.vnet # "dram") /\ \A x \in net' : x.vnet # "dram"
    BY <1>3, <2>1, NothingBecomesPending DEF DramPending
  <2>3. Requests = net /\ Requests' = net'
    BY <2>2 DEF Requests, AsRequest
  <2>4. P!CacheNext
    BY <2>1, <2>3, ReceiveRefines, RequestRefines DEF P!CacheNext
  <2>5. [P!Next]_(P!vars) /\ P!IInv'
    BY <1>1, <1>3, <2>4 DEF P!Next
  <2>6. NetOK' /\ DramOK'
    BY <1>2, <2>2, <2>3, <2>5 DEF NetOK, DramOK, DramPending, AsRequest
  <2> QED
    BY <2>5, <2>6 DEF DramInv
<1>4. CASE DramDirectoryNext /\ UNCHANGED <<cacheVars, sequencerVars>>
  <2>1. PICK m \in net : m.to = Dir /\ DramDirectoryReceive(m)
    BY <1>4 DEF DramDirectoryNext
  <2>2. CASE readDram(m) \/ writeDram(m)
    <3>1. UNCHANGED P!vars /\ NetOK' /\ DramOK'
      BY <1>4, <2>1, <2>2, AccessStep
    <3> QED
      BY <1>1, <3>1 DEF DramInv
  <2>3. CASE ~(readDram(m) \/ writeDram(m))
    <3>1. P!DirectoryNext
      BY <2>1, <2>3, DirectoryRefines
    <3>2. [P!Next]_(P!vars) /\ P!IInv'
      BY <1>1, <1>4, <3>1 DEF P!Next, cacheVars, sequencerVars, P!cacheVars, P!sequencerVars
    <3>3. NetOK' /\ DramOK'
      BY <1>2, <2>1, <2>3, <3>2, DirectoryStep
    <3> QED
      BY <3>2, <3>3 DEF DramInv
  <2> QED
    BY <2>2, <2>3
<1>5. CASE UNCHANGED vars
  <2>1. UNCHANGED P!vars
    BY <1>5 DEF vars, P!vars, Requests
  <2>2. NetOK' /\ DramOK'
    BY <1>5 DEF vars, DramInv, NetOK, DramOK, DramPending
  <2> QED
    BY <1>1, <2>1, <2>2 DEF DramInv
<1> QED
  BY <1>3, <1>4, <1>5 DEF Next

(* MOESI_DRAM_directory implements MOESI_directory: up to the time the    *)
(* memory takes, it makes no step the other protocol could not make.      *)
ImplementsDirectory == P!Spec

(* Without RANDOMIZATION the directory that waits for DRAMSim2 refines    *)
(* the one that reads its memory at once: the requests it accepts while   *)
(* it waits (the cause of the invalid transition that stops it) never     *)
(* lead a cache to a state of its own.                                    *)
THEOREM DramImplementsDirectory ==
  ASSUME ~Randomization PROVE Spec => ImplementsDirectory
<1>1. Init => P!Init /\ DramInv
  BY InitDramInv
<1>2. DramInv /\ [Next]_vars => [P!Next]_(P!vars) /\ DramInv'
  BY NextDramInv
<1> QED
  BY <1>1, <1>2, PTL DEF Spec, P!Spec, ImplementsDirectory

------------------------------------------------------------------------------
(* What carries over.                                                     *)

(* The permission of a state is the same in both protocols.               *)
LEMMA SamePermission ==
  \A c : P!Permission(c) = Permission(c)
BY DEF Permission, P!Permission

(* Every reachable state satisfies the invariant.                         *)
LEMMA DramInvHolds ==
  ASSUME ~Randomization PROVE Spec => []DramInv
<1>1. Init => DramInv
  BY InitDramInv
<1>2. DramInv /\ [Next]_vars => DramInv'
  BY NextDramInv
<1> QED
  BY <1>1, <1>2, PTL DEF Spec

(* What the caches hold is a matter of MOESI_directory.                   *)
LEMMA InvCachesCoherent == DramInv => CachesCoherent
<1> SUFFICES ASSUME DramInv PROVE CachesCoherent
  OBVIOUS
<1>1. PICK ph \in P!Phase, r \in Proc \cup {Dir} : P!ProtocolInv(ph, r)
  BY DEF DramInv, P!IInv
<1>2. P!SingleWriter
  BY <1>1, P!InvSingleWriter, DirAssumption, SequencerAssumption, MaxStoresAssumption
<1>3. P!NoStaleRead
  BY <1>1, P!InvNoStaleRead, DirAssumption, SequencerAssumption, MaxStoresAssumption
<1> QED
  BY <1>2, <1>3, SamePermission
     DEF CachesCoherent, SingleWriter, NoStaleRead, P!SingleWriter, P!NoStaleRead

(* So is what the caches receive; and no assertion concerns a request at  *)
(* the memory.                                                            *)
LEMMA InvNoOtherFailure == DramInv => NoOtherFailure
<1> SUFFICES ASSUME DramInv PROVE NoOtherFailure
  OBVIOUS
<1>1. PICK ph \in P!Phase, r \in Proc \cup {Dir} : P!ProtocolInv(ph, r)
  BY DEF DramInv, P!IInv
<1>2. P!NoInvalidTransition
  BY <1>1, P!InvNoInvalidTransition, DirAssumption, SequencerAssumption, MaxStoresAssumption
<1>3. P!AssertionsHold
  BY <1>1, P!InvAssertionsHold, DirAssumption, SequencerAssumption, MaxStoresAssumption
<1>4. ASSUME NEW m \in net, m.vnet # "dram"
      PROVE  m \in Requests
  BY <1>4 DEF Requests, AsRequest
<1>5. ASSUME NEW m \in net, m.to \in Proc
      PROVE  cache[m.to].state \in CacheExpects(m.to, m)
  <2>1. m.vnet # "dram"
    <3>1. AsRequest(m) \in Requests /\ AsRequest(m).to = m.to
      BY AsRequestRecord DEF DramInv, NetOK, Requests
    <3>2. AsRequest(m).vnet = "request" => AsRequest(m).to = Dir
      BY <1>1, <3>1 DEF P!ProtocolInv, P!MessagesOK
    <3> QED
      BY <1>5, <3>1, <3>2, AsRequestRecord, DirAssumption DEF DramInv, NetOK
  <2>2. cache[m.to].state \in P!CacheExpects(m.to, m)
    BY <1>2, <1>4, <1>5, <2>1 DEF P!NoInvalidTransition
  <2>3. P!CacheExpects(m.to, m) = CacheExpects(m.to, m)
    BY DEF CacheExpects, P!CacheExpects, SupplyingStates, P!SupplyingStates
  <2> QED
    BY <2>2, <2>3
<1>6. NoInvalidCacheTransition
  BY <1>2, <1>5 DEF NoInvalidCacheTransition, P!NoInvalidTransition
<1>7. SetStateAsserts
  BY <1>3, SameCardinality DEF P!AssertionsHold, SetStateAsserts, P!SetStateAsserts
<1>8. AssertionsHold
  BY <1>3, <1>4, <1>7
     DEF AssertionsHold, P!AssertionsHold, IsOwnerPut, P!IsOwnerPut, IsRequest, P!IsRequest
<1> QED
  BY <1>6, <1>8 DEF NoOtherFailure

(* So is data on its way to a cache.                                      *)
LEMMA InvExclusiveData == DramInv => ExclusiveDataIsExclusive
<1> SUFFICES ASSUME DramInv, NEW m \in net, NEW p \in Proc \ {m.to},
                    m.type \in {"DATA_EXCLUSIVE_CLEAN", "DATA_EXCLUSIVE_DIRTY"}
             PROVE  Permission(cache[p]) \in {"NotPresent", "Invalid"}
  BY DEF ExclusiveDataIsExclusive
<1>1. PICK ph \in P!Phase, r \in Proc \cup {Dir} : P!ProtocolInv(ph, r)
  BY DEF DramInv, P!IInv
<1>2. PICK n \in Requests : n.type = m.type /\ n.to = m.to
  BY AsRequestRecord DEF DramInv, NetOK, Requests
<1>3. P!Permission(cache[p]) \in {"NotPresent", "Invalid"}
  BY <1>1, <1>2, P!ExclusiveDataIsAlone, DirAssumption, SequencerAssumption,
     MaxStoresAssumption
<1> QED
  BY <1>3, SamePermission

(* Up to the point where the directory stops, every readable copy is the  *)
(* latest and writers are alone, for any number of processors and stores. *)
THEOREM DramCachesAreCoherent ==
  ASSUME ~Randomization PROVE Spec => []CachesCoherent
BY DramInvHolds, InvCachesCoherent, PTL

(* No cache reaches an invalid transition and no assertion of the         *)
(* controllers fails: the only failure left is the directory's, which the *)
(* run of the finding shows.                                              *)
THEOREM DramFailsOnlyInTheDirectory ==
  ASSUME ~Randomization PROVE Spec => []NoOtherFailure
BY DramInvHolds, InvNoOtherFailure, PTL

(* DATA_EXCLUSIVE is sent only while no other processor has a copy.       *)
THEOREM DramExclusiveDataIsExclusive ==
  ASSUME ~Randomization PROVE Spec => []ExclusiveDataIsExclusive
BY DramInvHolds, InvExclusiveData, PTL
==============================================================================
