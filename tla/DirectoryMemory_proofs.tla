------------------------- MODULE DirectoryMemory_proofs -------------------------
(* EveryOperationAnswered and NoStrandedTransaction for every set of addresses    *)
(* and requestors, every TRANS_QUEUE_DEPTH and every number of operations.        *)
EXTENDS DirectoryMemory, FiniteSetTheorems, SequenceTheorems, TLAPS

(* Queues outside a call: no request is pending, and what waits outside DRAMSim2  *)
(* waits for something inside it.                                                 *)
Quiet(s) ==
    /\ s \in MemType
    /\ s.pending = <<>>
    /\ s.transQueue # <<>> => s.held # <<>>

IInv ==
    /\ TypeOK
    /\ Quiet(mem)
    /\ replies = operations
    /\ wakeup = scheduled
    /\ mem.transQueue # <<>> => wakeup

--------------------------------------------------------------------------------
(* DRAMSim2 refuses a transaction only while it holds one.                        *)
LEMMA RefusalMeansHeld ==
  ASSUME NEW s \in MemType, ~WillAcceptTransaction(s)
  PROVE  s.held # <<>>
<1> SUFFICES ASSUME s.held = <<>> PROVE FALSE
  OBVIOUS
<1>1. Queued(s) = {}
  BY DEF Queued
<1>2. Cardinality(Queued(s)) = 0
  BY <1>1, FS_EmptySet
<1> QED
  BY <1>2, DirectoryMemoryAssumption DEF WillAcceptTransaction

(* addTransaction leaves DRAMSim2 holding something.                              *)
LEMMA AddTransaction ==
  ASSUME NEW s \in MemType, NEW tr \in Transaction
  PROVE  /\ addTransaction(s, tr) \in MemType
         /\ addTransaction(s, tr).pending = s.pending
         /\ addTransaction(s, tr).transQueue = s.transQueue
         /\ addTransaction(s, tr).held # <<>>
<1> DEFINE h == [address |-> tr.address, write |-> tr.write, issued |-> FALSE]
<1>1. h \in Held
  BY DEF Transaction, Held
<1> HIDE DEF h
<1>2. Append(s.held, h) \in Seq(Held) /\ Append(s.held, h) # <<>>
  <2>1. s.held \in Seq(Held)
    BY DEF MemType
  <2>2. Append(s.held, h) \in Seq(Held) /\ Len(Append(s.held, h)) = Len(s.held) + 1
    BY <1>1, <2>1
  <2> QED
    BY <2>1, <2>2, EmptySeq
<1>3. addTransaction(s, tr) = [s EXCEPT !.held = Append(s.held, h)]
  BY DEF addTransaction, h
<1> QED
  BY <1>2, <1>3 DEF MemType

(* The first part of dram_complete.                                               *)
LEMMA RefillKeeps ==
  ASSUME NEW s \in MemType
  PROVE  /\ Refill(s) \in MemType
         /\ Refill(s).pending = s.pending
         /\ Refill(s).transQueue # <<>> => Refill(s).held # <<>>
<1>1. CASE s.transQueue # <<>> /\ WillAcceptTransaction(s)
  <2> DEFINE a == addTransaction(s, Head(s.transQueue))
  <2>1. Head(s.transQueue) \in Transaction /\ Tail(s.transQueue) \in Seq(Transaction)
    BY <1>1 DEF MemType
  <2>2. a \in MemType /\ a.pending = s.pending /\ a.held # <<>> /\ a.transQueue = s.transQueue
    BY <2>1, AddTransaction
  <2>3. Refill(s) = [a EXCEPT !.transQueue = Tail(a.transQueue)]
    BY <1>1 DEF Refill
  <2> HIDE DEF a
  <2> QED
    BY <2>1, <2>2, <2>3 DEF MemType
<1>2. CASE s.transQueue # <<>> /\ ~WillAcceptTransaction(s)
  BY <1>2, RefusalMeansHeld DEF Refill
<1>3. CASE s.transQueue = <<>>
  BY <1>3 DEF Refill
<1> QED
  BY <1>1, <1>2, <1>3

(* dram_complete when no request is pending answers nobody.                       *)
LEMMA CompleteWhenQuiet ==
  ASSUME NEW s \in MemType, s.pending = <<>>, NEW a
  PROVE  CompleteOut(s, a) = <<>> /\ Quiet(dram_complete(s, a))
<1>1. CompleteOut(s, a) = <<>>
  BY DEF CompleteOut
<1>2. dram_complete(s, a) = Refill(s)
  BY <1>1 DEF dram_complete, CompleteMem
<1> QED
  BY <1>1, <1>2, RefillKeeps DEF Quiet

(* dram_complete with one request pending, for its address, answers that request. *)
LEMMA CompleteOnlyPending ==
  ASSUME NEW s \in MemType, NEW m \in RequestMsg, s.pending = <<m>>
  PROVE  CompleteOut(s, m.address) = <<m>> /\ Quiet(dram_complete(s, m.address))
<1>1. Len(s.pending) = 1 /\ s.pending[1] = m
  OBVIOUS
<1>2. \A i \in 1 .. Len(s.pending) : i = 1
  BY <1>1
<1>3. IsMatch(s.pending, m.address, 1)
  BY <1>1 DEF IsMatch
<1>4. MatchIndex(s.pending, m.address) = 1
  BY <1>1, <1>2, <1>3 DEF MatchIndex
<1>5. CompleteOut(s, m.address) = <<m>>
  BY <1>1, <1>3, <1>4 DEF CompleteOut
<1>6. dram_complete(s, m.address) = [Refill(s) EXCEPT !.pending = Without(Refill(s).pending, 1)]
  <2>1. <<m>> # <<>>
    OBVIOUS
  <2> QED
    BY <1>4, <1>5, <2>1 DEF dram_complete, CompleteMem
<1>7. Without(<<m>>, 1) = <<>>
  <2>1. Without(<<m>>, 1) \in Seq({m}) /\ Len(Without(<<m>>, 1)) = 0
    BY DEF Without
  <2> QED
    BY <2>1, EmptySeq
<1>8. Refill(s) \in MemType /\ Refill(s).pending = <<m>>
      /\ (Refill(s).transQueue # <<>> => Refill(s).held # <<>>)
  BY RefillKeeps
<1>9. Quiet(dram_complete(s, m.address))
  <2>1. dram_complete(s, m.address) = [Refill(s) EXCEPT !.pending = <<>>]
    BY <1>6, <1>7, <1>8
  <2>2. <<>> \in Seq(RequestMsg)
    OBVIOUS
  <2> QED
    BY <1>8, <2>1, <2>2 DEF Quiet, MemType
<1> QED
  BY <1>5, <1>9

(* dram_operation up to its last line.                                            *)
LEMMA AcceptKeeps ==
  ASSUME NEW s, Quiet(s), NEW m \in RequestMsg
  PROVE  Accept(s, m) \in MemType /\ Accept(s, m).pending = <<m>>
<1> DEFINE tr == [address |-> m.address, write |-> m.write]
           s1 == IF WillAcceptTransaction(s) THEN addTransaction(s, tr)
                 ELSE [s EXCEPT !.transQueue = Append(@, tr)]
<1>1. tr \in Transaction
  BY DEF RequestMsg, Transaction
<1>2. s1 \in MemType /\ s1.pending = <<>>
  <2>1. CASE WillAcceptTransaction(s)
    BY <1>1, <2>1, AddTransaction DEF Quiet
  <2>2. CASE ~WillAcceptTransaction(s)
    <3> HIDE DEF tr
    <3>1. Append(s.transQueue, tr) \in Seq(Transaction)
      BY <1>1 DEF Quiet, MemType
    <3> QED
      BY <2>2, <3>1 DEF Quiet, MemType
  <2> QED
    BY <2>1, <2>2
<1>3. Accept(s, m) = [s1 EXCEPT !.pending = Append(s1.pending, m)]
  BY DEF Accept
<1> HIDE DEF s1
<1>4. Append(s1.pending, m) = <<m>> /\ <<m>> \in Seq(RequestMsg)
  BY <1>2
<1> QED
  BY <1>2, <1>3, <1>4 DEF MemType

(* DRAMSim2 completing a transaction calls back, and answers nobody.              *)
LEMMA FinishKeeps ==
  ASSUME NEW s, Quiet(s), NEW i \in 0 .. Len(s.held)
  PROVE  Quiet(Finish(s, i)) /\ FinishOut(s, i) = <<>>
<1>1. CASE i = 0
  BY <1>1 DEF Finish, FinishOut
<1>2. CASE i # 0
  <2> DEFINE w == Without(s.held, i)
             t == [s EXCEPT !.held = w]
  <2>0. s.held \in Seq(Held) /\ Len(s.held) \in Nat /\ i \in 1 .. Len(s.held)
    BY <1>2 DEF Quiet, MemType
  <2>1. \A j \in 1 .. Len(s.held) - 1 : (IF j < i THEN s.held[j] ELSE s.held[j + 1]) \in Held
    BY <2>0
  <2>2. w \in Seq(Held)
    BY <2>0, <2>1 DEF Without
  <2>3. t \in MemType /\ t.pending = <<>>
    BY <2>2 DEF Quiet, MemType
  <2>4. Quiet(dram_complete(t, s.held[i].address))
    BY <2>3, CompleteWhenQuiet
  <2>5. CompleteOut(s, s.held[i].address) = <<>>
    BY CompleteWhenQuiet DEF Quiet
  <2> QED
    BY <1>2, <2>4, <2>5 DEF Finish, FinishOut
<1> QED
  BY <1>1, <1>2

(* Issuing transactions to the banks changes no queue's length.                   *)
LEMMA IssueKeeps ==
  ASSUME NEW s, Quiet(s), NEW I
  PROVE  Quiet(Issue(s, I))
<1> DEFINE h == [j \in 1 .. Len(s.held) |-> [s.held[j] EXCEPT !.issued = @ \/ j \in I]]
<1>0. s \in MemType /\ s.held \in Seq(Held) /\ Len(s.held) \in Nat
  BY DEF Quiet, MemType
<1>1. \A j \in 1 .. Len(s.held) : [s.held[j] EXCEPT !.issued = @ \/ j \in I] \in Held
  <2> SUFFICES ASSUME NEW j \in 1 .. Len(s.held)
               PROVE  [s.held[j] EXCEPT !.issued = @ \/ j \in I] \in Held
    OBVIOUS
  <2>1. s.held[j] \in Held
    BY <1>0
  <2>2. (s.held[j].issued \/ j \in I) \in BOOLEAN
    OBVIOUS
  <2> QED
    BY <2>1, <2>2 DEF Held
<1>2. h \in Seq(Held) /\ Len(h) = Len(s.held)
  BY <1>0, <1>1
<1>3. s.held # <<>> => h # <<>>
  BY <1>0, <1>2
<1>4. Issue(s, I) = [s EXCEPT !.held = h]
  BY DEF Issue
<1> HIDE DEF h
<1> QED
  BY <1>0, <1>2, <1>3, <1>4 DEF Quiet, MemType
--------------------------------------------------------------------------------
(* Init: nothing is queued.                                                       *)
LEMMA InitIInv == Init => IInv
<1> SUFFICES ASSUME Init PROVE IInv
  OBVIOUS
<1>1. <<>> \in Seq(RequestMsg) /\ <<>> \in Seq(Transaction) /\ <<>> \in Seq(Held)
  OBVIOUS
<1>2. Quiet(mem)
  BY <1>1 DEF Init, Quiet, MemType
<1> QED
  BY <1>1, <1>2 DEF Init, IInv, TypeOK, Quiet

(* Every step keeps the strengthening: an operation adds one pending request and  *)
(* answers it; a clocked DRAMSim2 finds nobody to answer.                         *)
LEMMA NextKeepsIInv == IInv /\ [Next]_vars => IInv'
<1> SUFFICES ASSUME IInv, [Next]_vars PROVE IInv'
  OBVIOUS
<1> USE DEF IInv
<1>1. ASSUME NEW m \in RequestMsg, dram_operation(m) PROVE IInv'
  <2> DEFINE a == Accept(mem, m)
  <2>1. a \in MemType /\ a.pending = <<m>>
    BY AcceptKeeps
  <2> HIDE DEF a
  <2>2. CompleteOut(a, m.address) = <<m>> /\ Quiet(dram_complete(a, m.address))
    BY <2>1, CompleteOnlyPending
  <2>3. /\ wakeup' = TRUE
        /\ scheduled' = (scheduled \/ ~wakeup)
        /\ mem' = dram_complete(a, m.address)
        /\ replies' = replies \o CompleteOut(a, m.address)
        /\ operations' = Append(operations, m)
    BY <1>1 DEF dram_operation, a
  <2>4. Quiet(mem')
    BY <2>2, <2>3
  <2>5. replies' = operations' /\ operations' \in Seq(RequestMsg)
    BY <2>2, <2>3 DEF TypeOK
  <2>6. wakeup' = scheduled' /\ wakeup' = TRUE
    BY <2>3 DEF TypeOK
  <2> QED
    BY <2>3, <2>4, <2>5, <2>6 DEF TypeOK, Quiet
<1>2. CASE WakeupStops
  BY <1>2 DEF WakeupStops, TypeOK, Quiet
<1>3. CASE Update
  <2>1. PICK w \in 0 .. Len(mem.held), r \in Indices, I \in SUBSET (Indices \ {0}) :
            WakeupUpdates(w, I, r)
    BY <1>3 DEF Update
  <2> DEFINE s == Issue(Finish(mem, w), I)
  <2>2. /\ scheduled
        /\ r \in 0 .. Len(s.held)
        /\ mem' = Finish(s, r)
        /\ replies' = replies \o FinishOut(mem, w) \o FinishOut(s, r)
        /\ UNCHANGED <<wakeup, scheduled, operations>>
    BY <2>1 DEF WakeupUpdates
  <2>3. Quiet(s) /\ FinishOut(mem, w) = <<>>
    BY FinishKeeps, IssueKeeps
  <2> HIDE DEF s
  <2>4. Quiet(mem') /\ FinishOut(s, r) = <<>>
    BY <2>2, <2>3, FinishKeeps
  <2>5. replies' = replies
    BY <2>2, <2>3, <2>4 DEF TypeOK
  <2> QED
    BY <2>2, <2>4, <2>5 DEF TypeOK, Quiet
<1>4. CASE UNCHANGED vars
  BY <1>4 DEF vars, TypeOK, Quiet
<1> QED
  BY <1>1, <1>2, <1>3, <1>4 DEF Next

(* The shim's promises follow from the strengthening.                             *)
LEMMA IInvImplies ==
    IInv => TypeOK /\ EveryOperationAnswered /\ NoStrandedTransaction
  BY DEF IInv, Quiet, EveryOperationAnswered, NoStrandedTransaction

(* The type invariant of the shim.                                                *)
THEOREM TypesAreCorrect == Spec => []TypeOK
  BY InitIInv, NextKeepsIInv, IInvImplies, PTL DEF Spec

(* Every dram_operation is answered once, in order, with its own request, though  *)
(* dram_complete matches requests by address only.                                *)
THEOREM OperationsAreAnswered == Spec => []EveryOperationAnswered
  BY InitIInv, NextKeepsIInv, IInvImplies, PTL DEF Spec

(* m_trans_queue never holds a transaction that nothing will move to DRAMSim2.    *)
THEOREM TransactionsAreNotStranded == Spec => []NoStrandedTransaction
  BY InitIInv, NextKeepsIInv, IInvImplies, PTL DEF Spec
================================================================================
