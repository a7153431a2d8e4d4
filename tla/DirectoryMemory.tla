---------------------------- MODULE DirectoryMemory ----------------------------
(* ruby/system/DirectoryMemory.C with DRAMSIM: the shim between the directory  *)
(* controller and DRAMSim2.  An operation hands a transaction to DRAMSim2, or  *)
(* queues it while DRAMSim2 is full, and remembers the request that is to be   *)
(* sent back when the transaction completes.  A wakeup clocks DRAMSim2.        *)
(*                                                                             *)
(* The directory entries themselves are the variable dir of DirectoryEntry.    *)
EXTENDS Integers, Sequences, FiniteSets

CONSTANTS
    Address,
    Requestor,
    TransQueueDepth,  \* TRANS_QUEUE_DEPTH of DRAMSim2's memory controller
    MaxOperations     \* bound on the operations of a behaviour

ASSUME DirectoryMemoryAssumption ==
    /\ TransQueueDepth \in Nat \ {0}
    /\ MaxOperations \in Nat

(* A RequestMsg, as far as the shim looks at it; write tells nn_writeDram from *)
(* n_readDram.                                                                 *)
RequestMsg == [address : Address, from : Requestor, write : BOOLEAN]

Transaction == [address : Address, write : BOOLEAN]

(* A transaction in DRAMSim2 is in its transactionQueue until it is issued.    *)
Held == [address : Address, write : BOOLEAN, issued : BOOLEAN]

VARIABLE
    mem,        \* the queues: see MemType
    wakeup,     \* m_wakeup
    scheduled,  \* the event queue holds a wakeup of this object
    replies,    \* the requests sent on virtual network 4, in order
    operations  \* the requests received, in order

vars == <<mem, wakeup, scheduled, replies, operations>>

MemType ==
    [pending    : Seq(RequestMsg),    \* m_pending_trans
     transQueue : Seq(Transaction),   \* m_trans_queue
     held       : Seq(Held)]          \* the transactions inside DRAMSim2

Init ==
    /\ mem = [pending |-> <<>>, transQueue |-> <<>>, held |-> <<>>]
    /\ wakeup = FALSE
    /\ scheduled = FALSE
    /\ replies = <<>>
    /\ operations = <<>>

TypeOK ==
    /\ mem \in MemType
    /\ wakeup \in BOOLEAN
    /\ scheduled \in BOOLEAN
    /\ replies \in Seq(RequestMsg)
    /\ operations \in Seq(RequestMsg)
--------------------------------------------------------------------------------
(* MemoryController::addTransaction accepts while its queue has room.          *)
Queued(s) == {i \in 1 .. Len(s.held) : ~s.held[i].issued}

WillAcceptTransaction(s) == Cardinality(Queued(s)) < TransQueueDepth

addTransaction(s, tr) ==
    [s EXCEPT !.held = Append(@, [address |-> tr.address, write |-> tr.write,
                                  issued |-> FALSE])]

Without(s, i) == [j \in 1 .. Len(s) - 1 |-> IF j < i THEN s[j] ELSE s[j + 1]]

(* The first pending request for the address, and nothing but the address.     *)
IsMatch(pending, a, i) ==
    /\ i \in 1 .. Len(pending)
    /\ pending[i].address = a
    /\ \A j \in 1 .. i - 1 : pending[j].address # a

MatchIndex(pending, a) == CHOOSE i \in 1 .. Len(pending) : IsMatch(pending, a, i)

(* Faulty variant: a waiting transaction is never retried.                     *)
Refill_never(s) == s

(* dram_complete, first part: one waiting transaction enters DRAMSim2.         *)
Refill(s) ==
    IF s.transQueue # <<>> /\ WillAcceptTransaction(s)
    THEN [addTransaction(s, Head(s.transQueue)) EXCEPT !.transQueue = Tail(@)]
    ELSE s

(* Faulty variant: the pending request is not erased.                          *)
CompleteMem_keepsRequest(s, a, out) == Refill(s)

(* dram_complete: out is the request to send back, none or one.                *)
CompleteMem(s, a, out) ==
    IF out = <<>> THEN Refill(s)
    ELSE [Refill(s) EXCEPT !.pending = Without(@, MatchIndex(s.pending, a))]

CompleteOut(s, a) ==
    IF \E i \in 1 .. Len(s.pending) : IsMatch(s.pending, a, i)
    THEN <<s.pending[MatchIndex(s.pending, a)]>>
    ELSE <<>>

dram_complete(s, a) == CompleteMem(s, a, CompleteOut(s, a))

(* dram_operation up to its last line.                                         *)
Accept(s, m) ==
    LET tr == [address |-> m.address, write |-> m.write]
        s1 == IF WillAcceptTransaction(s)
              THEN addTransaction(s, tr)
              ELSE [s EXCEPT !.transQueue = Append(@, tr)]
    IN [s1 EXCEPT !.pending = Append(@, m)]

(* dram_operation: the transaction is completed at once, by its last line.     *)
dram_operation(m) ==
    /\ Len(operations) < MaxOperations
    /\ wakeup' = TRUE
    /\ scheduled' = (scheduled \/ ~wakeup)
    /\ mem' = dram_complete(Accept(mem, m), m.address)
    /\ replies' = replies \o CompleteOut(Accept(mem, m), m.address)
    /\ operations' = Append(operations, m)

(* Faulty variant: transactions still waiting to enter are not looked at.      *)
WakeupStops_early ==
    /\ scheduled
    /\ mem.pending = <<>>
    /\ wakeup' = FALSE
    /\ scheduled' = FALSE
    /\ UNCHANGED <<mem, replies, operations>>

(* DirectoryMemory::wakeup with nothing left to do.                            *)
WakeupStops ==
    /\ scheduled
    /\ mem.pending = <<>> /\ mem.transQueue = <<>>
    /\ wakeup' = FALSE
    /\ scheduled' = FALSE
    /\ UNCHANGED <<mem, replies, operations>>

(* MemorySystem::update, external to the shim: at most one write completes and *)
(* calls back, then some queued transactions are issued to the banks, then at  *)
(* most one read completes and calls back.  The index 0 stands for none.       *)
Finish(s, i) ==
    IF i = 0 THEN s
    ELSE dram_complete([s EXCEPT !.held = Without(@, i)], s.held[i].address)

FinishOut(s, i) == IF i = 0 THEN <<>> ELSE CompleteOut(s, s.held[i].address)

CanFinish(s, i, write) == i > 0 => s.held[i].issued /\ s.held[i].write = write

Issue(s, I) ==
    [s EXCEPT !.held = [j \in 1 .. Len(s.held) |->
                          [s.held[j] EXCEPT !.issued = @ \/ j \in I]]]

(* DirectoryMemory::wakeup: clock DRAMSim2 and reschedule.                     *)
WakeupUpdates(w, I, r) ==
    LET s == Issue(Finish(mem, w), I)
    IN /\ scheduled
       /\ mem.pending # <<>> \/ mem.transQueue # <<>>
       /\ CanFinish(mem, w, TRUE)
       /\ I \subseteq Queued(Finish(mem, w))
       /\ r \in 0 .. Len(s.held)
       /\ CanFinish(s, r, FALSE)
       /\ mem' = Finish(s, r)
       /\ replies' = replies \o FinishOut(mem, w) \o FinishOut(s, r)
       /\ UNCHANGED <<wakeup, scheduled, operations>>

(* The indices an update may use: one transaction may enter in mid-update.     *)
Indices == 0 .. Len(mem.held) + 1

Update ==
    \E w \in 0 .. Len(mem.held), r \in Indices, I \in SUBSET (Indices \ {0}) :
        WakeupUpdates(w, I, r)

(* An update in which DRAMSim2 moves: it completes or issues something.        *)
UpdateProgresses ==
    \E w \in 0 .. Len(mem.held), r \in Indices, I \in SUBSET (Indices \ {0}) :
        (w > 0 \/ r > 0 \/ I # {}) /\ WakeupUpdates(w, I, r)

Next ==
    \/ \E m \in RequestMsg : dram_operation(m)
    \/ WakeupStops
    \/ Update

Spec == Init /\ [][Next]_vars

(* The event queue runs a scheduled wakeup, and a clocked DRAMSim2 does not    *)
(* stay idle forever while it has work.                                        *)
FairSpec == Spec /\ WF_vars(WakeupStops) /\ WF_vars(UpdateProgresses)
--------------------------------------------------------------------------------
(* dram_complete identifies the request to answer by its address alone         *)
(* ("FIXME: should check to make sure this is a read or a write").  Still, the *)
(* answers are the operations, each once, in order and with its own request.   *)
EveryOperationAnswered == mem.pending = <<>> /\ replies = operations

(* A transaction that did not fit is not stranded: while one waits, DRAMSim2   *)
(* holds another whose completion will let it in, and it is being clocked.     *)
NoStrandedTransaction ==
    mem.transQueue # <<>> =>
        /\ mem.held # <<>>
        /\ wakeup /\ scheduled

(* The transactions that had to wait enter DRAMSim2, once operations pause.    *)
WaitingTransactionsEnter == mem.transQueue # <<>> ~> mem.transQueue = <<>>
================================================================================
