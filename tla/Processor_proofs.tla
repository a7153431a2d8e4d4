-------------------------- MODULE Processor_proofs --------------------------
(* Pyrite's window, for every program, memory layout, reorder buffer and    *)
(* ring size, and any behaviour of memory and other processors.  First the  *)
(* pointers: there the core stays opaque, and only the pointers and the     *)
(* marks of the x86 instructions are followed.  Then the core with its wait *)
(* lists: types, and no load waits without being on a list.                 *)
EXTENDS Processor, FiniteSetTheorems, TLAPS

(* The q pointers of the instructions in the window. *)
Window == qTail .. (qHead - 1)

(* The inductive invariant.  Retirement moves the tail behind a uop that   *)
(* ends its x86 instruction, so no younger uop may belong to an            *)
(* instruction that starts at or before such a uop.                        *)
WindowInv ==
  /\ prog \in Programs /\ crack \in BOOLEAN
  /\ qTail \in Nat /\ qRetire \in Nat /\ qExecute \in Nat
  /\ qRename \in Nat /\ qHead \in Nat
  /\ qTail <= qRetire /\ qRetire <= qExecute
  /\ qExecute <= qRename /\ qRename <= qHead
  /\ qRename <= qTail + RobSize
  /\ qHead <= qTail + BufSize
  /\ DOMAIN first = Window /\ ends \subseteq Window
  /\ \A q \in Window : first[q] \in qTail .. q
  /\ \A e \in ends : \A q \in Window : q > e => first[q] > e

(* std::min of two pointers. *)
LEMMA MinOfTwo ==
  ASSUME NEW a \in Nat, NEW b \in Nat
  PROVE  Min({a, b}) = IF a <= b THEN a ELSE b
<1> DEFINE m == IF a <= b THEN a ELSE b
<1>1. m \in {a, b} /\ \A y \in {a, b} : m <= y
  OBVIOUS
<1>2. ASSUME NEW x \in {a, b}, \A y \in {a, b} : x <= y  PROVE x = m
  BY <1>2
<1>3. QED
  BY <1>1, <1>2 DEF Min

(* flushPipeline back to any place between the tail and m_q_rename. *)
LEMMA FlushKeepsWindow ==
  ASSUME WindowInv, NEW from \in qTail .. qRename, NEW also,
         also \subseteq qTail .. (from - 1),
         \A e \in also : \A q \in qTail .. (from - 1) : q <= e,
         FlushPointers(from, also), prog' = prog, crack' \in BOOLEAN
  PROVE  WindowInv'
<1>1. /\ qTail' = qTail /\ qRename' = from /\ qHead' = from
      /\ qExecute' = IF qExecute <= from THEN qExecute ELSE from
      /\ qRetire' = IF qRetire <= from THEN qRetire ELSE from
  BY MinOfTwo DEF FlushPointers, WindowInv
<1>2. /\ first' = [q \in {x \in Window : x < from} |-> first[q]]
      /\ ends' = {q \in ends : q < from} \cup also
  BY DEF FlushPointers, Restrict, WindowInv
<1>3. Window' = {x \in Window : x < from}
  BY <1>1 DEF Window, WindowInv
<1>4. DOMAIN first' = Window' /\ ends' \subseteq Window'
  BY <1>1, <1>2, <1>3 DEF Window, WindowInv
<1>5. \A q \in Window' : first'[q] = first[q] /\ first[q] \in qTail .. q
  BY <1>2, <1>3 DEF WindowInv
<1>6. \A e \in ends' : \A q \in Window' : q > e => first'[q] > e
  <2> SUFFICES ASSUME NEW e \in ends', NEW q \in Window', q > e
               PROVE  first[q] > e
    BY <1>5
  <2>1. CASE e \in ends
    BY <2>1, <1>3 DEF WindowInv
  <2>2. CASE e \in also
    BY <2>2, <1>1 DEF Window, WindowInv
  <2>3. QED
    BY <2>1, <2>2, <1>2
<1>7. QED
  BY <1>1, <1>4, <1>5, <1>6, WindowAssumption DEF WindowInv, Window

(* resetUopBuf *)
LEMMA ResetKeepsWindow ==
  ASSUME WindowInv, ResetPointers, prog' = prog, crack' \in BOOLEAN
  PROVE  WindowInv'
  BY WindowAssumption DEF WindowInv, Window, ResetPointers

(* What leaves the pointers alone leaves the invariant alone. *)
LEMMA SamePointers ==
  ASSUME WindowInv, UNCHANGED <<prog, pointers, crack>>
  PROVE  WindowInv'
  BY DEF WindowInv, Window, pointers

(* What moves only the pointers between the tail and the head, and keeps   *)
(* their order. *)
LEMMA InnerPointers ==
  ASSUME WindowInv, UNCHANGED <<prog, qTail, qHead, first, ends, crack>>,
         qRetire' \in Nat, qExecute' \in Nat, qRename' \in Nat,
         qTail <= qRetire', qRetire' <= qExecute', qExecute' <= qRename',
         qRename' <= qHead, qRename' <= qTail + RobSize
  PROVE  WindowInv'
<1>1. Window' = Window
  BY DEF Window
<1>2. QED
  BY <1>1 DEF WindowInv

(* A uop leaves the window or the next one is looked at; a load that lost  *)
(* its line has everything younger renamed again.                          *)
LEMMA YoungerKeepsOrder ==
  ASSUME WindowInv, YoungerPointers, qRetire < qExecute
  PROVE  /\ qRename' \in Nat /\ qExecute' \in Nat
         /\ qRetire + 1 <= qExecute' /\ qExecute' <= qRename' /\ qRename' <= qRename
<1>1. qRetire + 1 \in Nat /\ qExecute \in Nat /\ qRename \in Nat
  BY DEF WindowInv
<1>2. Min({qExecute, qRetire + 1}) = qRetire + 1
  <2>1. Min({qExecute, qRetire + 1}) = IF qExecute <= qRetire + 1 THEN qExecute ELSE qRetire + 1
    BY <1>1, MinOfTwo
  <2>2. QED
    BY <1>1, <2>1 DEF WindowInv
<1>3. QED
  BY <1>1, <1>2 DEF YoungerPointers, WindowInv

(* Commit moves the tail behind a uop that ends its x86 instruction. *)
LEMMA CommitKeepsWindow ==
  ASSUME WindowInv, Commit
  PROVE  WindowInv'
<1>1. qRetire < qExecute /\ qRetire \in ends /\ YoungerPointers
  BY DEF Commit, RetireUop, RetireReady, MayRetire
<1>2. /\ qRename' \in Nat /\ qExecute' \in Nat
      /\ qRetire + 1 <= qExecute' /\ qExecute' <= qRename' /\ qRename' <= qRename
  BY <1>1, YoungerKeepsOrder
<1>3. /\ qTail' = qRetire + 1 /\ qRetire' = qRetire + 1 /\ qHead' = qHead
      /\ first' = [q \in {x \in Window : x > qRetire} |-> first[q]]
      /\ ends' = {q \in ends : q > qRetire}
      /\ prog' = prog /\ crack' = crack
  BY DEF Commit, Restrict, WindowInv
<1>4. Window' = {x \in Window : x > qRetire}
  BY <1>3 DEF Window, WindowInv
<1>5. \A q \in Window' : first'[q] = first[q] /\ first[q] \in qTail .. q /\ first[q] > qRetire
  BY <1>1, <1>3, <1>4 DEF WindowInv
<1>6. \A q \in Window' : first'[q] \in qTail' .. q
  <2> SUFFICES ASSUME NEW q \in Window'  PROVE first'[q] \in qTail' .. q
    OBVIOUS
  <2>1. first'[q] = first[q] /\ first[q] \in qTail .. q /\ first[q] > qRetire
    BY <1>5
  <2>2. qTail \in Int /\ qRetire \in Int /\ q \in Int
    BY <1>4 DEF WindowInv, Window
  <2>3. QED
    BY <2>1, <2>2, <1>3
<1>7. \A e \in ends' : \A q \in Window' : q > e => first'[q] > e
  BY <1>3, <1>4, <1>5 DEF WindowInv
<1>8. DOMAIN first' = Window' /\ ends' \subseteq Window'
  BY <1>3, <1>4 DEF WindowInv
<1>9. QED
  BY <1>2, <1>3, <1>6, <1>7, <1>8, WindowAssumption DEF WindowInv

(* Fetch appends one x86 instruction, which fits into the ring. *)
LEMMA FetchKeepsWindow ==
  ASSUME WindowInv, Fetch
  PROVE  WindowInv'
<1> DEFINE n == Len(Decode(prog[fetchRip], crack))
<1>1. n \in 1 .. MaxUops /\ qHead < qRename + FrontEndMax
  BY ProgramAssumption DEF Fetch, MayFetch, WindowInv
<1>2. /\ qHead' = qHead + n
      /\ first' = Override(first, [q \in qHead .. (qHead + n - 1) |-> qHead])
      /\ ends' = ends \cup {qHead + n - 1}
      /\ UNCHANGED <<prog, qTail, qRetire, qExecute, qRename>> /\ crack' = FALSE
  BY DEF Fetch
<1> HIDE DEF n
<1>3. Window' = Window \cup (qHead .. (qHead + n - 1))
  BY <1>1, <1>2 DEF Window, WindowInv
<1>4. /\ DOMAIN first' = Window'
      /\ \A q \in Window' : first'[q] = IF q \in qHead .. (qHead + n - 1) THEN qHead ELSE first[q]
  BY <1>2, <1>3 DEF Override, WindowInv
<1>5. \A q \in Window' : first'[q] \in qTail' .. q
  BY <1>1, <1>2, <1>3, <1>4 DEF Window, WindowInv
<1>6. \A e \in ends' : \A q \in Window' : q > e => first'[q] > e
  BY SMTT(30), <1>1, <1>2, <1>3, <1>4 DEF Window, WindowInv
<1>7. ends' \subseteq Window'
  BY <1>1, <1>2, <1>3 DEF Window, WindowInv
<1>8. qHead' \in Nat /\ qRename' <= qHead' /\ qHead' <= qTail' + BufSize
  BY <1>1, <1>2, WindowAssumption DEF WindowInv
<1>9. QED
  BY <1>2, <1>4, <1>5, <1>6, <1>7, <1>8 DEF WindowInv

(* Every step of the processor keeps the window in order. *)
LEMMA StepKeepsWindow ==
  ASSUME WindowInv, [Next]_vars
  PROVE  WindowInv'
<1>1. CASE Fetch
  BY <1>1, FetchKeepsWindow
<1>2. CASE FetchFails \/ RenameIllegal \/ EmptyCycle \/ UNCHANGED vars
  BY <1>2, SamePointers DEF FetchFails, RenameIllegal, EmptyCycle, vars
<1>3. CASE Rename
  <2>1. /\ qRename < qHead /\ qRename < qTail + RobSize /\ qRename' = qRename + 1
        /\ UNCHANGED <<prog, crack, qTail, qRetire, qExecute, qHead, first, ends>>
    BY <1>3 DEF Rename, MayRename
  <2>2. /\ qRename' \in Nat /\ qExecute' <= qRename' /\ qRename' <= qHead
        /\ qRename' <= qTail + RobSize
    BY <2>1, WindowAssumption DEF WindowInv
  <2>3. QED
    BY <2>1, <2>2, InnerPointers DEF WindowInv
<1>4. CASE Queue
  BY <1>4 DEF Queue, WindowInv, Window
<1>5. CASE RetireBad \/ CommitFails
  BY <1>5, ResetKeepsWindow DEF RetireBad, CommitFails
<1>6. CASE RetireStoreMiss
  BY <1>6, SamePointers DEF RetireStoreMiss
<1>7. CASE RetireReplay
  <2>1. /\ qRetire < qExecute /\ qRename' = qRetire
        /\ qExecute' = Min({qExecute, qRetire}) /\ qRetire' = Min({qRetire, qRetire})
        /\ UNCHANGED <<prog, crack, qTail, qHead, first, ends>>
    BY <1>7 DEF RetireReplay, ReplayPointers, RetireReady, MayRetire
  <2>2. qExecute' = qRetire /\ qRetire' = qRetire
    BY <2>1, MinOfTwo DEF WindowInv
  <2>3. qRename' <= qHead /\ qRename' <= qTail + RobSize
    BY <2>1, WindowAssumption DEF WindowInv
  <2>4. QED
    BY <2>1, <2>2, <2>3, InnerPointers DEF WindowInv
<1>8. CASE RetireRefetch
  <2>1. qRetire < qExecute /\ FlushPointers(first[qRetire], {}) /\ prog' = prog /\ crack' = crack
    BY <1>8 DEF RetireRefetch, RetireReady, MayRetire, FirstUop
  <2>2. first[qRetire] \in qTail .. qRename
    BY <2>1 DEF WindowInv, Window
  <2>3. QED
    BY <2>1, <2>2, FlushKeepsWindow DEF WindowInv
<1>9. CASE RetireMiddle
  <2>1. qRetire < qExecute /\ YoungerPointers /\ qRetire' = qRetire + 1
        /\ UNCHANGED <<prog, crack, qTail, qHead, first, ends>>
    BY <1>9 DEF RetireMiddle, RetireUop, RetireReady, MayRetire
  <2>2. /\ qRename' \in Nat /\ qExecute' \in Nat
        /\ qRetire + 1 <= qExecute' /\ qExecute' <= qRename' /\ qRename' <= qRename
    BY <2>1, YoungerKeepsOrder
  <2>3. /\ qRetire' \in Nat /\ qTail <= qRetire'
        /\ qRename' <= qHead /\ qRename' <= qTail + RobSize
    BY <2>1, <2>2, WindowAssumption DEF WindowInv
  <2>4. QED
    BY <2>1, <2>2, <2>3, InnerPointers
<1>10. CASE Commit
  BY <1>10, CommitKeepsWindow
<1>11. ASSUME NEW q \in qTail .. (qExecute - 1), Select(q) \/ Execute(q)
       PROVE  WindowInv'
  <2>0. q \in Window /\ q < qRename /\ q + 1 \in qTail .. qRename /\ first[q] \in qTail .. qRename
    BY DEF WindowInv, Window
  <2>1. CASE Select(q) \/ ExecuteMemory(q)
    BY <2>1, SamePointers DEF Select, ExecuteMemory
  <2>2. CASE ExecuteUnaligned(q)
    BY <2>0, <2>2, FlushKeepsWindow DEF ExecuteUnaligned, FirstUop
  <2>3. CASE ExecuteBranch(q)
    <3>1. prog' = prog /\ crack' = crack /\ (FlushPointers(q + 1, {}) \/ UNCHANGED pointers)
      BY <2>3 DEF ExecuteBranch
    <3>2. QED
      BY <2>0, <3>1, FlushKeepsWindow, SamePointers DEF WindowInv
  <2>4. CASE ExecuteCheck(q)
    <3>1. prog' = prog /\ crack' = crack /\ (FlushPointers(q + 1, {q}) \/ UNCHANGED pointers)
      BY <2>4 DEF ExecuteCheck
    <3>2. {q} \subseteq qTail .. ((q + 1) - 1) /\ \A x \in qTail .. ((q + 1) - 1) : x <= q
      BY <2>0 DEF WindowInv, Window
    <3>3. QED
      BY <2>0, <3>1, <3>2, FlushKeepsWindow, SamePointers DEF WindowInv
  <2>5. QED
    BY <1>11, <2>1, <2>2, <2>3, <2>4 DEF Execute
<1>12. ASSUME NEW l \in Lines, Fill(l) \/ Invalidate(l)  PROVE WindowInv'
  BY <1>12, SamePointers DEF Fill, Invalidate
<1>13. ASSUME NEW b \in DOMAIN WordOf, RemoteStore(b)  PROVE WindowInv'
  BY <1>13, SamePointers DEF RemoteStore
<1>14. QED
  BY <1>1, <1>2, <1>3, <1>4, <1>5, <1>6, <1>7, <1>8, <1>9, <1>10, <1>11, <1>12, <1>13
     DEF Next, Retire

(* The empty window of Init. *)
LEMMA WindowAtInit ==
  ASSUME Init
  PROVE  WindowInv
<1>1. /\ prog \in Programs /\ crack = FALSE /\ first = [q \in {} |-> 0] /\ ends = {}
      /\ qTail = 0 /\ qRetire = 0 /\ qExecute = 0 /\ qRename = 0 /\ qHead = 0
  BY DEF Init
<1>2. Window = {} /\ DOMAIN first = {}
  BY <1>1 DEF Window
<1>3. RobSize \in Nat /\ BufSize \in Nat
  BY WindowAssumption
<1>4. qRename <= qTail + RobSize /\ qHead <= qTail + BufSize
  BY <1>1, <1>3
<1>5. crack \in BOOLEAN
  BY <1>1
<1>6. QED
  BY <1>1, <1>2, <1>4, <1>5 DEF WindowInv

(* The window is always in order: the pointers of src/pyrite/Processor.cpp *)
(* keep their order, the ring of m_buf_size instructions is not overrun,   *)
(* and the tail starts an x86 instruction (the assertion in retire).       *)
THEOREM WindowIsInOrder == Spec => []WindowOrder
<1>1. Init => WindowInv
  BY WindowAtInit
<1>2. WindowInv /\ [Next]_vars => WindowInv'
  BY StepKeepsWindow
<1>3. WindowInv => WindowOrder
  BY WindowAssumption DEF WindowInv, WindowOrder, Window, FirstUop
<1>4. QED
  BY <1>1, <1>2, <1>3, PTL DEF Spec
-----------------------------------------------------------------------------
(* The instructions of the window and the lists they wait on.              *)

(* The fields of the core and of an instruction. *)
CoreFields == {"inst", "lsq", "lines", "perm", "bad", "full", "mem", "old"}

InstFields == {"uop", "pc", "pred", "stage", "src", "ext", "val", "reg", "unaligned",
               "ordering", "consistency", "check", "stale", "storeWaiters"}

(* An entry of a wait list. *)
Waiter == [q : Int, retry : BOOLEAN]

(* The wait lists: one for each line, one for each instruction.            *)
Places(c) == ({"line"} \X Lines) \cup ({"store"} \X DOMAIN c.inst)

WaitList(c, x) == IF x[1] = "line" THEN c.lines[x[2]].wait ELSE c.inst[x[2]].storeWaiters

(* An instruction is on some list. *)
On(c, q) == \E x \in Places(c) : \E i \in DOMAIN WaitList(c, x) : WaitList(c, x)[i].q = q

(* The types of the core, as far as its lists and queues go. *)
Shape(c) ==
  /\ DOMAIN c = CoreFields
  /\ DOMAIN c.inst \subseteq Nat /\ c.lsq \subseteq DOMAIN c.inst /\ c.bad \in Nat
  /\ DOMAIN c.lines = Lines
  /\ \A l \in Lines : /\ DOMAIN c.lines[l] = {"type", "wait"}
                      /\ c.lines[l].type = "none" => c.lines[l].wait = <<>>
  /\ \A x \in Places(c) : WaitList(c, x) \in Seq(Waiter)

(* Before an instruction has its address it is in no queue. *)
Early == {"FETCH", "DECODE", "WAIT_RA", "WAIT_RB"}

(* What holds of each instruction: what it was decoded to, that it reads   *)
(* an older one, and when it is in the load/store queue.                   *)
InstOK(c, q) ==
  /\ DOMAIN c.inst[q] = InstFields
  /\ WellFormed(c.inst[q].uop, prog)
  /\ c.inst[q].pc \in DOMAIN prog
  /\ c.inst[q].stage \in Stages
  /\ c.inst[q].src \in Int /\ c.inst[q].src < q
  /\ c.inst[q].ext \subseteq DOMAIN WordOf
  /\ c.inst[q].stage \in Early => q \notin c.lsq
  /\ c.inst[q].stage = "WAIT_RB" => c.bad <= q
  /\ c.inst[q].stage = "MEMORY" => c.inst[q].ext # {}

(* On a line: an instruction that has issued, or a retry of a store or     *)
(* whose requester was squashed.  On an older store: a load that overlaps  *)
(* it, while it has not issued.                                            *)
EntryOK(c, x, w) ==
  /\ w.q = NoQ => x[1] = "line" /\ w.retry
  /\ w.q # NoQ =>
       /\ w.q \in DOMAIN c.inst /\ IsMemory(c.inst[w.q].uop)
       /\ c.inst[w.q].stage \in {"EXECUTE", "MEMORY"}
       /\ x[1] = "line" => c.inst[w.q].stage = "MEMORY"
       /\ x[1] = "store" => /\ x[2] < w.q /\ x[2] \in c.lsq
                            /\ ~MemoryIssued(c.inst[x[2]])
                            /\ Overlaps(Operand(c.inst[x[2]]), Operand(c.inst[w.q]))
                            /\ c.inst[x[2]].uop.op = "st" /\ c.inst[w.q].uop.op = "ld"
                            /\ ~w.retry
       /\ w.retry => c.inst[w.q].uop.op = "st"

(* No instruction is on two lists, or twice on one. *)
Alone(c) ==
  \A x, y \in Places(c) : \A i \in DOMAIN WaitList(c, x), j \in DOMAIN WaitList(c, y) :
     WaitList(c, x)[i].q = WaitList(c, y)[j].q /\ WaitList(c, x)[i].q # NoQ => x = y /\ i = j

(* A load that has issued waits on a list, but for those of G: they were   *)
(* taken off one and are about to be woken.                                *)
Waited(c, G) ==
  /\ \A q \in DOMAIN c.inst : /\ c.inst[q].uop.op = "ld" /\ c.inst[q].stage = "MEMORY"
                              /\ q \notin G
                              => On(c, q)
  /\ \A q \in G : /\ q \in DOMAIN c.inst /\ IsMemory(c.inst[q].uop)
                  /\ c.inst[q].stage \in {"EXECUTE", "MEMORY"} /\ ~On(c, q)

(* The invariant of the core, but for the instructions of G.              *)
CoreInv(c, G) ==
  /\ Shape(c)
  /\ \A q \in DOMAIN c.inst : InstOK(c, q)
  /\ \A x \in Places(c) : \A i \in DOMAIN WaitList(c, x) : EntryOK(c, x, WaitList(c, x)[i])
  /\ Alone(c)
  /\ Waited(c, G)

(* Where the pointers are in the window: what has retired is complete,     *)
(* what execute has not reached is not scheduled, the oldest bad           *)
(* instruction is still to retire.                                         *)
PositionsOK(c, tail, retire, execute, rename, head) ==
  /\ DOMAIN c.inst = tail .. (head - 1)
  /\ \A q \in DOMAIN c.inst :
       /\ q < retire => c.inst[q].stage = "COMPLETE"
       /\ q >= execute => c.inst[q].stage \in {"FETCH", "DECODE", "COMPLETE"}
       /\ q >= rename => c.inst[q].stage = "FETCH"
  /\ head < NoBad
  /\ c.bad # NoBad => retire <= c.bad /\ c.bad <= head

Positions == PositionsOK(core, qTail, qRetire, qExecute, qRename, qHead)

(* The x86 instruction at the tail is the next one of Simics; a fetch that *)
(* failed was one of the program.                                          *)
FetchOK ==
  /\ sim.pc \in 1 .. (Len(prog) + 1) /\ fetchRip \in 1 .. (Len(prog) + 1)
  /\ IF qTail = qHead THEN fetchRip = sim.pc ELSE core.inst[qTail].pc = sim.pc
  /\ core.bad = qHead => fetchRip \in DOMAIN prog

(* The invariant of the core, and where the pointers and fetch are in it. *)
CoreOK == CoreInv(core, {}) /\ Positions /\ FetchOK

(* The inductive invariant of the processor. *)
IInv == WindowInv /\ CoreOK

-----------------------------------------------------------------------------
(* Changes of the core that keep its invariant: lists that lose entries.   *)

(* The entries of a list that are left when some have gone, or are all     *)
(* there: a retry may have lost its requester.                             *)
Part(new, old) ==
  \E h \in [DOMAIN new -> DOMAIN old] :
    /\ \A i, j \in DOMAIN new : h[i] = h[j] => i = j
    /\ \A i \in DOMAIN new : new[i] = old[h[i]] \/ (old[h[i]].retry /\ new[i] = Retry(NoQ))

(* What others wait for on p's list is as it was.                          *)
Owner(c, d, p) ==
  \/ d.inst[p].storeWaiters = <<>>
  \/ /\ p \in c.lsq => p \in d.lsq
     /\ d.inst[p].ext = c.inst[p].ext
     /\ MemoryIssued(d.inst[p]) => MemoryIssued(c.inst[p])

(* q waits nowhere, or as it did.                                          *)
Guest(c, d, q) ==
  \/ ~On(d, q)
  \/ /\ q \in DOMAIN d.inst
     /\ d.inst[q].ext = c.inst[q].ext /\ d.inst[q].stage = c.inst[q].stage

(* An instruction is on the wait list of a line or of a store.             *)
LEMMA OnIsDetached ==
  ASSUME NEW c, NEW q, Shape(c)
  PROVE  On(c, q) <=> OnLine(c, q) \/ OnStore(c, q)
<1>1. ASSUME On(c, q) PROVE OnLine(c, q) \/ OnStore(c, q)
  <2>1. PICK x \in Places(c) : \E i \in DOMAIN WaitList(c, x) : WaitList(c, x)[i].q = q
    BY <1>1 DEF On
  <2>2. CASE x \in {"line"} \X Lines
    BY <2>1, <2>2 DEF WaitList, OnLine, Shape
  <2>3. CASE x \in {"store"} \X DOMAIN c.inst
    BY <2>1, <2>3 DEF WaitList, OnStore
  <2> QED
    BY <2>1, <2>2, <2>3 DEF Places
<1>2. ASSUME OnLine(c, q) PROVE On(c, q)
  <2>1. PICK l \in Lines : \E i \in DOMAIN c.lines[l].wait : c.lines[l].wait[i].q = q
    BY <1>2 DEF OnLine, Shape
  <2>2. <<"line", l>> \in Places(c) /\ WaitList(c, <<"line", l>>) = c.lines[l].wait
    BY DEF Places, WaitList
  <2> QED
    BY <2>1, <2>2 DEF On
<1>3. ASSUME OnStore(c, q) PROVE On(c, q)
  <2>1. PICK p \in DOMAIN c.inst : \E i \in DOMAIN c.inst[p].storeWaiters : c.inst[p].storeWaiters[i].q = q
    BY <1>3 DEF OnStore
  <2>2. <<"store", p>> \in Places(c) /\ WaitList(c, <<"store", p>>) = c.inst[p].storeWaiters
    BY DEF Places, WaitList
  <2> QED
    BY <2>1, <2>2 DEF On
<1> QED
  BY <1>1, <1>2, <1>3

(* An entry on a list is a waiter. *)
LEMMA EntryTypes ==
  ASSUME NEW c, Shape(c), NEW x \in Places(c), NEW i \in DOMAIN WaitList(c, x)
  PROVE  /\ WaitList(c, x)[i] \in Waiter
         /\ WaitList(c, x)[i].q \in Int
<1>1. WaitList(c, x) \in Seq(Waiter)
  BY DEF Shape
<1> DEFINE s == WaitList(c, x)
<1> HIDE DEF s
<1>2. s[i] \in Waiter
  BY <1>1 DEF s
<1> QED
  BY <1>2 DEF Waiter, s

(* A list is a part of itself. *)
LEMMA PartOfItself ==
  ASSUME NEW s
  PROVE  Part(s, s)
<1> DEFINE h == [i \in DOMAIN s |-> i]
<1>1. h \in [DOMAIN s -> DOMAIN s] /\ \A i \in DOMAIN s : h[i] = i
  OBVIOUS
<1> HIDE DEF h
<1> QED
  BY <1>1 DEF Part

(* The empty list is a part of every list. *)
LEMMA PartIsEmpty ==
  ASSUME NEW s
  PROVE  Part(<<>>, s)
<1> DEFINE h == [i \in {} |-> i]
<1>0. DOMAIN <<>> = {}
  <2>1. DOMAIN <<>> = 1 .. 0
    OBVIOUS
  <2> QED
    BY <2>1
<1>1. h \in [DOMAIN <<>> -> DOMAIN s]
  BY <1>0
<1> HIDE DEF h
<1> QED
  BY <1>0, <1>1 DEF Part

(* A step that puts nobody on a list, and takes some off.                  *)
LEMMA Changed ==
  ASSUME NEW c, NEW G, CoreInv(c, G), NEW d, NEW H,
         Shape(d), \A q \in DOMAIN d.inst : InstOK(d, q), Waited(d, H),
         \A q \in DOMAIN d.inst : q \in DOMAIN c.inst /\ d.inst[q].uop = c.inst[q].uop,
         \A x \in Places(d) : Part(WaitList(d, x), WaitList(c, x)),
         \A q \in DOMAIN d.inst : Owner(c, d, q),
         \A q \in DOMAIN c.inst : Guest(c, d, q)
  PROVE  CoreInv(d, H)
<1>1. \A x \in Places(d) : x \in Places(c)
  BY DEF Places
<1>2. ASSUME NEW x \in Places(d), NEW i \in DOMAIN WaitList(d, x)
      PROVE  EntryOK(d, x, WaitList(d, x)[i])
  <2> DEFINE w == WaitList(d, x)[i]
  <2>1. PICK j \in DOMAIN WaitList(c, x) :
          w = WaitList(c, x)[j] \/ (WaitList(c, x)[j].retry /\ w = Retry(NoQ))
    BY DEF Part
  <2> DEFINE v == WaitList(c, x)[j]
  <2>2. EntryOK(c, x, v)
    BY <1>1 DEF CoreInv
  <2>3. w \in Waiter /\ v \in Waiter /\ x \in Places(c)
    BY <1>1, EntryTypes DEF CoreInv
  <2>4. x[1] = "store" => x[2] \in DOMAIN d.inst /\ Owner(c, d, x[2]) /\ d.inst[x[2]].storeWaiters # <<>>
    BY <1>2 DEF Places, WaitList
  <2>5. w.q # NoQ => On(d, w.q)
    BY <1>2 DEF On
  <2> HIDE DEF w, v
  <2>6. CASE w = Retry(NoQ) /\ v.retry
    <3>1. w.q = NoQ /\ w.retry
      BY <2>6 DEF Retry
    <3>2. x[1] = "line"
      BY <2>2, <2>3, <2>6 DEF EntryOK, Places
    <3> QED
      BY <3>1, <3>2 DEF EntryOK, w
  <2>7. CASE w = v
    <3>1. CASE w.q = NoQ
      BY <2>2, <2>7, <3>1 DEF EntryOK, w
    <3>2. CASE w.q # NoQ
      <4>1. /\ w.q \in DOMAIN c.inst /\ w.q \in DOMAIN d.inst
            /\ d.inst[w.q].ext = c.inst[w.q].ext /\ d.inst[w.q].stage = c.inst[w.q].stage
            /\ d.inst[w.q].uop = c.inst[w.q].uop
        BY <2>2, <2>5, <2>7, <3>2 DEF EntryOK, Guest
      <4>2. x[1] = "store" => /\ x[2] \in c.lsq => x[2] \in d.lsq
                              /\ d.inst[x[2]].ext = c.inst[x[2]].ext
                              /\ d.inst[x[2]].uop = c.inst[x[2]].uop
                              /\ MemoryIssued(d.inst[x[2]]) => MemoryIssued(c.inst[x[2]])
        BY <2>4 DEF Owner
      <4> QED
        BY <2>2, <2>7, <3>2, <4>1, <4>2 DEF EntryOK, Overlaps, Operand, w
    <3> QED
      BY <3>1, <3>2
  <2> QED
    BY <2>1, <2>6, <2>7 DEF w, v
<1>3. Alone(d)
  <2> SUFFICES ASSUME NEW x \in Places(d), NEW y \in Places(d),
                      NEW i \in DOMAIN WaitList(d, x), NEW j \in DOMAIN WaitList(d, y),
                      WaitList(d, x)[i].q = WaitList(d, y)[j].q, WaitList(d, x)[i].q # NoQ
               PROVE  x = y /\ i = j
    BY DEF Alone
  <2>1. PICK h \in [DOMAIN WaitList(d, x) -> DOMAIN WaitList(c, x)] :
          /\ \A a, b \in DOMAIN WaitList(d, x) : h[a] = h[b] => a = b
          /\ \A a \in DOMAIN WaitList(d, x) :
               WaitList(d, x)[a] = WaitList(c, x)[h[a]] \/ WaitList(d, x)[a] = Retry(NoQ)
    BY DEF Part
  <2>2. PICK k \in DOMAIN WaitList(c, y) :
          WaitList(d, y)[j] = WaitList(c, y)[k] \/ WaitList(d, y)[j] = Retry(NoQ)
    BY DEF Part
  <2>3. WaitList(d, x)[i] = WaitList(c, x)[h[i]] /\ WaitList(d, y)[j] = WaitList(c, y)[k]
    BY <2>1, <2>2 DEF Retry
  <2>4. x = y /\ k = h[i]
    BY <1>1, <2>1, <2>3 DEF CoreInv, Alone
  <2>5. WaitList(d, y)[j] = WaitList(c, x)[h[j]]
    BY <2>1, <2>4 DEF Retry
  <2>6. h[i] = h[j]
    BY <1>1, <2>1, <2>3, <2>4, <2>5 DEF CoreInv, Alone
  <2> QED
    BY <2>1, <2>4, <2>6
<1> QED
  BY <1>2, <1>3 DEF CoreInv

-----------------------------------------------------------------------------
(* A list that gains an entry, and instructions that move on.              *)

(* From c to d the wait list x gets one more entry, w.                     *)
Join(c, d, x, w) ==
  /\ DOMAIN d = CoreFields /\ DOMAIN d.inst = DOMAIN c.inst /\ d.lsq = c.lsq /\ d.bad = c.bad
  /\ DOMAIN d.lines = Lines
  /\ \A l \in Lines : /\ DOMAIN d.lines[l] = {"type", "wait"}
                      /\ d.lines[l].type = "none" => d.lines[l].wait = <<>>
  /\ \A q \in DOMAIN d.inst : /\ DOMAIN d.inst[q] = InstFields
                              /\ d.inst[q].uop = c.inst[q].uop /\ d.inst[q].pc = c.inst[q].pc
                              /\ d.inst[q].src = c.inst[q].src /\ d.inst[q].ext = c.inst[q].ext
                              /\ d.inst[q].stage = c.inst[q].stage
  /\ x \in Places(c) /\ w \in Waiter
  /\ WaitList(d, x) = Append(WaitList(c, x), w)
  /\ \A y \in Places(c) : y # x => WaitList(d, y) = WaitList(c, y)
  /\ EntryOK(c, x, w)

(* The instruction was on no list, or it is a retry without a requester.   *)
LEMMA Joined ==
  ASSUME NEW c, NEW G, CoreInv(c, G), NEW d, NEW x, NEW w, Join(c, d, x, w), w.q = NoQ \/ w.q \in G
  PROVE  CoreInv(d, G \ {w.q}) /\ (w.q # NoQ => On(d, w.q)) /\ \A q : q # w.q => (On(d, q) <=> On(c, q))
<1> USE DEF Join
<1> DEFINE n == Len(WaitList(c, x))
<1>0. Places(d) = Places(c)
  BY DEF Places
<1>1. /\ \A y \in Places(c) : WaitList(c, y) \in Seq(Waiter) /\ WaitList(d, y) \in Seq(Waiter)
      /\ n \in Nat /\ DOMAIN WaitList(c, x) = 1 .. n
      /\ DOMAIN WaitList(d, x) = 1 .. (n + 1) /\ WaitList(d, x)[n + 1] = w
      /\ \A i \in 1 .. n : WaitList(d, x)[i] = WaitList(c, x)[i]
  <2>1. WaitList(c, x) \in Seq(Waiter) /\ \A y \in Places(c) : WaitList(c, y) \in Seq(Waiter)
    BY DEF CoreInv, Shape
  <2>2. WaitList(d, x) \in Seq(Waiter)
    BY <2>1
  <2>3. \A y \in Places(c) : WaitList(d, y) \in Seq(Waiter)
    BY <2>1, <2>2
  <2> QED
    BY <2>1, <2>3
<1> HIDE DEF n
<1>a. Shape(d)
  BY <1>0, <1>1 DEF Shape, CoreInv
<1>b. \A q \in DOMAIN d.inst : InstOK(d, q)
  BY DEF InstOK, CoreInv
<1>c. EntryOK(d, x, w)
  <2>1. x[1] = "store" => x[2] \in DOMAIN c.inst
    BY DEF Places
  <2> QED
    BY <2>1 DEF EntryOK, Overlaps, Operand, MemoryIssued
<1>2. \A y \in Places(c) : \A i \in DOMAIN WaitList(c, y) :
        i \in DOMAIN WaitList(d, y) /\ WaitList(d, y)[i] = WaitList(c, y)[i]
  BY <1>1
<1>3. \A y \in Places(c) : \A i \in DOMAIN WaitList(d, y) :
        \/ i \in DOMAIN WaitList(c, y) /\ WaitList(d, y)[i] = WaitList(c, y)[i]
        \/ y = x /\ i = n + 1 /\ WaitList(d, y)[i] = w
  BY <1>1
<1>4. ASSUME NEW y \in Places(c), NEW i \in DOMAIN WaitList(d, y)
      PROVE  EntryOK(d, y, WaitList(d, y)[i])
  <2>1. CASE i \in DOMAIN WaitList(c, y) /\ WaitList(d, y)[i] = WaitList(c, y)[i]
    <3> DEFINE v == WaitList(c, y)[i]
    <3>1. EntryOK(c, y, v)
      BY <2>1 DEF CoreInv
    <3>2. y[1] = "store" => y[2] \in DOMAIN c.inst
      BY DEF Places
    <3> HIDE DEF v
    <3>3. EntryOK(d, y, v)
      BY <3>1, <3>2 DEF EntryOK, Overlaps, Operand, MemoryIssued
    <3> QED
      BY <2>1, <3>3 DEF v
  <2> QED
    BY <1>3, <1>c, <2>1
<1>5. \A q : q # w.q => (On(d, q) <=> On(c, q))
  <2> SUFFICES ASSUME NEW q, q # w.q PROVE On(d, q) <=> On(c, q)
    OBVIOUS
  <2>1. ASSUME On(d, q) PROVE On(c, q)
    <3>1. PICK y \in Places(c) : \E i \in DOMAIN WaitList(d, y) : WaitList(d, y)[i].q = q
      BY <1>0, <2>1 DEF On
    <3> QED
      BY <1>3, <3>1 DEF On
  <2>2. ASSUME On(c, q) PROVE On(d, q)
    BY <1>0, <1>2, <2>2 DEF On
  <2> QED
    BY <2>1, <2>2
<1>6. w.q # NoQ => ~On(c, w.q) /\ On(d, w.q)
  <2>1. w.q # NoQ => ~On(c, w.q)
    BY DEF CoreInv, Waited
  <2>2. On(d, w.q)
    BY <1>0, <1>1 DEF On, CoreInv
  <2> QED
    BY <2>1, <2>2
<1>7. Alone(d)
  <2> SUFFICES ASSUME NEW y \in Places(c), NEW z \in Places(c),
                      NEW i \in DOMAIN WaitList(d, y), NEW j \in DOMAIN WaitList(d, z),
                      WaitList(d, y)[i].q = WaitList(d, z)[j].q, WaitList(d, y)[i].q # NoQ
               PROVE  y = z /\ i = j
    BY <1>0 DEF Alone
  <2>1. CASE i \in DOMAIN WaitList(c, y) /\ j \in DOMAIN WaitList(c, z)
    <3>1. WaitList(d, y)[i] = WaitList(c, y)[i] /\ WaitList(d, z)[j] = WaitList(c, z)[j]
      BY <1>2, <2>1
    <3> QED
      BY <2>1, <3>1 DEF CoreInv, Alone
  <2>2. CASE i \in DOMAIN WaitList(c, y) /\ j \notin DOMAIN WaitList(c, z)
    <3>1. WaitList(d, z)[j] = w /\ WaitList(c, y)[i].q = w.q /\ w.q # NoQ
      BY <1>2, <1>3, <2>2
    <3> QED
      BY <1>6, <2>2, <3>1 DEF On
  <2>3. CASE i \notin DOMAIN WaitList(c, y) /\ j \in DOMAIN WaitList(c, z)
    <3>1. WaitList(d, y)[i] = w /\ WaitList(c, z)[j].q = w.q /\ w.q # NoQ
      BY <1>2, <1>3, <2>3
    <3> QED
      BY <1>6, <2>3, <3>1 DEF On
  <2>4. CASE i \notin DOMAIN WaitList(c, y) /\ j \notin DOMAIN WaitList(c, z)
    BY <1>3, <2>4
  <2> QED
    BY <2>1, <2>2, <2>3, <2>4
<1>8. Waited(d, G \ {w.q})
  <2>1. ASSUME NEW q \in DOMAIN d.inst, d.inst[q].uop.op = "ld", d.inst[q].stage = "MEMORY",
               q \notin G \ {w.q}
        PROVE  On(d, q)
    <3>1. CASE q = w.q
      <4>1. NoQ \notin DOMAIN d.inst
        BY <1>a DEF Shape, NoQ
      <4> QED
        BY <1>6, <3>1, <4>1, <2>1
    <3>2. CASE q # w.q
      BY <1>5, <2>1, <3>2 DEF CoreInv, Waited
    <3> QED
      BY <3>1, <3>2
  <2>2. ASSUME NEW q \in G \ {w.q}
        PROVE  /\ q \in DOMAIN d.inst /\ IsMemory(d.inst[q].uop)
               /\ d.inst[q].stage \in {"EXECUTE", "MEMORY"} /\ ~On(d, q)
    BY <1>5, <2>2 DEF CoreInv, Waited
  <2> QED
    BY <2>1, <2>2 DEF Waited
<1> QED
  BY <1>0, <1>a, <1>b, <1>4, <1>5, <1>6, <1>7, <1>8 DEF CoreInv

(* What a call may do to the rest of the core: what has completed or is    *)
(* not yet scheduled stays as it is, and an instruction that becomes the   *)
(* oldest bad one had not completed.                                       *)
Tame(c, d) ==
  /\ DOMAIN d.inst = DOMAIN c.inst
  /\ \A q \in DOMAIN c.inst :
       /\ d.inst[q].uop = c.inst[q].uop /\ d.inst[q].pc = c.inst[q].pc
       /\ c.inst[q].stage \in {"FETCH", "DECODE", "COMPLETE"} => d.inst[q].stage = c.inst[q].stage
  /\ \/ d.bad = c.bad
     \/ d.bad \in DOMAIN c.inst /\ c.inst[d.bad].stage # "COMPLETE"

(* No instruction but those of Q issues or completes.                      *)
Steady(c, d, Q) ==
  \A p \in DOMAIN c.inst \ Q :
    c.inst[p].stage \in {"EXECUTE", "MEMORY"} => d.inst[p].stage = c.inst[p].stage

(* Two steps that complete or issue are one. *)
LEMMA TameTwice ==
  ASSUME NEW c, NEW d, NEW e, Tame(c, d), Tame(d, e)
  PROVE  Tame(c, e)
  BY DEF Tame

(* ... and so for what stays as it is. *)
LEMMA SteadyTwice ==
  ASSUME NEW c, NEW d, NEW e, NEW Q, Tame(c, d), Steady(c, d, Q), Steady(d, e, Q)
  PROVE  Steady(c, e, Q)
  BY DEF Tame, Steady

(* std::min of some pointers. *)
LEMMA MinOfNats ==
  ASSUME NEW S, S \subseteq Nat, S # {}
  PROVE  Min(S) \in S /\ \A y \in S : Min(S) <= y
<1>1. PICK x \in S : \A y \in S : <<y, x>> \notin OpToRel(<, Nat)
  BY WFMin, NatLessThanWellFounded
<1>2. ASSUME NEW y \in S PROVE x <= y
  <2>1. ~(y < x)
    BY <1>1 DEF OpToRel
  <2> QED
    BY <2>1
<1> QED
  BY <1>2 DEF Min

(* A tail call before anybody's register is touched: limbo is opened for   *)
(* an instruction that executes.                                           *)
LEMMA IntoLimbo ==
  ASSUME NEW c, NEW G, CoreInv(c, G), NEW q \in DOMAIN c.inst, IsMemory(c.inst[q].uop),
         c.inst[q].stage \in {"EXECUTE", "MEMORY"}, ~On(c, q)
  PROVE  CoreInv(c, G \cup {q})
  BY DEF CoreInv, Waited

(* From c to d the instructions of Q move on; all others, and the wait     *)
(* lists, stay.  Those of H are still to be woken, of those of G.          *)
Advance(c, d, Q, G, H) ==
  /\ DOMAIN d = CoreFields /\ DOMAIN d.inst = DOMAIN c.inst /\ d.lines = c.lines
  /\ d.lsq \subseteq DOMAIN c.inst /\ d.bad \in Nat /\ d.bad <= c.bad
  /\ \A p \in DOMAIN c.inst : p \notin Q =>
       d.inst[p] = c.inst[p] /\ (p \in d.lsq <=> p \in c.lsq)
  /\ \A q \in Q :
       /\ q \in DOMAIN c.inst /\ InstOK(d, q)
       /\ d.inst[q].uop = c.inst[q].uop
       /\ d.inst[q].storeWaiters = c.inst[q].storeWaiters
       /\ Owner(c, d, q)
       /\ On(c, q) => d.inst[q].ext = c.inst[q].ext /\ d.inst[q].stage = c.inst[q].stage
       /\ d.inst[q].uop.op = "ld" /\ d.inst[q].stage = "MEMORY" => On(c, q) \/ q \in H
       /\ q \in H => d.inst[q].stage \in {"EXECUTE", "MEMORY"}
  /\ H \subseteq G /\ G \ H \subseteq Q

(* Moving on keeps the invariant of the core. *)
LEMMA Advanced ==
  ASSUME NEW c, NEW G, CoreInv(c, G), NEW d, NEW Q, NEW H, Advance(c, d, Q, G, H)
  PROVE  CoreInv(d, H) /\ \A q : On(d, q) <=> On(c, q)
<1> USE DEF Advance
<1>1. Shape(c) /\ \A q \in DOMAIN c.inst : InstOK(c, q)
  BY DEF CoreInv
<1>2. Places(d) = Places(c) /\ \A x \in Places(c) : WaitList(d, x) = WaitList(c, x)
  <2>1. Places(d) = Places(c)
    BY DEF Places
  <2>2. ASSUME NEW x \in Places(c) PROVE WaitList(d, x) = WaitList(c, x)
    <3>1. x[1] # "line" => x[2] \in DOMAIN c.inst
      BY DEF Places
    <3> QED
      BY <3>1 DEF WaitList
  <2> QED
    BY <2>1, <2>2
<1>3. Shape(d)
  BY <1>1, <1>2 DEF Shape
<1>4. \A q : On(d, q) <=> On(c, q)
  BY <1>2 DEF On
<1>5. ASSUME NEW q \in DOMAIN d.inst PROVE InstOK(d, q)
  <2>1. CASE q \in Q
    BY <2>1
  <2>2. CASE q \notin Q
    <3>1. c.bad \in Nat /\ q \in Nat
      BY <1>1 DEF Shape
    <3>2. d.inst[q] = c.inst[q] /\ (q \in d.lsq <=> q \in c.lsq) /\ InstOK(c, q)
      BY <1>1, <2>2
    <3> QED
      BY <3>1, <3>2 DEF InstOK
  <2> QED
    BY <2>1, <2>2
<1>6. ASSUME NEW q \in DOMAIN d.inst PROVE Owner(c, d, q)
  BY DEF Owner
<1>7. ASSUME NEW q \in DOMAIN c.inst PROVE Guest(c, d, q)
  BY <1>4 DEF Guest
<1>8. \A x \in Places(d) : Part(WaitList(d, x), WaitList(c, x))
  BY <1>2, PartOfItself
<1>9. Waited(d, H)
  <2>1. ASSUME NEW q \in DOMAIN d.inst, d.inst[q].uop.op = "ld", d.inst[q].stage = "MEMORY", q \notin H
        PROVE  On(d, q)
    <3>1. CASE q \in Q
      BY <1>4, <2>1, <3>1
    <3>2. CASE q \notin Q
      <4>1. d.inst[q] = c.inst[q] /\ q \notin G
        BY <2>1, <3>2
      <4> QED
        BY <1>4, <2>1, <4>1 DEF CoreInv, Waited
    <3> QED
      BY <3>1, <3>2
  <2>2. ASSUME NEW q \in H
        PROVE  /\ q \in DOMAIN d.inst /\ IsMemory(d.inst[q].uop)
               /\ d.inst[q].stage \in {"EXECUTE", "MEMORY"} /\ ~On(d, q)
    <3>1. q \in DOMAIN c.inst /\ IsMemory(c.inst[q].uop)
          /\ c.inst[q].stage \in {"EXECUTE", "MEMORY"} /\ ~On(c, q)
      BY <2>2 DEF CoreInv, Waited
    <3> QED
      BY <1>4, <2>2, <3>1
  <2> QED
    BY <2>1, <2>2 DEF Waited
<1>10. \A q \in DOMAIN d.inst : q \in DOMAIN c.inst /\ d.inst[q].uop = c.inst[q].uop
  OBVIOUS
<1>11. CoreInv(d, H)
  BY <1>3, <1>5, <1>6, <1>7, <1>8, <1>9, <1>10, Changed
<1> QED
  BY <1>4, <1>11

-----------------------------------------------------------------------------
(* Scheduling.                                                             *)

(* An instruction that is not in the queue, or has issued, has no waiters. *)
LEMMA NoWaiters ==
  ASSUME NEW c, NEW G, CoreInv(c, G), NEW p \in DOMAIN c.inst,
         p \notin c.lsq \/ MemoryIssued(c.inst[p]) \/ c.inst[p].ext = {} \/ c.inst[p].uop.op # "st"
  PROVE  c.inst[p].storeWaiters = <<>>
<1>1. <<"store", p>> \in Places(c) /\ WaitList(c, <<"store", p>>) = c.inst[p].storeWaiters
  BY DEF Places, WaitList
<1>2. c.inst[p].storeWaiters \in Seq(Waiter)
  BY <1>1 DEF CoreInv, Shape
<1>3. ASSUME NEW i \in DOMAIN c.inst[p].storeWaiters PROVE FALSE
  <2>1. EntryOK(c, <<"store", p>>, c.inst[p].storeWaiters[i])
    BY <1>1 DEF CoreInv
  <2> QED
    BY <2>1 DEF EntryOK, Overlaps, Operand
<1>4. Len(c.inst[p].storeWaiters) = 0
  <2> DEFINE s == c.inst[p].storeWaiters
  <2>1. s \in Seq(Waiter) /\ 1 \notin DOMAIN s
    BY <1>2, <1>3
  <2> HIDE DEF s
  <2>2. Len(s) = 0
    BY <2>1
  <2> QED
    BY <2>2 DEF s
<1> QED
  BY <1>2, <1>4

(* Who waits on a list has been selected, and not completed. *)
LEMMA WaitersHaveIssued ==
  ASSUME NEW c, NEW G, CoreInv(c, G), NEW q, On(c, q), q # NoQ
  PROVE  q \in DOMAIN c.inst /\ c.inst[q].stage \in {"EXECUTE", "MEMORY"} /\ IsMemory(c.inst[q].uop)
<1>1. PICK x \in Places(c) : \E i \in DOMAIN WaitList(c, x) : WaitList(c, x)[i].q = q
  BY DEF On
<1>2. PICK i \in DOMAIN WaitList(c, x) : WaitList(c, x)[i].q = q
  BY <1>1
<1>3. EntryOK(c, x, WaitList(c, x)[i])
  BY DEF CoreInv
<1> QED
  BY <1>2, <1>3 DEF EntryOK

(* A condition is true or false. *)
LEMMA CondIsBoolean ==
  ASSUME NEW r
  PROVE  Cond(r) \in BOOLEAN
  BY DEF Cond

(* DynamicInst::addressGenerate *)
LEMMA AddressIsGenerated ==
  ASSUME NEW c, Shape(c), NEW q \in DOMAIN c.inst, InstOK(c, q), IsMemory(c.inst[q].uop),
         ~Untranslated(c, q), NEW d, d = AddressGenerate(c, q)
  PROVE  /\ DOMAIN d = CoreFields /\ DOMAIN d.inst = DOMAIN c.inst
         /\ d.lines = c.lines /\ d.bad = c.bad
         /\ \A p \in DOMAIN c.inst : p # q => d.inst[p] = c.inst[p]
         /\ d.lsq \in {c.lsq, c.lsq \cup {q}}
         /\ DOMAIN d.inst[q] = InstFields
         /\ d.inst[q].uop = c.inst[q].uop /\ d.inst[q].pc = c.inst[q].pc
         /\ d.inst[q].src = c.inst[q].src /\ d.inst[q].stage = c.inst[q].stage
         /\ d.inst[q].storeWaiters = c.inst[q].storeWaiters
         /\ d.inst[q].ext \subseteq DOMAIN WordOf
<1> DEFINE k == Cond(SourceValue(c, q))
           whole == c.inst[q].uop.at[k]
           first0 == WordOf[Lowest([ext |-> whole])]
           ext == CASE c.inst[q].uop.part = "lo" -> {b \in whole : WordOf[b] = first0}
                    [] c.inst[q].uop.part = "hi" -> {b \in whole : WordOf[b] # first0}
                    [] OTHER -> whole
           un == c.inst[q].uop.part = "all" /\ \E b \in whole : WordOf[b] # first0
<1>1. d = [c EXCEPT !.inst[q].ext = ext, !.inst[q].unaligned = un,
                    !.lsq = IF un THEN @ ELSE @ \cup {q}]
  BY DEF AddressGenerate
<1>2. whole \subseteq DOMAIN WordOf
  <2>1. k \in BOOLEAN
    BY CondIsBoolean
  <2>2. whole \cap BadBytes = {}
    BY DEF Untranslated
  <2> HIDE DEF k
  <2>3. whole \ BadBytes \subseteq DOMAIN WordOf
    BY <2>1 DEF InstOK, WellFormed
  <2> QED
    BY <2>2, <2>3
<1>3. ext \subseteq DOMAIN WordOf
  <2>1. ext \subseteq whole
    <3> HIDE DEF whole, first0
    <3> QED
      OBVIOUS
  <2> QED
    BY <1>2, <2>1
<1> HIDE DEF ext, un
<1>4. DOMAIN c = CoreFields /\ DOMAIN c.inst[q] = InstFields
  BY DEF Shape, InstOK
<1>5. /\ d.inst = [c.inst EXCEPT ![q] = [[@ EXCEPT !.ext = ext] EXCEPT !.unaligned = un]]
      /\ d.lsq = (IF un THEN c.lsq ELSE c.lsq \cup {q})
      /\ d.lines = c.lines /\ d.bad = c.bad /\ DOMAIN d = CoreFields
  BY <1>1, <1>4 DEF CoreFields
<1>6. d.inst[q] = [[c.inst[q] EXCEPT !.ext = ext] EXCEPT !.unaligned = un]
  BY <1>5
<1>7. d.inst[q].ext = ext /\ DOMAIN d.inst[q] = InstFields
      /\ d.inst[q].uop = c.inst[q].uop /\ d.inst[q].pc = c.inst[q].pc
         /\ d.inst[q].src = c.inst[q].src /\ d.inst[q].stage = c.inst[q].stage
         /\ d.inst[q].storeWaiters = c.inst[q].storeWaiters
  BY <1>4, <1>6 DEF InstFields
<1> QED
  BY <1>3, <1>5, <1>7

(* DynamicInst::schedule of an instruction that waits for a register.      *)
LEMMA Scheduled ==
  ASSUME NEW c, NEW G, CoreInv(c, G), NEW q \in DOMAIN c.inst,
         c.inst[q].stage \in {"WAIT_RA", "WAIT_RC"}, NEW d, d = Schedule(c, q)
  PROVE  /\ DOMAIN d = CoreFields /\ DOMAIN d.inst = DOMAIN c.inst /\ d.lines = c.lines
         /\ d.bad \in {c.bad, q} /\ d.bad <= c.bad
         /\ \A p \in DOMAIN c.inst : p # q => d.inst[p] = c.inst[p]
         /\ d.lsq \in {c.lsq, c.lsq \cup {q}}
         /\ InstOK(d, q) /\ d.inst[q].stage \in {"WAIT_RA", "WAIT_RB", "WAIT_RC", "READY"}
         /\ d.inst[q].uop = c.inst[q].uop /\ d.inst[q].pc = c.inst[q].pc
         /\ d.inst[q].storeWaiters = c.inst[q].storeWaiters
         /\ c.inst[q].storeWaiters # <<>> => d.inst[q].ext = c.inst[q].ext /\ q \in d.lsq
<1> DEFINE a == IF IsMemory(c.inst[q].uop) THEN AddressGenerate(c, q) ELSE c
           At(e, s) == [e EXCEPT !.inst[q].stage = s]
           Doomed(e, s, b) == [At(e, s) EXCEPT !.bad = b]
<1>0. Shape(c) /\ InstOK(c, q) /\ c.bad \in Nat /\ q \in Nat
  BY DEF CoreInv, Shape
<1>1. c.inst[q].storeWaiters # <<>> => q \in c.lsq /\ c.inst[q].stage = "WAIT_RC"
  <2>1. c.inst[q].storeWaiters # <<>> => q \in c.lsq
    BY NoWaiters
  <2> QED
    BY <1>0, <2>1 DEF InstOK, Early
(* What a change of stage does to a core that differs from c in q's address. *)
<1> DEFINE Addressed(e) ==
             /\ DOMAIN e = CoreFields /\ DOMAIN e.inst = DOMAIN c.inst
             /\ e.lines = c.lines /\ e.bad = c.bad
             /\ \A p \in DOMAIN c.inst : p # q => e.inst[p] = c.inst[p]
             /\ e.lsq \in {c.lsq, c.lsq \cup {q}}
             /\ DOMAIN e.inst[q] = InstFields
             /\ e.inst[q].uop = c.inst[q].uop /\ e.inst[q].pc = c.inst[q].pc
             /\ e.inst[q].src = c.inst[q].src /\ e.inst[q].stage = c.inst[q].stage
             /\ e.inst[q].storeWaiters = c.inst[q].storeWaiters
             /\ e.inst[q].ext \subseteq DOMAIN WordOf
<1>2. Addressed(c)
  BY <1>0 DEF Shape, InstOK
<1>3. ~Untranslated(c, q) => Addressed(a)
  <2>1. CASE IsMemory(c.inst[q].uop)
    BY <1>0, <2>1, AddressIsGenerated
  <2>2. CASE ~IsMemory(c.inst[q].uop)
    BY <1>2, <2>2
  <2> QED
    BY <2>1, <2>2
<1> DEFINE Moved(f, s, b) ==
             /\ DOMAIN f = CoreFields /\ DOMAIN f.inst = DOMAIN c.inst /\ f.lines = c.lines
             /\ f.bad = b
             /\ \A p \in DOMAIN c.inst : p # q => f.inst[p] = c.inst[p]
             /\ f.lsq \in {c.lsq, c.lsq \cup {q}}
             /\ InstOK(f, q) /\ f.inst[q].stage = s
             /\ f.inst[q].uop = c.inst[q].uop /\ f.inst[q].pc = c.inst[q].pc
             /\ f.inst[q].storeWaiters = c.inst[q].storeWaiters
             /\ c.inst[q].storeWaiters # <<>> => f.inst[q].ext = c.inst[q].ext /\ q \in f.lsq
<1>4. ASSUME NEW e, Addressed(e), NEW s \in {"WAIT_RB", "WAIT_RC", "READY"}, NEW b \in {c.bad, q},
             b <= c.bad, s = "WAIT_RB" => b <= q /\ e.lsq = c.lsq /\ c.inst[q].stage = "WAIT_RA",
             c.inst[q].stage = "WAIT_RC" => e = c,
             NEW f, f = Doomed(e, s, b)
      PROVE  Moved(f, s, b)
  <2>1. /\ DOMAIN f = CoreFields /\ f.lines = e.lines /\ f.bad = b /\ f.lsq = e.lsq
        /\ f.inst = [e.inst EXCEPT ![q] = [@ EXCEPT !.stage = s]]
    BY <1>4 DEF CoreFields
  <2>2. f.inst[q] = [e.inst[q] EXCEPT !.stage = s]
    BY <1>4, <2>1
  <2>3. /\ DOMAIN f.inst[q] = InstFields /\ f.inst[q].stage = s
        /\ f.inst[q].uop = c.inst[q].uop /\ f.inst[q].pc = c.inst[q].pc
        /\ f.inst[q].src = c.inst[q].src /\ f.inst[q].ext = e.inst[q].ext
        /\ f.inst[q].storeWaiters = c.inst[q].storeWaiters
    BY <1>4, <2>2 DEF InstFields
  <2>4. InstOK(f, q)
    <3>1. s = "WAIT_RB" => q \notin f.lsq
      BY <1>0, <1>4, <2>1 DEF InstOK, Early
    <3> QED
      BY <1>0, <1>4, <2>1, <2>3, <3>1 DEF InstOK, Early, Stages
  <2>5. \A p \in DOMAIN c.inst : p # q => f.inst[p] = c.inst[p]
    BY <1>4, <2>1
  <2>6. c.inst[q].storeWaiters # <<>> => f.inst[q].ext = c.inst[q].ext /\ q \in f.lsq
    BY <1>1, <1>4, <2>1, <2>3
  <2> QED
    BY <1>4, <2>1, <2>3, <2>4, <2>5, <2>6
<1>5. \A e, s : DOMAIN e = CoreFields => At(e, s) = Doomed(e, s, e.bad)
  BY DEF CoreFields
<1>6. CASE d = c
  BY <1>0, <1>1, <1>6 DEF Shape
<1>7. CASE c.inst[q].stage = "WAIT_RA" /\ Untranslated(c, q) /\ d = [At(c, "WAIT_RB") EXCEPT !.bad = Min({@, q})]
  <2>1. d = Doomed(c, "WAIT_RB", Min({c.bad, q}))
    BY <1>2, <1>7 DEF CoreFields
  <2>2. Min({c.bad, q}) \in {c.bad, q} /\ Min({c.bad, q}) <= c.bad /\ Min({c.bad, q}) <= q
    BY <1>0, MinOfTwo
  <2> DEFINE b == Min({c.bad, q})
  <2> HIDE DEF Addressed, At, Doomed, Moved, b
  <2>3. b \in {c.bad, q} /\ b <= c.bad /\ b <= q /\ d = Doomed(c, "WAIT_RB", b)
    BY <2>1, <2>2 DEF b
  <2>4. Moved(d, "WAIT_RB", b)
    BY <1>2, <1>4, <1>7, <2>3
  <2> QED
    BY <2>3, <2>4 DEF Moved
<1>8. CASE /\ c.inst[q].stage = "WAIT_RA" /\ ~Untranslated(c, q)
           /\ d = At(a, "WAIT_RC") \/ d = At(a, "READY")
  <2> HIDE DEF a, At, Doomed
  <2>1. a.bad = c.bad /\ DOMAIN a = CoreFields
    BY <1>3, <1>8
  <2>2. d = Doomed(a, "WAIT_RC", c.bad) \/ d = Doomed(a, "READY", c.bad)
    BY <1>5, <1>8, <2>1
  <2> HIDE DEF Addressed, Moved
  <2>3. Moved(d, "WAIT_RC", c.bad) \/ Moved(d, "READY", c.bad)
    BY <1>0, <1>3, <1>4, <1>8, <2>2
  <2> QED
    BY <1>0, <2>3 DEF Moved
<1>9. CASE c.inst[q].stage = "WAIT_RC" /\ d = At(c, "READY")
  <2>1. d = Doomed(c, "READY", c.bad)
    BY <1>2, <1>5, <1>9
  <2> HIDE DEF Addressed, At, Doomed, Moved
  <2>2. Moved(d, "READY", c.bad)
    BY <1>0, <1>2, <1>4, <1>9, <2>1
  <2> QED
    BY <1>0, <2>2 DEF Moved
<1>10. \/ d = c
       \/ /\ c.inst[q].stage = "WAIT_RA" /\ Untranslated(c, q)
          /\ d = [At(c, "WAIT_RB") EXCEPT !.bad = Min({@, q})]
       \/ /\ c.inst[q].stage = "WAIT_RA" /\ ~Untranslated(c, q)
          /\ d = At(a, "WAIT_RC") \/ d = At(a, "READY")
       \/ c.inst[q].stage = "WAIT_RC" /\ d = At(c, "READY")
  <2> DEFINE lacks(operand) == c.inst[q].uop.reads = operand /\ ~SourceReady(c, q)
             rb == [At(c, "WAIT_RB") EXCEPT !.bad = Min({@, q})]
             ready(s) == At(a, s)
             late == At(c, "READY")
  <2>1. d = CASE c.inst[q].stage = "WAIT_RC" -> IF SourceReady(c, q) THEN late ELSE c
              [] c.inst[q].stage # "WAIT_RC" /\ lacks("addr") -> c
              [] c.inst[q].stage # "WAIT_RC" /\ ~lacks("addr") /\ Untranslated(c, q) -> rb
              [] OTHER -> ready(IF lacks("data") THEN "WAIT_RC" ELSE "READY")
    BY DEF Schedule
  <2>2. Untranslated(c, q) \in BOOLEAN
    BY DEF Untranslated
  <2> HIDE DEF rb, ready, late, lacks
  <2>3. \/ d = c
        \/ c.inst[q].stage = "WAIT_RA" /\ Untranslated(c, q) /\ d = rb
        \/ c.inst[q].stage = "WAIT_RA" /\ ~Untranslated(c, q) /\ (d = ready("WAIT_RC") \/ d = ready("READY"))
        \/ c.inst[q].stage = "WAIT_RC" /\ d = late
    BY <2>1, <2>2
  <2> QED
    BY <2>3 DEF rb, ready, late
<1> QED
  BY <1>6, <1>7, <1>8, <1>9, <1>10

(* Several instructions that wait for a register schedule themselves.      *)
LEMMA AllScheduled ==
  ASSUME NEW c, NEW G, CoreInv(c, G), NEW Q \in SUBSET DOMAIN c.inst,
         \A q \in Q : c.inst[q].stage \in {"WAIT_RA", "WAIT_RC"},
         NEW d, d = ScheduleAll(c, Q)
  PROVE  CoreInv(d, G) /\ Tame(c, d) /\ Steady(c, d, {}) /\ \A q : On(d, q) <=> On(c, q)
<1> DEFINE s == [q \in Q |-> Schedule(c, q)]
           B == {c.bad} \cup {s[q].bad : q \in Q}
<1>0. Shape(c) /\ \A q \in DOMAIN c.inst : InstOK(c, q)
  BY DEF CoreInv
<1>1. \A q \in Q : 
        /\ DOMAIN s[q] = CoreFields /\ DOMAIN s[q].inst = DOMAIN c.inst
        /\ s[q].bad \in {c.bad, q} /\ s[q].bad <= c.bad
        /\ s[q].lsq \in {c.lsq, c.lsq \cup {q}}
        /\ InstOK(s[q], q) /\ s[q].inst[q].stage \in {"WAIT_RA", "WAIT_RB", "WAIT_RC", "READY"}
        /\ s[q].inst[q].uop = c.inst[q].uop /\ s[q].inst[q].pc = c.inst[q].pc
        /\ s[q].inst[q].storeWaiters = c.inst[q].storeWaiters
        /\ c.inst[q].storeWaiters # <<>> => s[q].inst[q].ext = c.inst[q].ext /\ q \in s[q].lsq
  <2> SUFFICES ASSUME NEW q \in Q, NEW t, t = Schedule(c, q)
               PROVE  /\ DOMAIN t = CoreFields /\ DOMAIN t.inst = DOMAIN c.inst
                      /\ t.bad \in {c.bad, q} /\ t.bad <= c.bad
                      /\ t.lsq \in {c.lsq, c.lsq \cup {q}}
                      /\ InstOK(t, q) /\ t.inst[q].stage \in {"WAIT_RA", "WAIT_RB", "WAIT_RC", "READY"}
                      /\ t.inst[q].uop = c.inst[q].uop /\ t.inst[q].pc = c.inst[q].pc
                      /\ t.inst[q].storeWaiters = c.inst[q].storeWaiters
                      /\ c.inst[q].storeWaiters # <<>> => t.inst[q].ext = c.inst[q].ext /\ q \in t.lsq
    OBVIOUS
  <2> QED
    BY Scheduled
<1>2. d = [c EXCEPT !.inst = [p \in DOMAIN c.inst |-> IF p \in Q THEN s[p].inst[p] ELSE c.inst[p]],
                    !.lsq = c.lsq \cup {p \in Q : p \in s[p].lsq},
                    !.bad = Min(B)]
  <2>1. DOMAIN c = CoreFields
    BY <1>0 DEF Shape
  <2>2. {Schedule(c, p).bad : p \in Q} = {s[p].bad : p \in Q}
    OBVIOUS
  <2>3. {p \in Q : p \in Schedule(c, p).lsq} = {p \in Q : p \in s[p].lsq}
    OBVIOUS
  <2>4. [p \in DOMAIN c.inst |-> IF p \in Q THEN Schedule(c, p).inst[p] ELSE c.inst[p]]
        = [p \in DOMAIN c.inst |-> IF p \in Q THEN s[p].inst[p] ELSE c.inst[p]]
    OBVIOUS
  <2>5. d = [c EXCEPT !.inst = [p \in DOMAIN c.inst |-> IF p \in Q THEN Schedule(c, p).inst[p] ELSE c.inst[p]],
                      !.lsq = c.lsq \cup {p \in Q : p \in Schedule(c, p).lsq},
                      !.bad = Min({c.bad} \cup {Schedule(c, p).bad : p \in Q})]
    BY <2>1 DEF ScheduleAll, CoreFields
  <2> QED
    BY <2>2, <2>3, <2>4, <2>5
<1> HIDE DEF s
<1>3. Min(B) \in B /\ \A y \in B : Min(B) <= y
  <2>1. B \subseteq Nat /\ B # {}
    BY <1>0, <1>1 DEF Shape
  <2> HIDE DEF B
  <2> QED
    BY <2>1, MinOfNats
<1> DEFINE b == Min(B)
<1>4. b \in Nat /\ b <= c.bad /\ (b = c.bad \/ b \in Q) /\ \A q \in Q : b <= s[q].bad
  BY <1>0, <1>1, <1>3 DEF Shape
<1> HIDE DEF b
<1>5. /\ DOMAIN d = CoreFields /\ d.lines = c.lines /\ d.bad = b
      /\ d.inst = [p \in DOMAIN c.inst |-> IF p \in Q THEN s[p].inst[p] ELSE c.inst[p]]
      /\ d.lsq = c.lsq \cup {p \in Q : p \in s[p].lsq}
  BY <1>0, <1>2 DEF Shape, CoreFields, b
<1>6. /\ DOMAIN d.inst = DOMAIN c.inst /\ \A q \in Q : d.inst[q] = s[q].inst[q]
      /\ \A p \in DOMAIN c.inst : p \notin Q => d.inst[p] = c.inst[p]
  BY <1>5
<1>7. \A q \in Q : q \in d.lsq <=> q \in s[q].lsq
  BY <1>1, <1>5
<1>8. \A q \in Q : InstOK(d, q)
  <2> SUFFICES ASSUME NEW q \in Q PROVE InstOK(d, q)
    OBVIOUS
  <2>1. InstOK(s[q], q) /\ d.inst[q] = s[q].inst[q] /\ (q \in d.lsq <=> q \in s[q].lsq)
        /\ d.bad <= s[q].bad /\ d.bad \in Nat /\ s[q].bad \in Nat /\ q \in Nat
    BY <1>0, <1>1, <1>4, <1>5, <1>6, <1>7 DEF Shape
  <2> QED
    BY <2>1 DEF InstOK
<1>9. \A q \in Q : ~On(c, q)
  <2>1. NoQ \notin DOMAIN c.inst
    BY <1>0 DEF Shape, NoQ
  <2> QED
    BY <2>1, WaitersHaveIssued
<1>10. \A q \in Q : Owner(c, d, q)
  <2> SUFFICES ASSUME NEW q \in Q, d.inst[q].storeWaiters # <<>>
               PROVE  /\ q \in c.lsq => q \in d.lsq
                      /\ d.inst[q].ext = c.inst[q].ext
                      /\ MemoryIssued(d.inst[q]) => MemoryIssued(c.inst[q])
    BY DEF Owner
  <2> QED
    BY <1>1, <1>6, <1>7 DEF MemoryIssued
<1>11. CoreInv(d, G) /\ \A q : On(d, q) <=> On(c, q)
  <2>1. d.lsq \subseteq DOMAIN c.inst
    BY <1>0, <1>5 DEF Shape
  <2>2. \A q \in Q : /\ q \in DOMAIN c.inst /\ d.inst[q].uop = c.inst[q].uop
                     /\ d.inst[q].storeWaiters = c.inst[q].storeWaiters
                     /\ d.inst[q].stage # "MEMORY" /\ q \notin G
    BY <1>1, <1>6 DEF CoreInv, Waited
  <2>3. \A p \in DOMAIN c.inst : p \notin Q => d.inst[p] = c.inst[p] /\ (p \in d.lsq <=> p \in c.lsq)
    BY <1>5, <1>6
  <2>4. \A q \in Q : /\ q \in DOMAIN c.inst /\ InstOK(d, q)
                     /\ d.inst[q].uop = c.inst[q].uop
                     /\ d.inst[q].storeWaiters = c.inst[q].storeWaiters
                     /\ Owner(c, d, q)
                     /\ On(c, q) => /\ d.inst[q].ext = c.inst[q].ext
                                    /\ d.inst[q].stage = c.inst[q].stage
                     /\ d.inst[q].uop.op = "ld" /\ d.inst[q].stage = "MEMORY" =>
                          On(c, q) \/ q \in G
                     /\ q \in G => d.inst[q].stage \in {"EXECUTE", "MEMORY"}
    BY <1>8, <1>9, <1>10, <2>2
  <2>5. /\ DOMAIN d = CoreFields /\ DOMAIN d.inst = DOMAIN c.inst /\ d.lines = c.lines
        /\ d.bad \in Nat /\ d.bad <= c.bad
    BY <1>4, <1>5, <1>6
  <2>6. Advance(c, d, Q, G, G)
    BY <2>1, <2>3, <2>4, <2>5 DEF Advance
  <2> QED
    BY <2>6, Advanced
<1>12. Tame(c, d)
  <2>1. \A q \in DOMAIN c.inst :
          /\ d.inst[q].uop = c.inst[q].uop /\ d.inst[q].pc = c.inst[q].pc
          /\ c.inst[q].stage \in {"FETCH", "DECODE", "COMPLETE"} => d.inst[q].stage = c.inst[q].stage
    BY <1>1, <1>6
  <2>2. d.bad = c.bad \/ (d.bad \in DOMAIN c.inst /\ c.inst[d.bad].stage # "COMPLETE")
    BY <1>4, <1>5
  <2> QED
    BY <1>6, <2>1, <2>2 DEF Tame
<1>13. Steady(c, d, {})
  BY <1>6 DEF Steady
<1> QED
  BY <1>11, <1>12, <1>13

(* PhysicalFile::setReady *)
LEMMA ReadersAreWoken ==
  ASSUME NEW c, NEW G, CoreInv(c, G), NEW q, NEW d, d = WakeReaders(c, q)
  PROVE  CoreInv(d, G) /\ Tame(c, d) /\ Steady(c, d, {}) /\ \A p : On(d, p) <=> On(c, p)
<1> DEFINE Q == {p \in DOMAIN c.inst : c.inst[p].src = q /\ c.inst[p].stage \in {"WAIT_RA", "WAIT_RC"}}
<1>1. d = ScheduleAll(c, Q) /\ Q \in SUBSET DOMAIN c.inst
      /\ \A p \in Q : c.inst[p].stage \in {"WAIT_RA", "WAIT_RC"}
  BY DEF WakeReaders
<1> HIDE DEF Q
<1> QED
  BY <1>1, AllScheduled

-----------------------------------------------------------------------------
(* Loads.                                                                  *)

(* From c to d only q moves on, to stage s.                                *)
Turn(c, d, q, s) ==
  /\ DOMAIN d = CoreFields /\ DOMAIN d.inst = DOMAIN c.inst /\ q \in DOMAIN c.inst
  /\ d.lines = c.lines /\ d.lsq = c.lsq /\ d.bad = c.bad
  /\ \A p \in DOMAIN c.inst : p # q => d.inst[p] = c.inst[p]
  /\ DOMAIN d.inst[q] = InstFields
  /\ d.inst[q].uop = c.inst[q].uop /\ d.inst[q].pc = c.inst[q].pc
  /\ d.inst[q].src = c.inst[q].src /\ d.inst[q].ext = c.inst[q].ext
  /\ d.inst[q].storeWaiters = c.inst[q].storeWaiters
  /\ d.inst[q].stage = s

(* An instruction that is on no list issues or completes. *)
LEMMA Turned ==
  ASSUME NEW c, NEW G, CoreInv(c, G), NEW d, NEW q, NEW s \in {"EXECUTE", "MEMORY", "COMPLETE"},
         Turn(c, d, q, s), ~On(c, q),
         c.inst[q].storeWaiters = <<>> \/ s = "EXECUTE",
         s = "MEMORY" => q \in G /\ c.inst[q].ext # {}, s = "EXECUTE" => q \notin G,
         c.inst[q].stage \notin {"FETCH", "DECODE", "COMPLETE"}
  PROVE  /\ s = "COMPLETE" => CoreInv(d, G \ {q})
         /\ s # "COMPLETE" => CoreInv(d, G)
         /\ Tame(c, d) /\ Steady(c, d, {q}) /\ \A p : On(d, p) <=> On(c, p)
<1> DEFINE H == IF s = "COMPLETE" THEN G \ {q} ELSE G
<1>1. Shape(c) /\ InstOK(c, q)
  BY DEF CoreInv, Turn
<1>2. InstOK(d, q)
  BY <1>1 DEF InstOK, Turn, Early, Stages
<1>3. Owner(c, d, q)
  BY DEF Owner, Turn, MemoryIssued
<1>4. Advance(c, d, {q}, G, H)
  BY <1>1, <1>2, <1>3 DEF Advance, Turn, Shape
<1>5. CoreInv(d, H) /\ \A p : On(d, p) <=> On(c, p)
  BY <1>4, Advanced
<1>6. Tame(c, d)
  BY DEF Tame, Turn
<1>7. Steady(c, d, {q})
  BY DEF Steady, Turn
<1>8. (s = "COMPLETE" => H = G \ {q}) /\ (s # "COMPLETE" => H = G)
  OBVIOUS
<1> HIDE DEF H
<1> QED
  BY <1>5, <1>6, <1>7, <1>8

(* Members of limbo. *)
LEMMA InLimbo ==
  ASSUME NEW c, NEW G, CoreInv(c, G), NEW q \in G
  PROVE  /\ q \in DOMAIN c.inst /\ q \in Nat /\ IsMemory(c.inst[q].uop) /\ ~On(c, q)
         /\ c.inst[q].stage \in {"EXECUTE", "MEMORY"}
         /\ c.inst[q].uop.op = "ld" => c.inst[q].storeWaiters = <<>>
         /\ c.inst[q].stage = "MEMORY" => c.inst[q].storeWaiters = <<>>
<1>1. /\ q \in DOMAIN c.inst /\ IsMemory(c.inst[q].uop) /\ ~On(c, q) /\ Shape(c)
      /\ c.inst[q].stage \in {"EXECUTE", "MEMORY"}
  BY DEF CoreInv, Waited
<1>2. c.inst[q].uop.op = "ld" => c.inst[q].storeWaiters = <<>>
  BY <1>1, NoWaiters
<1>3. c.inst[q].stage = "MEMORY" => c.inst[q].storeWaiters = <<>>
  BY <1>1, NoWaiters DEF MemoryIssued
<1> QED
  BY <1>1, <1>2, <1>3 DEF Shape

(* LoadStoreQueue::loadSearch stops at an older store that has not issued. *)
LEMMA BlockerIsFound ==
  ASSUME NEW c, Shape(c), NEW q \in DOMAIN c.inst,
         NEW p, p = BlockingStore(c.inst, c.lsq, q), p # NoQ
  PROVE  /\ p \in c.lsq /\ p \in DOMAIN c.inst /\ p < q /\ c.inst[p].uop.op = "st"
         /\ ~MemoryIssued(c.inst[p]) /\ Overlaps(Operand(c.inst[p]), Operand(c.inst[q]))
<1> DEFINE blockers == {x \in OlderStores(c.inst, c.lsq, q) :
                          ~MemoryIssued(c.inst[x]) /\ Overlaps(Operand(c.inst[q]), Operand(c.inst[x]))}
<1>1. p = IF blockers = {} THEN NoQ ELSE Min(blockers)
  BY DEF BlockingStore
<1>2. blockers \subseteq Nat
  BY DEF OlderStores, ListOf, Shape
<1>3. p \in blockers
  <2> HIDE DEF blockers
  <2> QED
    BY <1>1, <1>2, MinOfNats
<1> QED
  BY <1>3 DEF OlderStores, ListOf, Shape, Overlaps

(* A load goes on the wait list of the store that blocks it. *)
LEMMA LoadIsBlocked ==
  ASSUME NEW c, NEW G, CoreInv(c, G), NEW q \in G, c.inst[q].uop.op = "ld",
         NEW p, p = BlockingStore(c.inst, c.lsq, q), p # NoQ,
         NEW d, d = [c EXCEPT !.inst[p].storeWaiters = Append(@, Waiting(q))]
  PROVE  CoreInv(d, G \ {q}) /\ Tame(c, d) /\ Steady(c, d, {q})
<1> DEFINE w == Waiting(q)
           x == <<"store", p>>
<1>0. /\ Shape(c) /\ q \in DOMAIN c.inst /\ q \in Nat /\ ~On(c, q)
      /\ c.inst[q].stage \in {"EXECUTE", "MEMORY"}
      /\ \A r \in DOMAIN c.inst : InstOK(c, r)
  BY InLimbo DEF CoreInv
<1>1. /\ p \in c.lsq /\ p \in DOMAIN c.inst /\ p < q /\ c.inst[p].uop.op = "st"
      /\ ~MemoryIssued(c.inst[p]) /\ Overlaps(Operand(c.inst[p]), Operand(c.inst[q]))
  BY <1>0, BlockerIsFound
<1> DEFINE v == Append(c.inst[p].storeWaiters, w)
<1>2. d = [c EXCEPT !.inst[p].storeWaiters = v]
  OBVIOUS
<1> HIDE DEF v
<1>2a. /\ DOMAIN d = CoreFields /\ d.lines = c.lines /\ d.lsq = c.lsq /\ d.bad = c.bad
       /\ d.inst = [c.inst EXCEPT ![p].storeWaiters = v]
  <2>1. DOMAIN c = CoreFields
    BY <1>0 DEF Shape
  <2> QED
    BY <1>2, <2>1 DEF CoreFields
<1>3. /\ DOMAIN d.inst = DOMAIN c.inst
      /\ d.inst[p] = [c.inst[p] EXCEPT !.storeWaiters = v]
      /\ \A r \in DOMAIN c.inst : r # p => d.inst[r] = c.inst[r]
  BY ONLY <1>1, <1>2a
<1>4. /\ DOMAIN d.inst[p] = InstFields
      /\ d.inst[p].uop = c.inst[p].uop /\ d.inst[p].pc = c.inst[p].pc
      /\ d.inst[p].src = c.inst[p].src /\ d.inst[p].ext = c.inst[p].ext
      /\ d.inst[p].stage = c.inst[p].stage
      /\ d.inst[p].storeWaiters = v
  BY <1>0, <1>1, <1>3 DEF InstOK, InstFields
<1>5. w \in Waiter /\ w.q = q /\ ~w.retry /\ q # NoQ
  BY <1>0 DEF Waiting, Waiter, NoQ
<1>6. x \in Places(c) /\ x[1] = "store" /\ x[2] = p
  BY <1>1 DEF Places
<1>7. WaitList(d, x) = Append(WaitList(c, x), w)
  BY <1>4, <1>6 DEF WaitList, v
<1>8. ASSUME NEW y \in Places(c), y # x PROVE WaitList(d, y) = WaitList(c, y)
  <2>1. CASE y \in {"line"} \X Lines
    BY <1>2a, <2>1 DEF WaitList
  <2>2. CASE y \in {"store"} \X DOMAIN c.inst
    <3>1. y[2] # p /\ y[1] # "line" /\ y[2] \in DOMAIN c.inst
      BY <1>8, <2>2
    <3> QED
      BY <1>3, <3>1 DEF WaitList
  <2> QED
    BY <2>1, <2>2 DEF Places
<1>9. EntryOK(c, x, w)
  BY <1>0, <1>1, <1>5, <1>6 DEF EntryOK, IsMemory
<1> HIDE DEF w, x
<1>10. \A r \in DOMAIN d.inst : /\ DOMAIN d.inst[r] = InstFields
                              /\ d.inst[r].uop = c.inst[r].uop /\ d.inst[r].pc = c.inst[r].pc
                              /\ d.inst[r].src = c.inst[r].src /\ d.inst[r].ext = c.inst[r].ext
                              /\ d.inst[r].stage = c.inst[r].stage
  <2> SUFFICES ASSUME NEW r \in DOMAIN d.inst
               PROVE /\ DOMAIN d.inst[r] = InstFields
                              /\ d.inst[r].uop = c.inst[r].uop /\ d.inst[r].pc = c.inst[r].pc
                              /\ d.inst[r].src = c.inst[r].src /\ d.inst[r].ext = c.inst[r].ext
                              /\ d.inst[r].stage = c.inst[r].stage
    OBVIOUS
  <2>1. CASE r = p
    BY <1>4, <2>1
  <2>2. CASE r # p
    BY <1>0, <1>3, <2>2 DEF InstOK
  <2> QED
    BY <2>1, <2>2
<1>11. Join(c, d, x, w)
  <2>1. /\ DOMAIN d.lines = Lines
        /\ \A l \in Lines : /\ DOMAIN d.lines[l] = {"type", "wait"}
                            /\ d.lines[l].type = "none" => d.lines[l].wait = <<>>
    BY <1>0, <1>2a DEF Shape
  <2>2. DOMAIN d.inst = DOMAIN c.inst
    BY <1>3
  <2> QED
    BY <1>2a, <1>6, <1>5, <1>7, <1>8, <1>9, <1>10, <2>1, <2>2 DEF Join
<1>12. CoreInv(d, G \ {q})
  <2>1. w.q \in G
    BY <1>5
  <2>2. CoreInv(d, G \ {w.q})
    BY <1>11, <2>1, Joined
  <2> QED
    BY <1>5, <2>2
<1>13. Tame(c, d) /\ Steady(c, d, {q})
  <2>1. DOMAIN d.inst = DOMAIN c.inst /\ d.bad = c.bad
    BY <1>2a, <1>3
  <2>2. \A r \in DOMAIN c.inst : /\ d.inst[r].uop = c.inst[r].uop /\ d.inst[r].pc = c.inst[r].pc
                                /\ d.inst[r].stage = c.inst[r].stage
    BY <1>10, <2>1
  <2>3. Tame(c, d)
    BY <2>1, <2>2 DEF Tame
  <2> QED
    BY <2>2, <2>3 DEF Steady
<1> QED
  BY <1>12, <1>13

(* What an instruction computes does not matter to the lists it is on. *)
LEMMA ValuesSet ==
  ASSUME NEW c, Shape(c), NEW q \in DOMAIN c.inst, InstOK(c, q), NEW u, NEW v, NEW s,
         NEW d, \/ d = [[c EXCEPT !.inst[q].val = u, !.inst[q].reg = v] EXCEPT !.inst[q].stage = s]
                \/ d = [[c EXCEPT !.inst[q].reg = v] EXCEPT !.inst[q].stage = s]
                \/ d = [c EXCEPT !.inst[q].stage = s]
  PROVE  Turn(c, d, q, s)
<1>1. DOMAIN c = CoreFields /\ DOMAIN c.inst[q] = InstFields
  BY DEF Shape, InstOK
<1>2. /\ DOMAIN d = CoreFields /\ d.lines = c.lines /\ d.lsq = c.lsq /\ d.bad = c.bad
      /\ \/ d.inst = [c.inst EXCEPT ![q] = [[[@ EXCEPT !.val = u] EXCEPT !.reg = v] EXCEPT !.stage = s]]
         \/ d.inst = [c.inst EXCEPT ![q] = [[@ EXCEPT !.reg = v] EXCEPT !.stage = s]]
         \/ d.inst = [c.inst EXCEPT ![q] = [@ EXCEPT !.stage = s]]
  <2>1. CASE d = [[c EXCEPT !.inst[q].val = u, !.inst[q].reg = v] EXCEPT !.inst[q].stage = s]
    <3> DEFINE i == c.inst
    <3>1. d.inst = [[[i EXCEPT ![q].val = u] EXCEPT ![q].reg = v] EXCEPT ![q].stage = s]
      BY <1>1, <2>1 DEF CoreFields
    <3>2. DOMAIN d = CoreFields /\ d.lines = c.lines /\ d.lsq = c.lsq /\ d.bad = c.bad
      BY <1>1, <2>1 DEF CoreFields
    <3> HIDE DEF i
    <3>3. d.inst = [i EXCEPT ![q] = [[[@ EXCEPT !.val = u] EXCEPT !.reg = v] EXCEPT !.stage = s]]
      BY <3>1
    <3> QED
      BY <3>2, <3>3 DEF i
  <2>2. CASE d = [[c EXCEPT !.inst[q].reg = v] EXCEPT !.inst[q].stage = s]
    <3> DEFINE i == c.inst
    <3>1. d.inst = [[i EXCEPT ![q].reg = v] EXCEPT ![q].stage = s]
      BY <1>1, <2>2 DEF CoreFields
    <3>2. DOMAIN d = CoreFields /\ d.lines = c.lines /\ d.lsq = c.lsq /\ d.bad = c.bad
      BY <1>1, <2>2 DEF CoreFields
    <3> HIDE DEF i
    <3>3. d.inst = [i EXCEPT ![q] = [[@ EXCEPT !.reg = v] EXCEPT !.stage = s]]
      BY <3>1
    <3> QED
      BY <3>2, <3>3 DEF i
  <2>3. CASE d = [c EXCEPT !.inst[q].stage = s]
    BY <1>1, <2>3 DEF CoreFields
  <2> QED
    BY <2>1, <2>2, <2>3
<1>3. /\ DOMAIN d.inst = DOMAIN c.inst
      /\ \A p \in DOMAIN c.inst : p # q => d.inst[p] = c.inst[p]
      /\ \/ d.inst[q] = [[[c.inst[q] EXCEPT !.val = u] EXCEPT !.reg = v] EXCEPT !.stage = s]
         \/ d.inst[q] = [[c.inst[q] EXCEPT !.reg = v] EXCEPT !.stage = s]
         \/ d.inst[q] = [c.inst[q] EXCEPT !.stage = s]
  BY <1>2
<1>4. /\ DOMAIN d.inst[q] = InstFields
      /\ d.inst[q].uop = c.inst[q].uop /\ d.inst[q].pc = c.inst[q].pc
      /\ d.inst[q].src = c.inst[q].src /\ d.inst[q].ext = c.inst[q].ext
      /\ d.inst[q].storeWaiters = c.inst[q].storeWaiters
      /\ d.inst[q].stage = s
  BY <1>1, <1>3 DEF InstFields
<1> QED
  BY <1>2, <1>3, <1>4 DEF Turn

(* DynamicInst::complete for a load that is on no list: it is blocked by a *)
(* store, or it completes and wakes the readers of its register.           *)
LEMMA LoadCompletes ==
  ASSUME NEW c, NEW G, CoreInv(c, G), NEW q \in G, c.inst[q].uop.op = "ld",
         NEW d, d = CompleteLoad(c, q)
  PROVE  CoreInv(d, G \ {q}) /\ Tame(c, d) /\ Steady(c, d, {q})
<1> DEFINE load == c.inst[q]
           blocker == BlockingStore(c.inst, c.lsq, q)
           found == LoadSearch(c.inst, c.lsq, q)
           value == IF Covers(found, Operand(load)) THEN Operand(load)
                    ELSE SetValue(Operand(load), c.mem)
           word == WriteValue(found, value).val
           reg == IF c.inst[q].uop.part = "hi" THEN Override(SourceValue(c, q), word) ELSE word
           merged == SourceValue(c, q)
           low == [[c EXCEPT !.inst[q].reg = merged] EXCEPT !.inst[q].stage = "COMPLETE"]
           full == [[c EXCEPT !.inst[q].val = word, !.inst[q].reg = reg] EXCEPT !.inst[q].stage = "COMPLETE"]
           blocked == [c EXCEPT !.inst[blocker].storeWaiters = Append(@, Waiting(q))]
<1>1. d = CASE load.ext = {} -> WakeReaders(low, q)
            [] load.ext # {} /\ blocker # NoQ -> blocked
            [] OTHER -> WakeReaders(full, q)
  BY DEF CompleteLoad
<1>2. /\ Shape(c) /\ q \in DOMAIN c.inst /\ q \in Nat /\ ~On(c, q) /\ InstOK(c, q)
      /\ c.inst[q].stage \in {"EXECUTE", "MEMORY"} /\ c.inst[q].storeWaiters = <<>>
  BY InLimbo DEF CoreInv
<1>3. ASSUME NEW e, e = low \/ e = full, d = WakeReaders(e, q)
      PROVE  CoreInv(d, G \ {q}) /\ Tame(c, d) /\ Steady(c, d, {q})
  <2>1. Turn(c, e, q, "COMPLETE")
    <3> HIDE DEF word, reg, merged
    <3> QED
      BY <1>2, <1>3, ValuesSet
  <2>2. CoreInv(e, G \ {q}) /\ Tame(c, e) /\ Steady(c, e, {q})
    BY <1>2, <2>1, Turned
  <2>3. CoreInv(d, G \ {q}) /\ Tame(e, d) /\ Steady(e, d, {})
    BY <1>3, <2>2, ReadersAreWoken
  <2>4. Steady(e, d, {q})
    BY <2>3 DEF Steady
  <2> QED
    BY <2>2, <2>3, <2>4, TameTwice, SteadyTwice
<1>4. ASSUME d = blocked, blocker # NoQ
      PROVE  CoreInv(d, G \ {q}) /\ Tame(c, d) /\ Steady(c, d, {q})
  BY <1>4, LoadIsBlocked
<1> HIDE DEF low, full, blocked, blocker
<1>5. \/ d = WakeReaders(low, q) \/ d = WakeReaders(full, q)
      \/ d = blocked /\ blocker # NoQ
  BY <1>1
<1> QED
  BY <1>3, <1>4, <1>5

-----------------------------------------------------------------------------
(* Requests of the memory interface, and the loads that make them.         *)

(* What a request does: nothing, or q waits for the line, or the request   *)
(* is to be made again.                                                    *)
Ask(c, d, line, type, q) ==
  /\ DOMAIN d = CoreFields /\ d.inst = c.inst /\ d.lsq = c.lsq /\ d.bad = c.bad
  /\ DOMAIN d.lines = Lines
  /\ \A l \in Lines : /\ DOMAIN d.lines[l] = {"type", "wait"}
                      /\ d.lines[l].type = "none" => d.lines[l].wait = <<>>
                      /\ l # line => d.lines[l] = c.lines[l]
  /\ \/ d.lines[line].wait = c.lines[line].wait
     \/ q # NoQ /\ d.lines[line].wait = Append(c.lines[line].wait, Waiting(q))
     \/ type = "WRITE" /\ d.lines[line].wait = Append(c.lines[line].wait, Retry(q))

(* RubyMemoryInterface::request *)
LEMMA RequestIsMade ==
  ASSUME NEW c, Shape(c), NEW line \in Lines, NEW type \in {"READ", "WRITE"}, NEW q,
         NEW d, d = Request(c, line, type, q)
  PROVE  Ask(c, d, line, type, q)
<1> DEFINE l == c.lines[line]
           waiting == IF q = NoQ THEN <<>> ELSE <<Waiting(q)>>
           made == [c EXCEPT !.full = @ \/ ~CacheReady(c)]
           again == [c EXCEPT !.lines[line].wait = Append(@, Retry(q))]
           coalesced == [c EXCEPT !.lines[line].wait = @ \o waiting]
           missed == [made EXCEPT !.lines[line] = [type |-> type, wait |-> waiting]]
<1>0. /\ DOMAIN c = CoreFields /\ DOMAIN c.lines = Lines /\ DOMAIN l = {"type", "wait"}
      /\ \A k \in Lines : /\ DOMAIN c.lines[k] = {"type", "wait"}
                          /\ c.lines[k].type = "none" => c.lines[k].wait = <<>>
      /\ l.wait \in Seq(Waiter)
  <2>1. <<"line", line>> \in Places(c) /\ WaitList(c, <<"line", line>>) = l.wait
    BY DEF Places, WaitList
  <2> QED
    BY <2>1 DEF Shape
<1>1. \/ d = again /\ type = "WRITE" /\ l.type = "READ"
      \/ d = coalesced /\ l.type # "none"
      \/ d = made
      \/ d = missed /\ l.type = "none"
  <2>1. d = CASE l.type = "READ" /\ type = "WRITE" -> again
              [] l.type # "none" /\ ~(l.type = "READ" /\ type = "WRITE") -> coalesced
              [] l.type = "none" /\ Hits(c.perm[line], type) -> made
              [] OTHER -> missed
    BY DEF Request
  <2>2. Hits(c.perm[line], type) \in BOOLEAN
    BY DEF Hits
  <2> HIDE DEF again, coalesced, made, missed
  <2> QED
    BY <2>1, <2>2
<1> DEFINE New(w) == \/ w = l.wait
                     \/ q # NoQ /\ w = Append(l.wait, Waiting(q))
                     \/ type = "WRITE" /\ w = Append(l.wait, Retry(q))
           Listed(e, w) ==
             /\ DOMAIN e = CoreFields /\ e.inst = c.inst /\ e.lsq = c.lsq /\ e.bad = c.bad
             /\ DOMAIN e.lines = Lines
             /\ \A k \in Lines : k # line => e.lines[k] = c.lines[k]
             /\ DOMAIN e.lines[line] = {"type", "wait"} /\ e.lines[line].wait = w
             /\ e.lines[line].type # "none"
<1>2. ASSUME NEW w, NEW e, e = [c EXCEPT !.lines[line].wait = w], l.type # "none"
      PROVE  Listed(e, w)
  <2>1. /\ DOMAIN e = CoreFields /\ e.inst = c.inst /\ e.lsq = c.lsq /\ e.bad = c.bad
        /\ e.lines = [c.lines EXCEPT ![line].wait = w]
    BY <1>0, <1>2 DEF CoreFields
  <2>2. e.lines[line] = [l EXCEPT !.wait = w]
    BY <1>0, <2>1
  <2> QED
    BY <1>0, <1>2, <2>1, <2>2
<1>3. ASSUME NEW w, NEW e, Listed(e, w), New(w)
      PROVE  Ask(c, e, line, type, q)
  <2>1. \A k \in Lines : /\ DOMAIN e.lines[k] = {"type", "wait"}
                         /\ e.lines[k].type = "none" => e.lines[k].wait = <<>>
    <3> SUFFICES ASSUME NEW k \in Lines
                 PROVE  /\ DOMAIN e.lines[k] = {"type", "wait"}
                        /\ e.lines[k].type = "none" => e.lines[k].wait = <<>>
      OBVIOUS
    <3>1. CASE k = line
      BY <1>3, <3>1
    <3>2. CASE k # line
      BY <1>0, <1>3, <3>2
    <3> QED
      BY <3>1, <3>2
  <2> QED
    BY <1>3, <2>1 DEF Ask
<1>4. CASE d = again /\ type = "WRITE" /\ l.type = "READ"
  <2> DEFINE w == Append(l.wait, Retry(q))
  <2>1. d = [c EXCEPT !.lines[line].wait = w] /\ New(w)
    BY <1>4
  <2> HIDE DEF w, Listed, New
  <2> QED
    BY <1>2, <1>3, <1>4, <2>1
<1>5. CASE d = coalesced /\ l.type # "none"
  <2> DEFINE w == l.wait \o waiting
  <2>1. d = [c EXCEPT !.lines[line].wait = w]
    BY <1>5
  <2>2. w = l.wait \/ (q # NoQ /\ w = Append(l.wait, Waiting(q)))
    <3> DEFINE s == l.wait
               x == Waiting(q)
    <3>1. CASE q = NoQ
      <4>1. s \in Seq(Waiter) /\ w = s \o <<>>
        BY <1>0, <3>1
      <4> HIDE DEF s, w
      <4>2. w = s
        BY <4>1
      <4> QED
        BY <4>2 DEF s, w
    <3>2. CASE q # NoQ
      <4>1. s \in Seq(Waiter) /\ w = s \o <<x>>
        BY <1>0, <3>2
      <4> HIDE DEF s, x, w
      <4>2. w = Append(s, x)
        BY <4>1
      <4> QED
        BY <3>2, <4>2 DEF s, x, w
    <3> QED
      BY <3>1, <3>2
  <2>3. New(w)
    <3> HIDE DEF w
    <3> QED
      BY <2>2
  <2> HIDE DEF w, Listed, New
  <2> QED
    BY <1>2, <1>3, <1>5, <2>1, <2>3
<1>6. CASE d = made
  <2>1. /\ DOMAIN d = CoreFields /\ d.inst = c.inst /\ d.lsq = c.lsq /\ d.bad = c.bad
        /\ d.lines = c.lines
    BY <1>0, <1>6 DEF CoreFields
  <2> QED
    BY <1>0, <2>1 DEF Ask
<1>7. CASE d = missed /\ l.type = "none"
  <2>1. l.wait = <<>>
    BY <1>0, <1>7
  <2>2. waiting = l.wait \/ (q # NoQ /\ waiting = Append(l.wait, Waiting(q)))
    BY <2>1
  <2>3. New(waiting)
    <3> HIDE DEF waiting
    <3> QED
      BY <2>2
  <2> HIDE DEF waiting
  <2>4. /\ DOMAIN d = CoreFields /\ d.inst = c.inst /\ d.lsq = c.lsq /\ d.bad = c.bad
        /\ d.lines = [c.lines EXCEPT ![line] = [type |-> type, wait |-> waiting]]
    BY <1>0, <1>7 DEF CoreFields
  <2>5. /\ DOMAIN d.lines = Lines /\ \A k \in Lines : k # line => d.lines[k] = c.lines[k]
        /\ d.lines[line] = [type |-> type, wait |-> waiting]
    BY <1>0, <2>4
  <2>6. Listed(d, waiting)
    BY <2>4, <2>5
  <2> HIDE DEF Listed, New
  <2> QED
    BY <1>3, <2>3, <2>6
<1> QED
  BY <1>1, <1>4, <1>5, <1>6, <1>7

(* What leaves the instructions and the waiters alone. *)
LEMMA SameWaiters ==
  ASSUME NEW c, NEW G, CoreInv(c, G), NEW d,
         DOMAIN d = CoreFields, d.inst = c.inst, d.lsq = c.lsq, d.bad = c.bad,
         DOMAIN d.lines = Lines,
         \A l \in Lines : /\ DOMAIN d.lines[l] = {"type", "wait"}
                          /\ d.lines[l].type = "none" => d.lines[l].wait = <<>>
                          /\ d.lines[l].wait = c.lines[l].wait
  PROVE  CoreInv(d, G) /\ \A q : On(d, q) <=> On(c, q)
<1>1. Places(d) = Places(c) /\ \A x \in Places(c) : WaitList(d, x) = WaitList(c, x)
  <2>1. Places(d) = Places(c)
    BY DEF Places
  <2>2. \A x \in Places(c) : WaitList(d, x) = WaitList(c, x)
    BY DEF Places, WaitList
  <2> QED
    BY <2>1, <2>2
<1>2. Shape(d)
  BY <1>1 DEF CoreInv, Shape
<1>3. \A q : On(d, q) <=> On(c, q)
  BY <1>1 DEF On
<1>4. \A q \in DOMAIN d.inst : InstOK(d, q)
  BY DEF CoreInv, InstOK
<1>5. Waited(d, G)
  BY <1>3 DEF CoreInv, Waited
<1>6. /\ \A x \in Places(d) : Part(WaitList(d, x), WaitList(c, x))
      /\ \A q \in DOMAIN d.inst : Owner(c, d, q)
      /\ \A q \in DOMAIN c.inst : Guest(c, d, q)
  BY <1>1, <1>3, PartOfItself DEF Owner, Guest
<1>7. CoreInv(d, G)
  BY <1>2, <1>4, <1>5, <1>6, Changed
<1> QED
  BY <1>3, <1>7

(* Who may ask: one that has issued, and a store if it is to write.        *)
MayAsk(c, G, type, q) ==
  q # NoQ => /\ q \in G /\ c.inst[q].stage = "MEMORY"
             /\ type = "WRITE" => c.inst[q].uop.op = "st"

(* A request keeps the invariant of the core; it may put q on a list. *)
LEMMA Asked ==
  ASSUME NEW c, NEW G, CoreInv(c, G), NEW line \in Lines, NEW type, NEW q,
         NEW d, Ask(c, d, line, type, q), MayAsk(c, G, type, q)
  PROVE  /\ d.inst = c.inst /\ d.bad = c.bad
         /\ On(d, q) => CoreInv(d, G \ {q})
         /\ ~On(d, q) => CoreInv(d, G)
         /\ q = NoQ => CoreInv(d, G)
<1> USE DEF MayAsk
<1> DEFINE x == <<"line", line>>
<1>1. x \in Places(c) /\ WaitList(c, x) = c.lines[line].wait /\ WaitList(d, x) = d.lines[line].wait
      /\ x[1] = "line"
  BY DEF Places, WaitList
<1>2. ASSUME NEW y \in Places(c), y # x PROVE WaitList(d, y) = WaitList(c, y)
  <2>1. CASE y \in {"line"} \X Lines
    BY <1>2, <2>1 DEF WaitList, Ask
  <2>2. CASE y \in {"store"} \X DOMAIN c.inst
    BY <2>2 DEF WaitList, Ask
  <2> QED
    BY <2>1, <2>2 DEF Places
<1> HIDE DEF x
<1>3. G \ {NoQ} = G
  BY DEF CoreInv, Waited, Shape, NoQ
<1>4. CASE d.lines[line].wait = c.lines[line].wait
  <2>1. CoreInv(d, G) /\ \A p : On(d, p) <=> On(c, p)
    BY <1>4, SameWaiters DEF Ask
  <2>2. q # NoQ => ~On(d, q)
    BY <2>1, InLimbo
  <2> QED
    BY <1>3, <2>1, <2>2 DEF Ask
<1>5. ASSUME NEW w \in Waiter, d.lines[line].wait = Append(c.lines[line].wait, w),
             w.q = q, EntryOK(c, x, w)
      PROVE  CoreInv(d, G \ {q}) /\ (q # NoQ => On(d, q))
  <2>1. \A p \in DOMAIN c.inst : DOMAIN c.inst[p] = InstFields
    BY DEF CoreInv, InstOK
  <2>2. WaitList(d, x) = Append(WaitList(c, x), w)
    BY <1>1, <1>5
  <2>3. Join(c, d, x, w)
    BY <1>1, <1>2, <1>5, <2>1, <2>2 DEF Join, Ask
  <2>4. w.q = NoQ \/ w.q \in G
    BY <1>5
  <2>5. CoreInv(d, G \ {w.q}) /\ (w.q # NoQ => On(d, w.q))
    BY <2>3, <2>4, Joined
  <2> QED
    BY <1>5, <2>5
<1>6. q # NoQ => q \in Nat /\ q \in DOMAIN c.inst /\ IsMemory(c.inst[q].uop) /\ c.inst[q].stage \in {"EXECUTE", "MEMORY"}
  BY InLimbo
<1>7. CASE q # NoQ /\ d.lines[line].wait = Append(c.lines[line].wait, Waiting(q))
  <2>1. Waiting(q) \in Waiter /\ Waiting(q).q = q /\ ~Waiting(q).retry
    BY <1>6, <1>7 DEF Waiting, Waiter
  <2>2. EntryOK(c, x, Waiting(q))
    BY <1>1, <1>6, <1>7, <2>1 DEF EntryOK
  <2>3. CoreInv(d, G \ {q}) /\ On(d, q)
    BY <1>5, <1>7, <2>1, <2>2
  <2> QED
    BY <1>7, <2>3 DEF Ask
<1>8. CASE type = "WRITE" /\ d.lines[line].wait = Append(c.lines[line].wait, Retry(q))
  <2>1. Retry(q) \in Waiter /\ Retry(q).q = q /\ Retry(q).retry
    BY <1>6 DEF Retry, Waiter, NoQ
  <2>2. EntryOK(c, x, Retry(q))
    BY <1>1, <1>6, <1>8, <2>1 DEF EntryOK
  <2>3. CoreInv(d, G \ {q}) /\ (q # NoQ => On(d, q))
    BY <1>5, <1>8, <2>1, <2>2
  <2> QED
    BY <1>3, <2>3 DEF Ask
<1> QED
  BY <1>4, <1>7, <1>8 DEF Ask

(* The line of an operand. *)
LEMMA LineIsRequestable ==
  ASSUME NEW c, NEW G, CoreInv(c, G), NEW q \in DOMAIN c.inst, c.inst[q].ext # {}
  PROVE  RequestLine(c, q) \in Lines
<1> DEFINE ext == c.inst[q].ext
<1>1. ext \subseteq DOMAIN WordOf /\ ext \subseteq Nat
  BY MemoryAssumption DEF CoreInv, InstOK
<1>2. Lowest(c.inst[q]) = Min(ext)
  BY DEF Lowest, Min
<1> HIDE DEF ext
<1>3. Min(ext) \in ext
  BY <1>1, MinOfNats DEF ext
<1> QED
  BY <1>1, <1>2, <1>3, MemoryAssumption DEF RequestLine, Lines

(* DynamicInst::execute of a load: blocked, issued or completed. *)
LEMMA LoadExecutes ==
  ASSUME NEW c, NEW G, CoreInv(c, G), NEW q \in G, c.inst[q].uop.op = "ld",
         c.inst[q].stage = "EXECUTE", NEW d, d = ExecuteLoad(c, q)
  PROVE  CoreInv(d, G \ {q}) /\ Tame(c, d) /\ Steady(c, d, {q})
<1> DEFINE load == c.inst[q]
           blocker == BlockingStore(c.inst, c.lsq, q)
           line == RequestLine(c, q)
           r == Request(c, line, "READ", q)
           issued == [r EXCEPT !.inst[q].stage = "MEMORY"]
           blocked == [c EXCEPT !.inst[blocker].storeWaiters = Append(@, Waiting(q))]
           covered == Covers(LoadSearch(c.inst, c.lsq, q), Operand(load))
<1>0. /\ Shape(c) /\ q \in DOMAIN c.inst /\ q \in Nat /\ ~On(c, q) /\ InstOK(c, q)
      /\ c.inst[q].storeWaiters = <<>>
  BY InLimbo DEF CoreInv
<1>1. d = CASE load.ext = {} -> CompleteLoad(c, q)
            [] load.ext # {} /\ blocker # NoQ -> blocked
            [] load.ext # {} /\ blocker = NoQ /\ covered -> CompleteLoad(c, q)
            [] OTHER -> IF OnLine(issued, q) THEN issued ELSE CompleteLoad(issued, q)
  BY DEF ExecuteLoad
<1>2. CASE d = CompleteLoad(c, q)
  BY <1>2, LoadCompletes
<1>3. CASE d = blocked /\ blocker # NoQ
  BY <1>3, LoadIsBlocked
<1>4. CASE load.ext # {} /\ d = IF OnLine(issued, q) THEN issued ELSE CompleteLoad(issued, q)
  <2> DEFINE m == [c EXCEPT !.inst[q].stage = "MEMORY"]
  <2>1. line \in Lines
    BY <1>0, <1>4, LineIsRequestable
  <2> HIDE DEF line
  <2>2. Ask(c, r, line, "READ", q)
    BY <1>0, <2>1, RequestIsMade
  <2> HIDE DEF r
  <2>3. Turn(c, m, q, "MEMORY")
    BY <1>0, ValuesSet
  <2>5. m.inst = [c.inst EXCEPT ![q].stage = "MEMORY"] /\ m.lines = c.lines /\ m.lsq = c.lsq /\ m.bad = c.bad
    BY <1>0 DEF Shape, CoreFields
  <2>6. /\ issued.inst = [r.inst EXCEPT ![q].stage = "MEMORY"] /\ issued.lines = r.lines
        /\ issued.lsq = r.lsq /\ issued.bad = r.bad /\ DOMAIN issued = CoreFields
    BY <2>2 DEF Ask, CoreFields
  <2> HIDE DEF m, issued
  <2>4. CoreInv(m, G) /\ Tame(c, m) /\ Steady(c, m, {q})
    BY <1>0, <1>4, <2>3, Turned
  <2>7. Ask(m, issued, line, "READ", q)
    BY <2>2, <2>5, <2>6 DEF Ask
  <2>8. m.inst[q].stage = "MEMORY" /\ m.inst[q].uop.op = "ld"
    BY <2>3 DEF Turn
  <2>9. /\ issued.inst = m.inst /\ issued.bad = m.bad
        /\ On(issued, q) => CoreInv(issued, G \ {q})
        /\ ~On(issued, q) => CoreInv(issued, G)
    <3>1. CoreInv(m, G) /\ line \in Lines
      BY <2>1, <2>4
    <3>2. MayAsk(m, G, "READ", q)
      BY <2>8 DEF MayAsk
    <3> QED
      BY <2>7, <3>1, <3>2, Asked
  <2>10. Tame(c, issued) /\ Steady(c, issued, {q})
    BY <2>4, <2>9 DEF Tame, Steady
  <2>11. CASE OnLine(issued, q)
    <3>1. Shape(issued)
      BY <2>9 DEF CoreInv
    <3>2. On(issued, q) /\ CoreInv(issued, G \ {q})
      BY <2>9, <2>11, <3>1, OnIsDetached
    <3> QED
      BY <1>4, <2>10, <2>11, <3>2
  <2>12. CASE ~OnLine(issued, q)
    <3>1. d = CompleteLoad(issued, q)
      BY <1>4, <2>12
    <3>2. CoreInv(issued, G \ {q}) \/ CoreInv(issued, G)
      BY <2>9
    <3>3. ~OnStore(issued, q)
      <4>1. ~On(m, q)
        BY <2>4, InLimbo
      <4>2. Shape(m)
        BY <2>4 DEF CoreInv
      <4>3. ~OnStore(m, q)
        BY <4>1, <4>2, OnIsDetached
      <4> QED
        BY <2>9, <4>3 DEF OnStore
    <3>4. ~On(issued, q)
      <4>1. Shape(issued)
        BY <3>2 DEF CoreInv
      <4> QED
        BY <2>12, <3>3, <4>1, OnIsDetached
    <3>5. CoreInv(issued, G)
      BY <2>9, <3>4
    <3>6. CoreInv(d, G \ {q}) /\ Tame(issued, d) /\ Steady(issued, d, {q})
      BY <2>8, <2>9, <3>1, <3>5, LoadCompletes
    <3> QED
      BY <2>10, <3>6, TameTwice, SteadyTwice
  <2> QED
    BY <2>11, <2>12
<1> HIDE DEF blocker, line, r, issued, blocked, covered
<1>5. covered \in BOOLEAN
  BY DEF covered, Covers
<1>6. \/ d = CompleteLoad(c, q)
      \/ d = blocked /\ blocker # NoQ
      \/ load.ext # {} /\ d = IF OnLine(issued, q) THEN issued ELSE CompleteLoad(issued, q)
  BY <1>1, <1>5
<1> QED
  BY <1>2, <1>3, <1>4, <1>6

(* DynamicInst::schedule of a load that a store woke. *)
LEMMA LoadIsWoken ==
  ASSUME NEW c, NEW G, CoreInv(c, G), NEW q \in G, c.inst[q].uop.op = "ld",
         NEW d, d = WakeLoad(c, q)
  PROVE  CoreInv(d, G \ {q}) /\ Tame(c, d) /\ Steady(c, d, {q})
  BY LoadExecutes, LoadCompletes DEF WakeLoad

(* Induction on the natural numbers, for a set instead of a predicate. *)
LEMMA InductionOverSet ==
  ASSUME NEW S, 0 \in S, \A i \in Nat : i \in S => i + 1 \in S
  PROVE  Nat \subseteq S
<1> SUFFICES ASSUME Nat \ S # {} PROVE FALSE
  OBVIOUS
<1>1. Nat \ S \subseteq Nat
  OBVIOUS
<1>2. Min(Nat \ S) \in Nat \ S /\ \A y \in Nat \ S : Min(Nat \ S) <= y
  BY <1>1, MinOfNats
<1> DEFINE x == Min(Nat \ S)
<1> HIDE DEF x
<1>3. x \in Nat /\ x \notin S /\ \A y \in Nat \ S : x <= y
  BY <1>2 DEF x
<1>4. x - 1 \in Nat /\ x - 1 \in S /\ (x - 1) + 1 = x
  BY <1>3
<1> QED
  BY <1>3, <1>4

(* The cores while the loads of a list are woken in turn. *)
LoadsInTurn(w, c, list, n) ==
  w = [i \in 0 .. n |-> IF i = 0 THEN c ELSE WakeLoad(w[i - 1], list[i].q)]

(* The recursive function of WakeLoads exists. *)
LEMMA WakeLoadsExists ==
  ASSUME NEW c, NEW list, NEW n \in Nat
  PROVE  \E w : LoadsInTurn(w, c, list, n)
<1> DEFINE Fold(m, w) == w = [i \in 0 .. m |-> IF i = 0 THEN c ELSE WakeLoad(w[i - 1], list[i].q)]
           T == {m \in Nat : \E w : Fold(m, w)}
<1>1. 0 \in T
  <2>1. Fold(0, [i \in 0 .. 0 |-> c])
    OBVIOUS
  <2> QED
    BY <2>1
<1>2. ASSUME NEW m \in Nat, m \in T PROVE m + 1 \in T
  <2>1. PICK w : Fold(m, w)
    BY <1>2
  <2> DEFINE x == [i \in 0 .. m + 1 |-> IF i <= m THEN w[i] ELSE WakeLoad(w[m], list[m + 1].q)]
  <2>2. \A i \in 0 .. m + 1 : x[i] = IF i = 0 THEN c ELSE WakeLoad(x[i - 1], list[i].q)
    <3> SUFFICES ASSUME NEW i \in 0 .. m + 1
                 PROVE  x[i] = IF i = 0 THEN c ELSE WakeLoad(x[i - 1], list[i].q)
      OBVIOUS
    <3>1. CASE i <= m
      <4>1. x[i] = IF i = 0 THEN c ELSE WakeLoad(w[i - 1], list[i].q)
        BY <2>1, <3>1
      <4>2. i # 0 => x[i - 1] = w[i - 1]
        BY <3>1
      <4> QED
        BY <4>1, <4>2
    <3>2. CASE i = m + 1
      <4>1. x[i] = WakeLoad(w[m], list[i].q) /\ x[i - 1] = w[m] /\ i # 0
        BY <3>2
      <4> QED
        BY <4>1
    <3> QED
      BY <3>1, <3>2
  <2>3. Fold(m + 1, x)
    BY <2>2
  <2> HIDE DEF x, Fold
  <2> QED
    BY <2>3
<1> HIDE DEF T
<1>3. n \in T
  BY <1>1, <1>2, InductionOverSet
<1> QED
  BY <1>3 DEF T, LoadsInTurn

(* The instructions that a list names. *)
Names(list) == {list[i].q : i \in DOMAIN list}

(* WaitList::wakeupAll: the loads of a list have all been woken. *)
LEMMA LoadsAreWoken ==
  ASSUME NEW c, NEW G, CoreInv(c, G), NEW list, list \in Seq(Waiter),
         \A i \in DOMAIN list : list[i].q \in G /\ c.inst[list[i].q].uop.op = "ld",
         \A i, j \in DOMAIN list : list[i].q = list[j].q => i = j,
         NEW d, d = WakeLoads(c, list)
  PROVE  CoreInv(d, G \ Names(list)) /\ Tame(c, d)
<1> DEFINE n == Len(list)
           w == CHOOSE w : w = [i \in 0 .. n |-> IF i = 0 THEN c ELSE WakeLoad(w[i - 1], list[i].q)]
           Left(k) == G \ {list[i].q : i \in 1 .. k}
           T == {k \in Nat : k <= n => CoreInv(w[k], Left(k)) /\ Tame(c, w[k])}
<1>1. n \in Nat /\ DOMAIN list = 1 .. n /\ d = w[n]
  BY DEF WakeLoads
<1>2. w = [i \in 0 .. n |-> IF i = 0 THEN c ELSE WakeLoad(w[i - 1], list[i].q)]
  <2> HIDE DEF n
  <2>1. \E x : LoadsInTurn(x, c, list, n)
    BY <1>1, WakeLoadsExists
  <2>2. w = CHOOSE x : LoadsInTurn(x, c, list, n)
    BY DEF LoadsInTurn
  <2>3. LoadsInTurn(w, c, list, n)
    <3> HIDE DEF w
    <3> QED
      BY <2>1, <2>2
  <2> HIDE DEF w
  <2> QED
    BY <2>3 DEF LoadsInTurn
<1> HIDE DEF w, n
<1>3. 0 \in T
  <2>1. w[0] = c /\ Left(0) = G
    BY <1>1, <1>2
  <2>2. Tame(c, c)
    BY DEF Tame
  <2> HIDE DEF Left
  <2> QED
    BY <2>1, <2>2
<1>4. ASSUME NEW k \in Nat, k \in T PROVE k + 1 \in T
  <2> SUFFICES ASSUME k + 1 <= n PROVE CoreInv(w[k + 1], Left(k + 1)) /\ Tame(c, w[k + 1])
    OBVIOUS
  <2> DEFINE q == list[k + 1].q
  <2>1. CoreInv(w[k], Left(k)) /\ Tame(c, w[k])
    BY <1>1, <1>4
  <2>2. q \in Left(k) /\ c.inst[q].uop.op = "ld"
    BY <1>1
  <2>3. w[k + 1] = WakeLoad(w[k], q)
    BY <1>1, <1>2
  <2>4. Left(k + 1) = Left(k) \ {q}
    <3>1. 1 .. (k + 1) = 1 .. k \cup {k + 1}
      OBVIOUS
    <3> QED
      BY <3>1
  <2> HIDE DEF q, Left
  <2>5. w[k].inst[q].uop.op = "ld"
    <3>1. q \in DOMAIN w[k].inst
      BY <2>1, <2>2, InLimbo
    <3> QED
      BY <2>1, <2>2, <3>1 DEF Tame
  <2>6. CoreInv(w[k + 1], Left(k) \ {q}) /\ Tame(w[k], w[k + 1])
    BY <2>1, <2>2, <2>3, <2>5, LoadIsWoken
  <2>7. Tame(c, w[k + 1])
    BY <2>1, <2>6, TameTwice
  <2>8. CoreInv(w[k + 1], Left(k + 1))
    BY <2>4, <2>6
  <2> QED
    BY <2>7, <2>8
<1>5. n \in T
  <2> HIDE DEF T
  <2> QED
    BY <1>1, <1>3, <1>4, InductionOverSet
<1>6. Left(n) = G \ Names(list)
  BY <1>1 DEF Names
<1> HIDE DEF Left
<1>7. CoreInv(w[n], Left(n)) /\ Tame(c, w[n])
  BY <1>1, <1>5
<1> QED
  BY <1>1, <1>6, <1>7

-----------------------------------------------------------------------------
(* Stores, and the loads they wake.                                        *)

(* From c to d the store q issues, and its list is emptied.                *)
Issue(c, d, q, list) ==
  /\ list = c.inst[q].storeWaiters
  /\ DOMAIN d = CoreFields /\ DOMAIN d.inst = DOMAIN c.inst
  /\ d.lines = c.lines /\ d.lsq = c.lsq /\ d.bad = c.bad
  /\ \A p \in DOMAIN c.inst :
       /\ DOMAIN d.inst[p] = InstFields
       /\ d.inst[p].uop = c.inst[p].uop /\ d.inst[p].pc = c.inst[p].pc
       /\ d.inst[p].src = c.inst[p].src /\ d.inst[p].ext = c.inst[p].ext
       /\ p # q => /\ d.inst[p].stage = c.inst[p].stage
                   /\ d.inst[p].storeWaiters = c.inst[p].storeWaiters
  /\ d.inst[q].stage = "MEMORY" /\ d.inst[q].storeWaiters = <<>>

(* A store issues: the loads that wait for it leave its list, to be woken. *)
LEMMA StoreIssues ==
  ASSUME NEW c, CoreInv(c, {}), NEW q \in DOMAIN c.inst, c.inst[q].uop.op = "st",
         c.inst[q].stage = "EXECUTE", c.inst[q].ext # {}, ~On(c, q), NEW d, NEW list, Issue(c, d, q, list),
         NEW H, H = Names(list)
  PROVE  /\ CoreInv(d, H) /\ Tame(c, d)
         /\ list \in Seq(Waiter)
         /\ \A i \in DOMAIN list : d.inst[list[i].q].uop.op = "ld"
         /\ \A i, j \in DOMAIN list : list[i].q = list[j].q => i = j
<1> USE DEF Issue, Names
<1> DEFINE x == <<"store", q>>
<1>0. Shape(c) /\ (\A p \in DOMAIN c.inst : InstOK(c, p)) /\ NoQ \notin DOMAIN c.inst
  BY DEF CoreInv, Shape, NoQ
<1>1. x \in Places(c) /\ WaitList(c, x) = list /\ WaitList(d, x) = <<>> /\ x[1] = "store"
  BY DEF Places, WaitList
<1>2. Places(d) = Places(c)
  BY DEF Places
<1>3. ASSUME NEW y \in Places(c), y # x PROVE WaitList(d, y) = WaitList(c, y)
  <2>1. CASE y \in {"line"} \X Lines
    BY <1>3, <2>1 DEF WaitList
  <2>2. CASE y \in {"store"} \X DOMAIN c.inst
    <3>1. y[2] # q /\ y[1] # "line" /\ y[2] \in DOMAIN c.inst
      BY <1>3, <2>2
    <3> QED
      BY <3>1 DEF WaitList
  <2> QED
    BY <2>1, <2>2 DEF Places
<1> HIDE DEF x
<1>4. \A i \in DOMAIN list : /\ list[i].q # NoQ /\ list[i].q \in DOMAIN c.inst
                             /\ IsMemory(c.inst[list[i].q].uop) /\ c.inst[list[i].q].uop.op = "ld"
                             /\ c.inst[list[i].q].stage \in {"EXECUTE", "MEMORY"}
  <2> SUFFICES ASSUME NEW i \in DOMAIN list
               PROVE  /\ list[i].q # NoQ /\ list[i].q \in DOMAIN c.inst
                      /\ IsMemory(c.inst[list[i].q].uop) /\ c.inst[list[i].q].uop.op = "ld"
                      /\ c.inst[list[i].q].stage \in {"EXECUTE", "MEMORY"}
    OBVIOUS
  <2>1. EntryOK(c, x, list[i])
    BY <1>1 DEF CoreInv
  <2> QED
    BY <1>1, <2>1 DEF EntryOK
<1>5. \A i, j \in DOMAIN list : list[i].q = list[j].q => i = j
  <2>1. Alone(c)
    BY DEF CoreInv
  <2> SUFFICES ASSUME NEW i \in DOMAIN list, NEW j \in DOMAIN list, list[i].q = list[j].q
               PROVE  i = j
    OBVIOUS
  <2>2. list[i].q # NoQ
    BY <1>4
  <2> HIDE DEF Issue, Names
  <2>3. WaitList(c, x) = list
    BY <1>1
  <2> QED
    BY ONLY <1>1, <2>1, <2>2, <2>3, i \in DOMAIN list, j \in DOMAIN list, list[i].q = list[j].q
       DEF Alone
<1>6. list \in Seq(Waiter)
  BY <1>0, <1>1 DEF Shape
<1>7. Shape(d)
  <2>1. ASSUME NEW y \in Places(d) PROVE WaitList(d, y) \in Seq(Waiter)
    <3>1. CASE y = x
      BY <1>1, <3>1
    <3>2. CASE y # x
      BY <1>0, <1>2, <1>3, <3>2 DEF Shape
    <3> QED
      BY <3>1, <3>2
  <2> QED
    BY <1>0, <2>1 DEF Shape
<1>8. ASSUME NEW p \in DOMAIN d.inst PROVE InstOK(d, p)
  <2>1. InstOK(c, p)
    BY <1>0
  <2>2. CASE p = q
    BY <2>1, <2>2 DEF InstOK, Early, Stages
  <2>3. CASE p # q
    BY <2>1, <2>3 DEF InstOK
  <2> QED
    BY <2>2, <2>3
<1>9. \A p : On(d, p) => On(c, p)
  <2> SUFFICES ASSUME NEW p, On(d, p) PROVE On(c, p)
    OBVIOUS
  <2>1. PICK y \in Places(c) : \E i \in DOMAIN WaitList(d, y) : WaitList(d, y)[i].q = p
    BY <1>2 DEF On
  <2>2. y # x
    BY <1>1, <2>1
  <2> QED
    BY <1>3, <2>1, <2>2 DEF On
<1>10. \A p : On(c, p) /\ p \notin H => On(d, p)
  <2> SUFFICES ASSUME NEW p, On(c, p), p \notin H PROVE On(d, p)
    OBVIOUS
  <2>1. PICK y \in Places(c) : \E i \in DOMAIN WaitList(c, y) : WaitList(c, y)[i].q = p
    BY DEF On
  <2>2. y # x
    BY <1>1, <2>1
  <2> QED
    BY <1>2, <1>3, <2>1, <2>2 DEF On
<1>11. \A p \in H : ~On(d, p)
  <2> SUFFICES ASSUME NEW j \in DOMAIN list, On(d, list[j].q) PROVE FALSE
    OBVIOUS
  <2>1. PICK y \in Places(c) : \E i \in DOMAIN WaitList(d, y) : WaitList(d, y)[i].q = list[j].q
    BY <1>2 DEF On
  <2>2. y # x
    <3>1. DOMAIN <<>> = {}
      OBVIOUS
    <3> QED
      BY <1>1, <2>1, <3>1
  <2>3. PICK i \in DOMAIN WaitList(c, y) : WaitList(c, y)[i].q = list[j].q
    BY <1>3, <2>1, <2>2
  <2>4. WaitList(c, x)[j] = list[j] /\ j \in DOMAIN WaitList(c, x) /\ list[j].q # NoQ
    BY <1>1, <1>4
  <2>5. Alone(c)
    BY DEF CoreInv
  <2> QED
    BY <1>1, <2>2, <2>3, <2>4, <2>5 DEF Alone
<1>12. Waited(d, H)
  <2>1. ASSUME NEW p \in DOMAIN d.inst, d.inst[p].uop.op = "ld", d.inst[p].stage = "MEMORY", p \notin H
        PROVE  On(d, p)
    <3>1. p # q
      BY <2>1
    <3>2. On(c, p)
      BY <2>1, <3>1 DEF CoreInv, Waited
    <3> QED
      BY <1>10, <2>1, <3>2
  <2>2. ASSUME NEW p \in H
        PROVE  /\ p \in DOMAIN d.inst /\ IsMemory(d.inst[p].uop)
               /\ d.inst[p].stage \in {"EXECUTE", "MEMORY"} /\ ~On(d, p)
    <3>1. p \in DOMAIN c.inst /\ IsMemory(c.inst[p].uop) /\ c.inst[p].stage \in {"EXECUTE", "MEMORY"}
      BY <1>4, <2>2
    <3> QED
      BY <1>11, <2>2, <3>1
  <2> QED
    BY <2>1, <2>2 DEF Waited
<1>13. \A y \in Places(d) : Part(WaitList(d, y), WaitList(c, y))
  BY <1>1, <1>2, <1>3, PartOfItself, PartIsEmpty
<1>14. \A p \in DOMAIN d.inst : Owner(c, d, p)
  BY DEF Owner, MemoryIssued
<1>15. ASSUME NEW p \in DOMAIN c.inst PROVE Guest(c, d, p)
  BY <1>9 DEF Guest
<1>16. CoreInv(d, H)
  BY <1>7, <1>8, <1>12, <1>13, <1>14, <1>15, Changed
<1>17. Tame(c, d)
  BY DEF Tame
<1>18. \A i \in DOMAIN list : d.inst[list[i].q].uop.op = "ld"
  BY <1>4
<1> QED
  BY <1>5, <1>6, <1>16, <1>17, <1>18

(* DynamicInst::execute of a store: the loads that wait for it are woken,  *)
(* and the line is prefetched.                                             *)
LEMMA StoreExecutes ==
  ASSUME NEW c, CoreInv(c, {}), NEW q \in DOMAIN c.inst, c.inst[q].uop.op = "st",
         c.inst[q].stage = "EXECUTE", ~On(c, q),
         NEW d, d = ExecuteStore(c, q)
  PROVE  CoreInv(d, {}) /\ Tame(c, d)
<1> DEFINE value == c.inst[q].uop.val[Cond(SourceValue(c, q))]
           word == SetValue(Operand(c.inst[q]), [b \in c.inst[q].ext |-> value]).val
           valued == [c EXCEPT !.inst[q].val = word]
           wrong == StoreSearch(valued.inst, valued.lsq, q)
           searched == IF wrong = NoQ THEN valued
                       ELSE [valued EXCEPT !.inst[wrong].ordering = TRUE]
           issued == [searched EXCEPT !.inst[q].stage = "MEMORY", !.inst[q].storeWaiters = <<>>]
           list == c.inst[q].storeWaiters
           line == RequestLine(c, q)
           woken == WakeLoads(issued, list)
           done == [c EXCEPT !.inst[q].stage = "COMPLETE"]
<1>0. Shape(c) /\ InstOK(c, q) /\ \A p \in DOMAIN c.inst : InstOK(c, p)
  BY DEF CoreInv
<1>1. d = IF c.inst[q].ext = {} THEN done ELSE Request(woken, line, "WRITE", NoQ)
  BY DEF ExecuteStore
<1>2. CASE c.inst[q].ext = {} /\ d = done
  <2>1. Turn(c, d, q, "COMPLETE")
    BY <1>0, <1>2, ValuesSet
  <2>2. c.inst[q].storeWaiters = <<>>
    BY <1>2, NoWaiters
  <2>3. CoreInv(d, {} \ {q}) /\ Tame(c, d)
    BY <2>1, <2>2, Turned
  <2> QED
    BY <2>3
<1>3. CASE c.inst[q].ext # {} /\ d = Request(woken, line, "WRITE", NoQ)
  <2>0. DOMAIN c = CoreFields /\ \A p \in DOMAIN c.inst : DOMAIN c.inst[p] = InstFields
    BY <1>0 DEF Shape, InstOK
  <2> HIDE DEF word, wrong, list, line, woken
  <2>1. /\ DOMAIN valued = CoreFields /\ valued.lines = c.lines /\ valued.lsq = c.lsq /\ valued.bad = c.bad
        /\ valued.inst = [c.inst EXCEPT ![q].val = word]
    BY <2>0 DEF CoreFields
  <2>2. /\ DOMAIN valued.inst = DOMAIN c.inst
        /\ \A p \in DOMAIN c.inst :
             /\ DOMAIN valued.inst[p] = InstFields
             /\ valued.inst[p].uop = c.inst[p].uop /\ valued.inst[p].pc = c.inst[p].pc
             /\ valued.inst[p].src = c.inst[p].src /\ valued.inst[p].ext = c.inst[p].ext
             /\ valued.inst[p].stage = c.inst[p].stage
             /\ valued.inst[p].storeWaiters = c.inst[p].storeWaiters
    BY <2>0, <2>1 DEF InstFields
  <2> HIDE DEF valued
  <2>3. /\ DOMAIN searched = CoreFields /\ searched.lines = c.lines /\ searched.lsq = c.lsq
        /\ searched.bad = c.bad /\ DOMAIN searched.inst = DOMAIN c.inst
        /\ \A p \in DOMAIN c.inst :
             /\ DOMAIN searched.inst[p] = InstFields
             /\ searched.inst[p].uop = c.inst[p].uop /\ searched.inst[p].pc = c.inst[p].pc
             /\ searched.inst[p].src = c.inst[p].src /\ searched.inst[p].ext = c.inst[p].ext
             /\ searched.inst[p].stage = c.inst[p].stage
             /\ searched.inst[p].storeWaiters = c.inst[p].storeWaiters
    <3>1. CASE wrong = NoQ
      BY <2>1, <2>2, <3>1
    <3>2. CASE wrong # NoQ
      <4>1. /\ DOMAIN searched = CoreFields /\ searched.lines = c.lines /\ searched.lsq = c.lsq
            /\ searched.bad = c.bad /\ searched.inst = [valued.inst EXCEPT ![wrong].ordering = TRUE]
        BY <2>1, <3>2 DEF CoreFields
      <4> HIDE DEF searched
      <4> QED
        BY <2>2, <4>1 DEF InstFields
    <3> QED
      BY <3>1, <3>2
  <2> HIDE DEF searched
  <2>4. /\ DOMAIN issued = CoreFields /\ issued.lines = c.lines /\ issued.lsq = c.lsq /\ issued.bad = c.bad
        /\ issued.inst = [[searched.inst EXCEPT ![q].stage = "MEMORY"] EXCEPT ![q].storeWaiters = <<>>]
    BY <2>3 DEF CoreFields
  <2> HIDE DEF issued
  <2>5. /\ DOMAIN issued.inst = DOMAIN c.inst
        /\ issued.inst[q].stage = "MEMORY" /\ issued.inst[q].storeWaiters = <<>>
        /\ \A p \in DOMAIN c.inst :
             /\ DOMAIN issued.inst[p] = InstFields
             /\ issued.inst[p].uop = c.inst[p].uop /\ issued.inst[p].pc = c.inst[p].pc
             /\ issued.inst[p].src = c.inst[p].src /\ issued.inst[p].ext = c.inst[p].ext
             /\ p # q => /\ issued.inst[p].stage = c.inst[p].stage
                         /\ issued.inst[p].storeWaiters = c.inst[p].storeWaiters
    <3> DEFINE i == [searched.inst EXCEPT ![q].stage = "MEMORY"]
    <3>1. /\ DOMAIN i = DOMAIN c.inst /\ i[q].stage = "MEMORY"
          /\ \A p \in DOMAIN c.inst :
               /\ DOMAIN i[p] = InstFields
               /\ i[p].uop = c.inst[p].uop /\ i[p].pc = c.inst[p].pc
               /\ i[p].src = c.inst[p].src /\ i[p].ext = c.inst[p].ext
               /\ i[p].storeWaiters = c.inst[p].storeWaiters
               /\ p # q => i[p].stage = c.inst[p].stage
      BY <2>3 DEF InstFields
    <3>2. issued.inst = [i EXCEPT ![q].storeWaiters = <<>>]
      BY <2>4
    <3> HIDE DEF i
    <3> QED
      BY <3>1, <3>2 DEF InstFields
  <2>6. Issue(c, issued, q, list)
    BY <2>4, <2>5 DEF Issue, list
  <2>7. ASSUME NEW H, H = Names(list)
        PROVE  CoreInv(woken, {}) /\ Tame(c, issued) /\ Tame(issued, woken)
    <3>1. /\ CoreInv(issued, H) /\ Tame(c, issued)
          /\ list \in Seq(Waiter)
          /\ \A i \in DOMAIN list : issued.inst[list[i].q].uop.op = "ld"
          /\ \A i, j \in DOMAIN list : list[i].q = list[j].q => i = j
      BY <1>3, <2>6, <2>7, StoreIssues
    <3>2. \A i \in DOMAIN list : list[i].q \in H /\ issued.inst[list[i].q].uop.op = "ld"
      BY <2>7, <3>1 DEF Names
    <3>3. woken = WakeLoads(issued, list)
      BY DEF woken
    <3>4. CoreInv(woken, H \ Names(list)) /\ Tame(issued, woken)
      BY <3>1, <3>2, <3>3, LoadsAreWoken
    <3>5. H \ Names(list) = {}
      BY <2>7
    <3> QED
      BY <3>1, <3>4, <3>5
  <2>9. CoreInv(woken, {}) /\ Shape(woken) /\ Tame(c, issued) /\ Tame(issued, woken)
    BY <2>7 DEF CoreInv
  <2>10. line \in Lines
    BY <1>3, LineIsRequestable DEF line
  <2>11. Ask(woken, d, line, "WRITE", NoQ)
    BY <1>3, <2>9, <2>10, RequestIsMade
  <2>12. MayAsk(woken, {}, "WRITE", NoQ)
    BY DEF MayAsk
  <2>13. CoreInv(d, {}) /\ d.inst = woken.inst /\ d.bad = woken.bad
    BY <2>9, <2>10, <2>11, <2>12, Asked
  <2>14. Tame(woken, d)
    BY <2>13 DEF Tame
  <2> QED
    BY <2>9, <2>13, <2>14, TameTwice
<1> QED
  BY <1>1, <1>2, <1>3

(* A store asks for its line: it waits, or it is still to be woken. *)
LEMMA StoreAsks ==
  ASSUME NEW c, NEW G, CoreInv(c, G), NEW q \in G, c.inst[q].uop.op = "st",
         c.inst[q].stage = "MEMORY", NEW line \in Lines,
         NEW d, d = Request(c, line, "WRITE", q)
  PROVE  /\ d.inst = c.inst /\ d.bad = c.bad /\ Tame(c, d) /\ Steady(c, d, {})
         /\ OnLine(d, q) => CoreInv(d, G \ {q})
         /\ ~OnLine(d, q) => CoreInv(d, G)
<1>1. Shape(c) /\ q \in DOMAIN c.inst /\ ~On(c, q)
  BY InLimbo DEF CoreInv
<1>2. Ask(c, d, line, "WRITE", q)
  BY <1>1, RequestIsMade
<1>3. MayAsk(c, G, "WRITE", q)
  BY DEF MayAsk
<1>4. /\ d.inst = c.inst /\ d.bad = c.bad
      /\ On(d, q) => CoreInv(d, G \ {q})
      /\ ~On(d, q) => CoreInv(d, G)
  BY <1>2, <1>3, Asked
<1>5. Tame(c, d) /\ Steady(c, d, {})
  BY <1>4 DEF Tame, Steady
<1>6. ~OnStore(d, q)
  <2>1. ~OnStore(c, q)
    BY <1>1, OnIsDetached
  <2> QED
    BY <1>4, <2>1 DEF OnStore
<1>7. On(d, q) <=> OnLine(d, q)
  <2>1. Shape(d)
    BY <1>4 DEF CoreInv
  <2> QED
    BY <1>6, <2>1, OnIsDetached
<1> QED
  BY <1>4, <1>5, <1>7

(* A store whose request has been answered completes. *)
LEMMA StoreIsDone ==
  ASSUME NEW c, NEW G, CoreInv(c, G), NEW q \in G, c.inst[q].stage = "MEMORY",
         NEW d, d = [c EXCEPT !.inst[q].stage = "COMPLETE"]
  PROVE  CoreInv(d, G \ {q}) /\ Tame(c, d) /\ Steady(c, d, {q})
<1>1. /\ Shape(c) /\ q \in DOMAIN c.inst /\ ~On(c, q) /\ InstOK(c, q)
      /\ c.inst[q].storeWaiters = <<>>
  BY InLimbo DEF CoreInv
<1>2. Turn(c, d, q, "COMPLETE")
  BY <1>1, ValuesSet
<1>3. c.inst[q].stage \notin {"FETCH", "DECODE", "COMPLETE"}
  OBVIOUS
<1> QED
  BY ONLY <1>1, <1>2, <1>3, CoreInv(c, G), Turned

(* DynamicInst::wakeup of what has issued. *)
LEMMA MemoryIsWoken ==
  ASSUME NEW c, NEW G, CoreInv(c, G), NEW q \in G, c.inst[q].stage = "MEMORY",
         NEW d, d = WakeMemory(c, q)
  PROVE  CoreInv(d, G \ {q}) /\ Tame(c, d) /\ Steady(c, d, {q})
<1>1. CASE c.inst[q].uop.op = "ld"
  BY <1>1, LoadCompletes DEF WakeMemory
<1>2. CASE c.inst[q].uop.op # "ld"
  BY <1>2, StoreIsDone DEF WakeMemory
<1> QED
  BY <1>1, <1>2

(* DynamicInst::demandStore of the store at the head of the window. *)
LEMMA StoreIsDemanded ==
  ASSUME NEW c, CoreInv(c, {}), NEW q \in DOMAIN c.inst, c.inst[q].uop.op = "st",
         c.inst[q].stage = "MEMORY", Detached(c, q),
         NEW d, d = DemandStore(c, q)
  PROVE  /\ CoreInv(d, {}) /\ Tame(c, d) /\ Steady(c, d, {q})
         /\ d.inst[q].stage \in {"MEMORY", "COMPLETE"} /\ d.bad = c.bad
<1> DEFINE line == RequestLine(c, q)
           asked == Request(c, line, "WRITE", q)
           done == [asked EXCEPT !.inst[q].stage = "COMPLETE"]
<1>1. d = IF OnLine(asked, q) THEN asked ELSE done
  BY DEF DemandStore
<1>2. Shape(c) /\ InstOK(c, q) /\ ~On(c, q)
  BY OnIsDetached DEF CoreInv, Detached
<1>3. line \in Lines
  BY <1>2, LineIsRequestable DEF InstOK
<1>4. CoreInv(c, {} \cup {q})
  BY <1>2, IntoLimbo DEF IsMemory
<1>5. {} \cup {q} = {q} /\ {q} \ {q} = {}
  OBVIOUS
<1>6. CoreInv(c, {q})
  BY <1>4, <1>5
<1> HIDE DEF line, asked
<1>7. /\ asked.inst = c.inst /\ asked.bad = c.bad /\ Tame(c, asked) /\ Steady(c, asked, {})
      /\ OnLine(asked, q) => CoreInv(asked, {q} \ {q})
      /\ ~OnLine(asked, q) => CoreInv(asked, {q})
  BY <1>3, <1>6, StoreAsks DEF asked
<1>8. Steady(c, asked, {q})
  BY <1>7 DEF Steady
<1>9. CASE OnLine(asked, q)
  BY <1>1, <1>5, <1>7, <1>8, <1>9
<1>10. CASE ~OnLine(asked, q)
  <2>1. d = done /\ CoreInv(asked, {q}) /\ asked.inst[q].stage = "MEMORY"
    BY <1>1, <1>7, <1>10
  <2>2. CoreInv(d, {q} \ {q}) /\ Tame(asked, d) /\ Steady(asked, d, {q})
    BY <2>1, StoreIsDone
  <2>3. d.inst[q].stage = "COMPLETE" /\ d.bad = asked.bad
    <3>1. q \in DOMAIN asked.inst /\ InstOK(asked, q) /\ Shape(asked)
      BY <1>7, <2>1 DEF CoreInv
    <3>2. Turn(asked, d, q, "COMPLETE")
      BY <2>1, <3>1, ValuesSet
    <3> QED
      BY <3>2 DEF Turn
  <2> QED
    BY <1>5, <1>7, <1>8, <2>2, <2>3, TameTwice, SteadyTwice
<1> QED
  BY <1>9, <1>10

-----------------------------------------------------------------------------
(* Filled lines.                                                           *)

(* What a line may wake: a retry without a requester, or an instruction    *)
(* that has issued and was taken off the line's list.                      *)
Wakes(c, G, w) ==
  /\ w.q = NoQ => w.retry
  /\ w.q # NoQ => /\ w.q \in G /\ c.inst[w.q].stage = "MEMORY"
                  /\ w.retry => c.inst[w.q].uop.op = "st"

(* The wakeup of a waiter of a line. *)
LEMMA WaiterIsWoken ==
  ASSUME NEW c, NEW G, CoreInv(c, G), NEW line \in Lines, NEW w \in Waiter, Wakes(c, G, w),
         NEW d, d = WakeWaiter(c, line, w)
  PROVE  CoreInv(d, G \ {w.q}) /\ Tame(c, d) /\ Steady(c, d, {w.q})
<1> DEFINE q == w.q
           again == Request(c, line, "WRITE", q)
<1>1. d = CASE ~w.retry -> WakeMemory(c, q)
            [] w.retry /\ (q = NoQ \/ OnLine(again, q)) -> again
            [] OTHER -> WakeMemory(again, q)
  BY DEF WakeWaiter
<1>2. w.retry \in BOOLEAN /\ OnLine(again, q) \in BOOLEAN
  BY DEF Waiter, OnLine
<1>3. Shape(c)
  BY DEF CoreInv
<1> HIDE DEF again
<1>4. CASE ~w.retry
  <2>1. q \in G /\ c.inst[q].stage = "MEMORY" /\ d = WakeMemory(c, q)
    BY <1>1, <1>4 DEF Wakes
  <2> HIDE DEF q
  <2>2. CoreInv(d, G \ {q}) /\ Tame(c, d) /\ Steady(c, d, {q})
    BY <2>1, MemoryIsWoken
  <2> QED
    BY <2>2 DEF q
<1>5. CASE w.retry /\ q = NoQ
  <2>1. d = again
    BY <1>1, <1>5
  <2>2. Ask(c, d, line, "WRITE", q)
    BY <1>3, <2>1, RequestIsMade DEF again
  <2>3. MayAsk(c, G, "WRITE", q)
    BY <1>5 DEF MayAsk
  <2> HIDE DEF q
  <2>4. CoreInv(d, G) /\ d.inst = c.inst /\ d.bad = c.bad
    <3>1. /\ d.inst = c.inst /\ d.bad = c.bad
          /\ On(d, q) => CoreInv(d, G \ {q})
          /\ ~On(d, q) => CoreInv(d, G)
          /\ q = NoQ => CoreInv(d, G)
      BY <2>2, <2>3, Asked
    <3> QED
      BY <1>5, <3>1
  <2>5. G \ {q} = G
    BY <1>5 DEF CoreInv, Waited, Shape, NoQ
  <2>6. CoreInv(d, G \ {q})
    BY <2>4, <2>5
  <2>7. Tame(c, d) /\ Steady(c, d, {q})
    BY <2>4 DEF Tame, Steady
  <2> QED
    BY <2>6, <2>7 DEF q
<1>6. CASE w.retry /\ q # NoQ
  <2>1. q \in G /\ c.inst[q].stage = "MEMORY" /\ c.inst[q].uop.op = "st"
    BY <1>6 DEF Wakes
  <2>2. d = IF OnLine(again, q) THEN again ELSE WakeMemory(again, q)
    BY <1>1, <1>2, <1>6
  <2>0. again = Request(c, line, "WRITE", q)
    BY DEF again
  <2> HIDE DEF q
  <2>3. /\ again.inst = c.inst /\ Tame(c, again) /\ Steady(c, again, {})
        /\ OnLine(again, q) => CoreInv(again, G \ {q})
        /\ ~OnLine(again, q) => CoreInv(again, G)
    BY <2>0, <2>1, StoreAsks
  <2>4. Steady(c, again, {q})
    BY <2>3 DEF Steady
  <2>5. CASE OnLine(again, q)
    BY <2>2, <2>3, <2>4, <2>5 DEF q
  <2>6. CASE ~OnLine(again, q)
    <3>1. CoreInv(d, G \ {q}) /\ Tame(again, d) /\ Steady(again, d, {q})
      BY <2>1, <2>2, <2>3, <2>6, MemoryIsWoken
    <3>2. Tame(c, d) /\ Steady(c, d, {q})
      BY <2>3, <2>4, <3>1, TameTwice, SteadyTwice
    <3> QED
      BY <3>1, <3>2 DEF q
  <2> QED
    BY <2>5, <2>6
<1> QED
  BY <1>2, <1>4, <1>5, <1>6

(* w wakes the first n waiters of the list, one after the other.           *)
WakesInTurn(w, b, line, list, n) ==
  w = [i \in 0 .. n |-> IF i = 0 THEN b ELSE WakeWaiter(w[i - 1], line, list[i])]

(* The recursive function of FillRequest exists. *)
LEMMA WakeWaitersExists ==
  ASSUME NEW b, NEW line, NEW list, NEW n \in Nat
  PROVE  \E w : WakesInTurn(w, b, line, list, n)
<1> DEFINE Fold(m, w) == w = [i \in 0 .. m |-> IF i = 0 THEN b ELSE WakeWaiter(w[i - 1], line, list[i])]
           T == {m \in Nat : \E w : Fold(m, w)}
<1>1. 0 \in T
  <2>1. Fold(0, [i \in 0 .. 0 |-> b])
    OBVIOUS
  <2> QED
    BY <2>1
<1>2. ASSUME NEW m \in Nat, m \in T PROVE m + 1 \in T
  <2>1. PICK w : Fold(m, w)
    BY <1>2
  <2> DEFINE x == [i \in 0 .. m + 1 |-> IF i <= m THEN w[i] ELSE WakeWaiter(w[m], line, list[m + 1])]
  <2>2. \A i \in 0 .. m + 1 : x[i] = IF i = 0 THEN b ELSE WakeWaiter(x[i - 1], line, list[i])
    <3> SUFFICES ASSUME NEW i \in 0 .. m + 1
                 PROVE  x[i] = IF i = 0 THEN b ELSE WakeWaiter(x[i - 1], line, list[i])
      OBVIOUS
    <3>1. CASE i <= m
      <4>1. x[i] = IF i = 0 THEN b ELSE WakeWaiter(w[i - 1], line, list[i])
        BY <2>1, <3>1
      <4>2. i # 0 => x[i - 1] = w[i - 1]
        BY <3>1
      <4> QED
        BY <4>1, <4>2
    <3>2. CASE i = m + 1
      <4>1. x[i] = WakeWaiter(w[m], line, list[i]) /\ x[i - 1] = w[m] /\ i # 0
        BY <3>2
      <4> QED
        BY <4>1
    <3> QED
      BY <3>1, <3>2
  <2>3. Fold(m + 1, x)
    BY <2>2
  <2> HIDE DEF x, Fold
  <2> QED
    BY <2>3
<1> HIDE DEF T
<1>3. n \in T
  BY <1>1, <1>2, InductionOverSet
<1> QED
  BY <1>3 DEF T, WakesInTurn

(* What a filled line has to wake. *)
Woken(c, list, H) ==
  /\ list \in Seq(Waiter)
  /\ \A i \in DOMAIN list : Wakes(c, H, list[i])
  /\ \A i, j \in DOMAIN list : list[i].q = list[j].q /\ list[i].q # NoQ => i = j
  /\ H \subseteq Names(list)

(* The line is no longer requested, and its waiters are taken off it. *)
LEMMA LineIsFilled ==
  ASSUME NEW c, CoreInv(c, {}), NEW line \in Lines, NEW list, list = c.lines[line].wait,
         NEW d, d = [c EXCEPT !.lines[line] = Idle], NEW H, H = Names(list) \ {NoQ}
  PROVE  CoreInv(d, H) /\ Tame(c, d) /\ Woken(d, list, H)
<1> DEFINE x == <<"line", line>>
<1>0. Shape(c) /\ (\A p \in DOMAIN c.inst : InstOK(c, p)) /\ NoQ \notin DOMAIN c.inst
  BY DEF CoreInv, Shape, NoQ
<1>a. /\ DOMAIN d = CoreFields /\ d.inst = c.inst /\ d.lsq = c.lsq /\ d.bad = c.bad
      /\ d.lines = [c.lines EXCEPT ![line] = Idle]
  BY <1>0 DEF Shape, CoreFields
<1>b. /\ DOMAIN d.lines = Lines
      /\ d.lines[line].type = "none" /\ d.lines[line].wait = <<>>
      /\ DOMAIN d.lines[line] = {"type", "wait"}
      /\ \A l \in Lines : l # line => d.lines[l] = c.lines[l]
  BY <1>0, <1>a DEF Shape, Idle
<1>1. x \in Places(c) /\ WaitList(c, x) = list /\ WaitList(d, x) = <<>> /\ x[1] = "line"
  BY <1>b DEF Places, WaitList
<1>2. Places(d) = Places(c)
  BY <1>a DEF Places
<1>3. ASSUME NEW y \in Places(c), y # x PROVE WaitList(d, y) = WaitList(c, y)
  <2>1. CASE y \in {"line"} \X Lines
    <3>1. y[1] = "line" /\ y[2] \in Lines /\ y[2] # line
      BY <1>3, <2>1
    <3> QED
      BY <1>b, <3>1 DEF WaitList
  <2>2. CASE y \in {"store"} \X DOMAIN c.inst
    BY <1>a, <2>2 DEF WaitList
  <2> QED
    BY <2>1, <2>2 DEF Places
<1> HIDE DEF x
<1>4. ASSUME NEW i \in DOMAIN list
      PROVE  /\ list[i].q = NoQ => list[i].retry
             /\ list[i].q # NoQ => /\ list[i].q \in DOMAIN c.inst
                                   /\ IsMemory(c.inst[list[i].q].uop)
                                   /\ c.inst[list[i].q].stage = "MEMORY"
                                   /\ list[i].retry => c.inst[list[i].q].uop.op = "st"
  <2>1. EntryOK(c, x, list[i])
    BY <1>1 DEF CoreInv
  <2> QED
    BY <1>1, <2>1 DEF EntryOK
<1>5. \A i, j \in DOMAIN list : list[i].q = list[j].q /\ list[i].q # NoQ => i = j
  BY <1>1 DEF CoreInv, Alone
<1>6. list \in Seq(Waiter)
  BY <1>0, <1>1 DEF Shape
<1>7. Shape(d)
  <2>1. ASSUME NEW y \in Places(d) PROVE WaitList(d, y) \in Seq(Waiter)
    <3>1. CASE y = x
      BY <1>1, <3>1
    <3>2. CASE y # x
      BY <1>0, <1>2, <1>3, <3>2 DEF Shape
    <3> QED
      BY <3>1, <3>2
  <2>2. \A l \in Lines : /\ DOMAIN d.lines[l] = {"type", "wait"}
                         /\ d.lines[l].type = "none" => d.lines[l].wait = <<>>
    BY <1>0, <1>b DEF Shape
  <2> QED
    BY <1>0, <1>a, <1>b, <2>1, <2>2 DEF Shape
<1>8. \A p \in DOMAIN d.inst : InstOK(d, p)
  BY <1>0, <1>a DEF InstOK
<1>9. \A p : On(d, p) => On(c, p)
  <2> SUFFICES ASSUME NEW p, On(d, p) PROVE On(c, p)
    OBVIOUS
  <2>1. PICK y \in Places(c) : \E i \in DOMAIN WaitList(d, y) : WaitList(d, y)[i].q = p
    BY <1>2 DEF On
  <2>2. y # x
    BY <1>1, <2>1
  <2> QED
    BY <1>3, <2>1, <2>2 DEF On
<1>10. \A p \in DOMAIN c.inst : On(c, p) /\ p \notin H => On(d, p)
  <2> SUFFICES ASSUME NEW p \in DOMAIN c.inst, On(c, p), p \notin H PROVE On(d, p)
    OBVIOUS
  <2>1. PICK y \in Places(c) : \E i \in DOMAIN WaitList(c, y) : WaitList(c, y)[i].q = p
    BY DEF On
  <2>2. y # x
    BY <1>0, <1>1, <2>1 DEF Names
  <2> QED
    BY <1>2, <1>3, <2>1, <2>2 DEF On
<1>11. \A p \in H : ~On(d, p)
  <2> SUFFICES ASSUME NEW p \in H, On(d, p) PROVE FALSE
    OBVIOUS
  <2>0. PICK j \in DOMAIN list : list[j].q = p
    BY DEF Names
  <2>1. PICK y \in Places(c) : \E i \in DOMAIN WaitList(d, y) : WaitList(d, y)[i].q = p
    BY <1>2 DEF On
  <2>2. y # x
    <3>1. DOMAIN <<>> = {}
      OBVIOUS
    <3> QED
      BY <1>1, <2>1, <3>1
  <2>3. PICK i \in DOMAIN WaitList(c, y) : WaitList(c, y)[i].q = p
    BY <1>3, <2>1, <2>2
  <2>4. WaitList(c, x)[j] = list[j] /\ j \in DOMAIN WaitList(c, x) /\ p # NoQ
    BY <1>1, <2>0
  <2>5. Alone(c)
    BY DEF CoreInv
  <2> QED
    BY <1>1, <2>0, <2>2, <2>3, <2>4, <2>5 DEF Alone
<1>12. \A p \in H : p \in DOMAIN c.inst /\ IsMemory(c.inst[p].uop) /\ c.inst[p].stage = "MEMORY"
  <2> SUFFICES ASSUME NEW p \in H
               PROVE  p \in DOMAIN c.inst /\ IsMemory(c.inst[p].uop) /\ c.inst[p].stage = "MEMORY"
    OBVIOUS
  <2>1. PICK i \in DOMAIN list : list[i].q = p /\ p # NoQ
    BY DEF Names
  <2> QED
    BY <1>4, <2>1
<1>13. Waited(d, H)
  <2>1. ASSUME NEW p \in DOMAIN d.inst, d.inst[p].uop.op = "ld", d.inst[p].stage = "MEMORY", p \notin H
        PROVE  On(d, p)
    BY <1>a, <1>10, <2>1 DEF CoreInv, Waited
  <2>2. ASSUME NEW p \in H
        PROVE  /\ p \in DOMAIN d.inst /\ IsMemory(d.inst[p].uop)
               /\ d.inst[p].stage \in {"EXECUTE", "MEMORY"} /\ ~On(d, p)
    BY <1>a, <1>11, <1>12, <2>2
  <2> QED
    BY <2>1, <2>2 DEF Waited
<1>14. \A y \in Places(d) : Part(WaitList(d, y), WaitList(c, y))
  BY <1>1, <1>2, <1>3, PartOfItself, PartIsEmpty
<1>15. \A p \in DOMAIN d.inst : Owner(c, d, p)
  BY <1>a DEF Owner
<1>16. ASSUME NEW p \in DOMAIN c.inst PROVE Guest(c, d, p)
  BY <1>a DEF Guest
<1>17. \A p \in DOMAIN d.inst : p \in DOMAIN c.inst /\ d.inst[p].uop = c.inst[p].uop
  BY <1>a
<1>18. Tame(c, d)
  BY <1>a DEF Tame
<1>19. Woken(d, list, H)
  <2>1. \A i \in DOMAIN list : Wakes(d, H, list[i])
    <3> SUFFICES ASSUME NEW i \in DOMAIN list PROVE Wakes(d, H, list[i])
      OBVIOUS
    <3>1. list[i].q # NoQ => list[i].q \in H
      BY DEF Names
    <3> QED
      BY ZenonT(30), <1>a, <1>4, <3>1 DEF Wakes
  <2> QED
    BY <1>5, <1>6, <2>1 DEF Woken
<1>20. CoreInv(d, H)
  BY <1>7, <1>8, <1>13, <1>14, <1>15, <1>16, <1>17, Changed
<1> QED
  BY <1>18, <1>19, <1>20

(* MemoryInterface::fillRequest: everything that waited for the line has   *)
(* been woken, or waits again.                                             *)
LEMMA LineFills ==
  ASSUME NEW c, CoreInv(c, {}), NEW line \in Lines, NEW d, d = FillRequest(c, line)
  PROVE  CoreInv(d, {}) /\ Tame(c, d)
<1> DEFINE list == c.lines[line].wait
           n == Len(list)
           b == [c EXCEPT !.lines[line] = Idle]
           w == CHOOSE w : w = [i \in 0 .. n |-> IF i = 0 THEN b ELSE WakeWaiter(w[i - 1], line, list[i])]
           H == Names(list) \ {NoQ}
           Left(k) == H \ {list[i].q : i \in 1 .. k}
           Later(k) == \A i \in DOMAIN list : i > k /\ list[i].q # NoQ =>
                         w[k].inst[list[i].q].stage = "MEMORY"
           T == {k \in Nat : k <= n => CoreInv(w[k], Left(k)) /\ Tame(c, w[k]) /\ Tame(b, w[k]) /\ Later(k)}
<1>1. list \in Seq(Waiter) /\ CoreInv(b, H) /\ Tame(c, b) /\ Woken(b, list, H)
  <2> HIDE DEF list, b, H
  <2>1. CoreInv(b, H) /\ Tame(c, b) /\ Woken(b, list, H)
    BY LineIsFilled DEF list, b, H
  <2> QED
    BY <2>1 DEF Woken
<1>2. n \in Nat /\ DOMAIN list = 1 .. n /\ d = w[n]
  <2>1. d = w[n]
    BY DEF FillRequest
  <2>2. n \in Nat /\ DOMAIN list = 1 .. n
    <3> HIDE DEF list
    <3> QED
      BY <1>1
  <2> QED
    BY <2>1, <2>2
<1> HIDE DEF list, b, H
<1>3. w = [i \in 0 .. n |-> IF i = 0 THEN b ELSE WakeWaiter(w[i - 1], line, list[i])]
  <2> HIDE DEF n
  <2>1. \E x : WakesInTurn(x, b, line, list, n)
    BY <1>2, WakeWaitersExists
  <2>2. w = CHOOSE x : WakesInTurn(x, b, line, list, n)
    BY DEF WakesInTurn
  <2>3. WakesInTurn(w, b, line, list, n)
    <3> HIDE DEF w
    <3> QED
      BY <2>1, <2>2
  <2> HIDE DEF w
  <2> QED
    BY <2>3 DEF WakesInTurn
<1> HIDE DEF w, n
<1>a. /\ \A i \in DOMAIN list : Wakes(b, H, list[i]) /\ list[i] \in Waiter
      /\ \A i, j \in DOMAIN list : list[i].q = list[j].q /\ list[i].q # NoQ => i = j
  <2>1. \A i \in DOMAIN list : list[i] \in Waiter
    BY <1>1
  <2>2. /\ \A i \in DOMAIN list : Wakes(b, H, list[i])
        /\ \A i, j \in DOMAIN list : list[i].q = list[j].q /\ list[i].q # NoQ => i = j
    BY <1>1 DEF Woken
  <2> QED
    BY <2>1, <2>2
<1>4. 0 \in T
  <2>1. w[0] = b /\ Left(0) = H
    BY <1>2, <1>3
  <2>2. Tame(b, b)
    BY DEF Tame
  <2>3. Later(0)
    BY <1>a, <2>1 DEF Wakes
  <2> HIDE DEF Left, Later
  <2> QED
    BY <1>1, <2>1, <2>2, <2>3
<1>5. ASSUME NEW k \in Nat, k \in T PROVE k + 1 \in T
  <2> SUFFICES ASSUME k + 1 <= n
               PROVE  /\ CoreInv(w[k + 1], Left(k + 1)) /\ Tame(c, w[k + 1])
                      /\ Tame(b, w[k + 1]) /\ Later(k + 1)
    OBVIOUS
  <2> DEFINE v == list[k + 1]
             q == v.q
  <2>1. CoreInv(w[k], Left(k)) /\ Tame(c, w[k]) /\ Tame(b, w[k]) /\ Later(k)
    BY <1>2, <1>5
  <2>2. k + 1 \in DOMAIN list /\ Wakes(b, H, v) /\ v \in Waiter
    BY <1>2, <1>a
  <2>3. w[k + 1] = WakeWaiter(w[k], line, v)
    BY <1>2, <1>3
  <2>4. Left(k + 1) = Left(k) \ {q}
    <3>1. 1 .. (k + 1) = 1 .. k \cup {k + 1}
      OBVIOUS
    <3> QED
      BY <3>1
  <2>5. q # NoQ => q \in Left(k) /\ w[k].inst[q].stage = "MEMORY" /\ q \in DOMAIN w[k].inst
    <3> SUFFICES ASSUME q # NoQ
                 PROVE  q \in Left(k) /\ w[k].inst[q].stage = "MEMORY" /\ q \in DOMAIN w[k].inst
      OBVIOUS
    <3>1. q \in H
      BY <2>2 DEF Wakes
    <3>2. q \notin {list[i].q : i \in 1 .. k}
      BY <1>2, <1>a, <2>2
    <3>3. w[k].inst[q].stage = "MEMORY"
      BY <2>1, <2>2
    <3>4. q \in Left(k)
      BY <3>1, <3>2
    <3> HIDE DEF Left, q
    <3> QED
      BY <2>1, <3>3, <3>4, InLimbo
  <2>6. Wakes(w[k], Left(k), v)
    <3>1. q \in DOMAIN w[k].inst => w[k].inst[q].uop = b.inst[q].uop
      BY <2>1 DEF Tame
    <3> HIDE DEF Left, v
    <3> QED
      BY <2>2, <2>5, <3>1 DEF Wakes
  <2> HIDE DEF Left, v
  <2>7. CoreInv(w[k + 1], Left(k) \ {q}) /\ Tame(w[k], w[k + 1]) /\ Steady(w[k], w[k + 1], {q})
    BY <2>1, <2>2, <2>3, <2>6, WaiterIsWoken
  <2>8. CoreInv(w[k + 1], Left(k + 1))
    BY <2>4, <2>7
  <2>9. Tame(c, w[k + 1]) /\ Tame(b, w[k + 1])
    <3> HIDE DEF Later, q
    <3>1. Tame(w[k], w[k + 1])
      BY <2>7
    <3>2. Tame(c, w[k])
      BY <2>1
    <3>3. Tame(b, w[k])
      BY <2>1
    <3>4. Tame(c, w[k + 1])
      BY <3>1, <3>2, TameTwice
    <3>5. Tame(b, w[k + 1])
      BY <3>1, <3>3, TameTwice
    <3> QED
      BY <3>4, <3>5
  <2>10. Later(k + 1)
    <3> SUFFICES ASSUME NEW i \in DOMAIN list, i > k + 1, list[i].q # NoQ
                 PROVE  w[k + 1].inst[list[i].q].stage = "MEMORY"
      OBVIOUS
    <3>1. list[i].q # q
      BY <1>2, <1>a, <2>2 DEF v
    <3>2. w[k].inst[list[i].q].stage = "MEMORY"
      BY <1>2, <2>1
    <3>3. list[i].q \in DOMAIN w[k].inst
      <4>1. list[i].q \in H
        BY <1>a DEF Wakes
      <4>2. list[i].q \in DOMAIN b.inst
        BY <1>1, <4>1 DEF CoreInv, Waited
      <4> QED
        BY <2>1, <4>2 DEF Tame
    <3> HIDE DEF q
    <3> QED
      BY <2>7, <3>1, <3>2, <3>3 DEF Steady
  <2> QED
    BY <2>8, <2>9, <2>10
<1>6. n \in T
  <2> HIDE DEF T
  <2> QED
    BY <1>2, <1>4, <1>5, InductionOverSet
<1>7. Left(n) = {}
  BY <1>2 DEF H, Names
<1> HIDE DEF Left, Later
<1>8. CoreInv(w[n], Left(n)) /\ Tame(c, w[n])
  BY <1>2, <1>6
<1> QED
  BY <1>2, <1>7, <1>8

-----------------------------------------------------------------------------
(* Squash, flush, replay, reset and commit.                                *)

(* What Without has kept of the first k entries of a list.                 *)
Kept(new, old, k, Q) ==
  /\ new \in Seq(Waiter)
  /\ \E h \in [DOMAIN new -> 1 .. k] :
       /\ \A i, j \in DOMAIN new : h[i] = h[j] => i = j
       /\ \A i \in DOMAIN new : new[i] = old[h[i]] \/ (old[h[i]].retry /\ new[i] = Retry(NoQ))
  /\ \A i \in 1 .. k : old[i].q \notin Q => \E j \in DOMAIN new : new[j] = old[i]
  /\ \A j \in DOMAIN new : new[j].q \notin Q

(* l takes the first n entries of the list, one after the other.           *)
LeavesInTurn(l, list, Q, n) ==
  l = [i \in 0 .. n |-> IF i = 0 THEN <<>> ELSE l[i - 1] \o Remains(list[i], Q)]

(* The recursive function of Without exists. *)
LEMMA LeavesExists ==
  ASSUME NEW list, NEW Q, NEW n \in Nat
  PROVE  \E l : LeavesInTurn(l, list, Q, n)
<1> DEFINE J(s, i) == s \o Remains(list[i], Q)
           Fold(m, l) == l = [i \in 0 .. m |-> IF i = 0 THEN <<>> ELSE J(l[i - 1], i)]
           T == {m \in Nat : \E l : Fold(m, l)}
<1> HIDE DEF J
<1>1. 0 \in T
  <2>1. Fold(0, [i \in 0 .. 0 |-> <<>>])
    OBVIOUS
  <2> QED
    BY <2>1
<1>2. ASSUME NEW m \in Nat, m \in T PROVE m + 1 \in T
  <2>1. PICK w : Fold(m, w)
    BY <1>2
  <2> DEFINE x == [i \in 0 .. m + 1 |-> IF i <= m THEN w[i] ELSE J(w[m], m + 1)]
  <2>2. \A i \in 0 .. m + 1 : x[i] = IF i = 0 THEN <<>> ELSE J(x[i - 1], i)
    <3> SUFFICES ASSUME NEW i \in 0 .. m + 1
                 PROVE  x[i] = IF i = 0 THEN <<>> ELSE J(x[i - 1], i)
      OBVIOUS
    <3>1. CASE i <= m
      <4>1. x[i] = IF i = 0 THEN <<>> ELSE J(w[i - 1], i)
        BY <2>1, <3>1
      <4>2. i # 0 => x[i - 1] = w[i - 1]
        BY <3>1
      <4> QED
        BY <4>1, <4>2
    <3>2. CASE i = m + 1
      <4>1. x[i] = J(w[m], i) /\ x[i - 1] = w[m] /\ i # 0
        BY <3>2
      <4> QED
        BY <4>1
    <3> QED
      BY <3>1, <3>2
  <2>3. Fold(m + 1, x)
    BY <2>2
  <2> HIDE DEF x, Fold
  <2> QED
    BY <2>3
<1> HIDE DEF T
<1>3. n \in T
  BY <1>1, <1>2, InductionOverSet
<1> QED
  BY <1>3 DEF T, LeavesInTurn, J

(* One more entry: it stays, it loses its requester, or it leaves. *)
LEMMA OneMoreKept ==
  ASSUME NEW Q, NoQ \notin Q, NEW old, old \in Seq(Waiter), NEW k \in Nat, k + 1 \in DOMAIN old,
         NEW new, Kept(new, old, k, Q), NEW s,
         s = new \o Remains(old[k + 1], Q)
  PROVE  Kept(s, old, k + 1, Q)
<1>1. PICK h \in [DOMAIN new -> 1 .. k] :
       /\ \A i, j \in DOMAIN new : h[i] = h[j] => i = j
       /\ \A i \in DOMAIN new : new[i] = old[h[i]] \/ (old[h[i]].retry /\ new[i] = Retry(NoQ))
  BY DEF Kept
<1>2. /\ new \in Seq(Waiter)
      /\ \A i \in 1 .. k : old[i].q \notin Q => \E j \in DOMAIN new : new[j] = old[i]
      /\ \A j \in DOMAIN new : new[j].q \notin Q
  BY DEF Kept
<1>3. 1 .. (k + 1) = 1 .. k \cup {k + 1}
  OBVIOUS
<1>4. CASE old[k + 1].q \in Q /\ s = new
  <2>1. h \in [DOMAIN s -> 1 .. k + 1]
    BY <1>1, <1>4
  <2>2. \A i \in 1 .. k + 1 : old[i].q \notin Q => \E j \in DOMAIN s : s[j] = old[i]
    BY <1>2, <1>3, <1>4
  <2> QED
    <3>1. \E g \in [DOMAIN s -> 1 .. k + 1] :
            /\ \A i, j \in DOMAIN s : g[i] = g[j] => i = j
            /\ \A i \in DOMAIN s : s[i] = old[g[i]] \/ (old[g[i]].retry /\ s[i] = Retry(NoQ))
      BY <1>1, <1>4, <2>1
    <3> QED
      BY <1>2, <1>4, <2>2, <3>1 DEF Kept
<1>5. ASSUME NEW w \in Waiter, s = Append(new, w), w.q \notin Q,
             w = old[k + 1] \/ (old[k + 1].retry /\ w = Retry(NoQ)),
             old[k + 1].q \notin Q => w = old[k + 1]
      PROVE  Kept(s, old, k + 1, Q)
  <2> DEFINE m == Len(new)
  <2>1. /\ m \in Nat /\ s \in Seq(Waiter) /\ DOMAIN new = 1 .. m /\ DOMAIN s = 1 .. m + 1
        /\ s[m + 1] = w /\ \A i \in 1 .. m : s[i] = new[i]
    BY <1>2, <1>5
  <2> HIDE DEF m
  <2> DEFINE g == [i \in 1 .. m + 1 |-> IF i = m + 1 THEN k + 1 ELSE h[i]]
  <2>2. /\ g[m + 1] = k + 1 /\ \A i \in 1 .. m : g[i] = h[i] /\ h[i] \in 1 .. k
        /\ 1 .. (m + 1) = 1 .. m \cup {m + 1}
        /\ DOMAIN g = 1 .. m + 1
    BY <1>1, <2>1
  <2>3. g \in [DOMAIN s -> 1 .. k + 1]
    BY <1>1, <1>3, <2>1
  <2> HIDE DEF g
  <2>4. \A i, j \in DOMAIN s : g[i] = g[j] => i = j
    <3> SUFFICES ASSUME NEW i \in DOMAIN s, NEW j \in DOMAIN s, g[i] = g[j] PROVE i = j
      OBVIOUS
    <3>1. k + 1 \notin 1 .. k
      OBVIOUS
    <3>2. i \in 1 .. m \cup {m + 1} /\ j \in 1 .. m \cup {m + 1}
      BY <2>1, <2>2
    <3>3. CASE i = m + 1 /\ j = m + 1
      BY <3>3
    <3>4. CASE i \in 1 .. m /\ j = m + 1
      BY <2>2, <3>1, <3>4
    <3>5. CASE i = m + 1 /\ j \in 1 .. m
      BY <2>2, <3>1, <3>5
    <3>6. CASE i \in 1 .. m /\ j \in 1 .. m
      <4>1. h[i] = h[j] /\ i \in DOMAIN new /\ j \in DOMAIN new
        BY <2>1, <2>2, <3>6
      <4> QED
        BY <1>1, <4>1
    <3> QED
      BY <3>2, <3>3, <3>4, <3>5, <3>6
  <2>5. \A i \in DOMAIN s : s[i] = old[g[i]] \/ (old[g[i]].retry /\ s[i] = Retry(NoQ))
    <3> SUFFICES ASSUME NEW i \in DOMAIN s
                 PROVE  s[i] = old[g[i]] \/ (old[g[i]].retry /\ s[i] = Retry(NoQ))
      OBVIOUS
    <3>1. CASE i = m + 1
      BY <1>5, <2>1, <2>2, <3>1
    <3>2. CASE i # m + 1
      <4>1. i \in DOMAIN new /\ s[i] = new[i] /\ g[i] = h[i]
        BY <2>1, <2>2, <3>2
      <4> QED
        BY <1>1, <4>1
    <3> QED
      BY <3>1, <3>2
  <2>6. \A i \in 1 .. k + 1 : old[i].q \notin Q => \E j \in DOMAIN s : s[j] = old[i]
    <3> SUFFICES ASSUME NEW i \in 1 .. k + 1, old[i].q \notin Q
                 PROVE  \E j \in DOMAIN s : s[j] = old[i]
      OBVIOUS
    <3>1. CASE i = k + 1
      <4>1. m + 1 \in DOMAIN s /\ s[m + 1] = old[i]
        BY <1>5, <2>1, <3>1
      <4> QED
        BY <4>1
    <3>2. CASE i # k + 1
      <4>1. PICK j \in DOMAIN new : new[j] = old[i]
        BY <1>2, <1>3, <3>2
      <4>2. j \in DOMAIN s /\ s[j] = old[i]
        BY <2>1, <4>1
      <4> QED
        BY <4>2
    <3> QED
      BY <3>1, <3>2
  <2>7. \A j \in DOMAIN s : s[j].q \notin Q
    BY <1>2, <1>5, <2>1, <2>2
  <2> QED
    BY <2>1, <2>3, <2>4, <2>5, <2>6, <2>7 DEF Kept
<1>6. CASE old[k + 1].q \notin Q
  <2>1. old[k + 1] \in Waiter
    OBVIOUS
  <2> DEFINE w == old[k + 1]
  <2>2. s = new \o <<w>>
    BY <1>6 DEF Remains
  <2> HIDE DEF w
  <2>3. s = Append(new, w)
    BY <1>2, <2>1, <2>2 DEF w
  <2> QED
    BY <1>5, <1>6, <2>1, <2>3 DEF w
<1>7. CASE old[k + 1].q \in Q /\ old[k + 1].retry
  <2> DEFINE w == Retry(NoQ)
  <2>1. w \in Waiter /\ w.q \notin Q
    BY DEF Retry, Waiter, NoQ
  <2>2. s = new \o <<w>>
    BY <1>7 DEF Remains
  <2> HIDE DEF w
  <2>3. s = Append(new, w)
    BY <1>2, <2>1, <2>2
  <2> QED
    BY <1>5, <1>7, <2>1, <2>3 DEF w
<1>8. CASE old[k + 1].q \in Q /\ ~old[k + 1].retry
  <2>1. s = new \o <<>>
    BY <1>8 DEF Remains
  <2>2. s = new
    BY <1>2, <2>1
  <2> QED
    BY <1>4, <1>8, <2>2
<1> QED
  BY <1>6, <1>7, <1>8

(* Waiter::detach: who is not of Q stays on the list. *)
LEMMA OthersStay ==
  ASSUME NEW Q, NoQ \notin Q, NEW list, list \in Seq(Waiter), NEW s, s = Without(list, Q)
  PROVE  /\ s \in Seq(Waiter) /\ Part(s, list)
         /\ \A i \in DOMAIN list : list[i].q \notin Q => \E j \in DOMAIN s : s[j] = list[i]
         /\ \A j \in DOMAIN s : s[j].q \notin Q
         /\ list = <<>> => s = <<>>
<1> DEFINE n == Len(list)
           l == CHOOSE l : LeavesInTurn(l, list, Q, n)
           T == {k \in Nat : k <= n => Kept(l[k], list, k, Q)}
<1>1. n \in Nat /\ DOMAIN list = 1 .. n
  OBVIOUS
<1>2. s = l[n]
  BY DEF Without, LeavesInTurn
<1>3. LeavesInTurn(l, list, Q, n)
  <2> HIDE DEF l, n
  <2> QED
    BY <1>1, LeavesExists DEF l
<1> HIDE DEF l, n
<1>4. l[0] = <<>>
  BY <1>1, <1>3 DEF LeavesInTurn
<1>5. 0 \in T
  <2>1. DOMAIN <<>> = {}
    OBVIOUS
  <2>2. [i \in {} |-> i] \in [DOMAIN l[0] -> 1 .. 0]
    BY <1>4, <2>1
  <2>3. l[0] \in Seq(Waiter)
    BY <1>4
  <2>4. \E h \in [DOMAIN l[0] -> 1 .. 0] :
          /\ \A i, j \in DOMAIN l[0] : h[i] = h[j] => i = j
          /\ \A i \in DOMAIN l[0] : l[0][i] = list[h[i]] \/ (list[h[i]].retry /\ l[0][i] = Retry(NoQ))
    BY <1>4, <2>1, <2>2
  <2>5. DOMAIN l[0] = {} /\ 1 .. 0 = {}
    BY <1>4, <2>1
  <2>6. /\ \A i \in 1 .. 0 : list[i].q \notin Q => \E j \in DOMAIN l[0] : l[0][j] = list[i]
        /\ \A j \in DOMAIN l[0] : l[0][j].q \notin Q
    BY <2>5
  <2>7. Kept(l[0], list, 0, Q)
    BY <2>3, <2>4, <2>6 DEF Kept
  <2> QED
    BY <2>7
<1>6. ASSUME NEW k \in Nat, k \in T PROVE k + 1 \in T
  <2> SUFFICES ASSUME k + 1 <= n PROVE Kept(l[k + 1], list, k + 1, Q)
    OBVIOUS
  <2>1. Kept(l[k], list, k, Q) /\ k + 1 \in DOMAIN list
    BY <1>1, <1>6
  <2>2. l[k + 1] = l[k] \o Remains(list[k + 1], Q)
    BY <1>1, <1>3 DEF LeavesInTurn
  <2> QED
    BY <2>1, <2>2, OneMoreKept
<1>7. n \in T
  <2> HIDE DEF T
  <2> QED
    BY <1>1, <1>5, <1>6, InductionOverSet
<1>8. Kept(s, list, n, Q)
  BY <1>1, <1>2, <1>7
<1>9. list = <<>> => s = <<>>
  BY <1>2, <1>4 DEF n
<1> QED
  BY <1>1, <1>8, <1>9 DEF Kept, Part

(* From c to d the instructions of Q are squashed, or gone.                *)
Squashed(c, d, Q) ==
  /\ DOMAIN d = CoreFields /\ NoQ \notin Q
  /\ DOMAIN d.inst \subseteq DOMAIN c.inst /\ DOMAIN c.inst \ Q \subseteq DOMAIN d.inst
  /\ d.lsq = c.lsq \ Q /\ d.bad \in Nat
  /\ \A p \in DOMAIN d.inst \ Q : c.inst[p].stage = "WAIT_RB" /\ c.bad <= p => d.bad <= p
  /\ DOMAIN d.lines = Lines
  /\ \A l \in Lines : /\ DOMAIN d.lines[l] = {"type", "wait"}
                      /\ d.lines[l].type = c.lines[l].type
                      /\ d.lines[l].wait = Without(c.lines[l].wait, Q)
  /\ \A p \in DOMAIN d.inst : DOMAIN d.inst[p] = InstFields
                              /\ d.inst[p].uop = c.inst[p].uop /\ d.inst[p].pc = c.inst[p].pc
  /\ \A p \in DOMAIN d.inst \ Q :
       /\ d.inst[p].stage = c.inst[p].stage /\ d.inst[p].src = c.inst[p].src
       /\ d.inst[p].ext = c.inst[p].ext
       /\ d.inst[p].storeWaiters = Without(c.inst[p].storeWaiters, Q)
  /\ \A p \in DOMAIN d.inst \cap Q :
       /\ d.inst[p].stage = "FETCH" /\ d.inst[p].src = NoQ /\ d.inst[p].ext = {}
       /\ d.inst[p].storeWaiters = <<>>

(* Whoever waits for an instruction of Q is in Q itself.                   *)
Closed(c, Q) ==
  \A p \in DOMAIN c.inst \cap Q, r \in DOMAIN c.inst :
    r > p => r \in Q \/ c.inst[r].stage \notin {"EXECUTE", "MEMORY"}

(* The wait lists of what is left. *)
LEMMA ListsAreLeft ==
  ASSUME NEW c, CoreInv(c, {}), NEW d, NEW Q, Squashed(c, d, Q), NEW x \in Places(d)
  PROVE  /\ x \in Places(c) /\ WaitList(d, x) \in Seq(Waiter) /\ Part(WaitList(d, x), WaitList(c, x))
         /\ WaitList(c, x) = <<>> => WaitList(d, x) = <<>>
         /\ \A j \in DOMAIN WaitList(d, x) : WaitList(d, x)[j].q \notin Q
         /\ ~(x[1] = "store" /\ x[2] \in Q) =>
              \A i \in DOMAIN WaitList(c, x) : WaitList(c, x)[i].q \notin Q =>
                \E j \in DOMAIN WaitList(d, x) : WaitList(d, x)[j] = WaitList(c, x)[i]
<1>1. x \in Places(c)
  BY DEF Places, Squashed
<1>2. WaitList(c, x) \in Seq(Waiter) /\ NoQ \notin Q
  BY <1>1 DEF CoreInv, Shape, Squashed
<1>3. x[1] = "store" => x[2] \in DOMAIN d.inst
  BY DEF Places
<1>4. CASE x[1] = "store" /\ x[2] \in Q
  <2>1. WaitList(d, x) = <<>>
    BY <1>3, <1>4 DEF WaitList, Squashed
  <2>2. DOMAIN <<>> = {}
    OBVIOUS
  <2> QED
    BY <1>1, <1>4, <2>1, <2>2, PartIsEmpty
<1>5. CASE ~(x[1] = "store" /\ x[2] \in Q)
  <2>1. WaitList(d, x) = Without(WaitList(c, x), Q)
    <3>1. CASE x \in {"line"} \X Lines
      BY <3>1 DEF WaitList, Squashed
    <3>2. CASE x \in {"store"} \X DOMAIN d.inst
      BY <1>5, <3>2 DEF WaitList, Squashed
    <3> QED
      BY <3>1, <3>2 DEF Places
  <2> DEFINE s == WaitList(d, x)
             list == WaitList(c, x)
  <2>2. list \in Seq(Waiter) /\ s = Without(list, Q)
    BY <1>2, <2>1
  <2> HIDE DEF s, list
  <2>3. /\ s \in Seq(Waiter) /\ Part(s, list)
        /\ \A i \in DOMAIN list : list[i].q \notin Q => \E j \in DOMAIN s : s[j] = list[i]
        /\ \A j \in DOMAIN s : s[j].q \notin Q
        /\ list = <<>> => s = <<>>
    BY <1>2, <2>2, OthersStay
  <2> QED
    BY <1>1, <1>5, <2>3 DEF s, list
<1> QED
  BY <1>4, <1>5

(* DynamicInst::squash keeps the invariant of the core. *)
LEMMA SquashKeepsCore ==
  ASSUME NEW c, CoreInv(c, {}), NEW d, NEW Q, Squashed(c, d, Q), Closed(c, Q)
  PROVE  CoreInv(d, {})
<1>1. /\ Shape(c) /\ \A p \in DOMAIN c.inst : InstOK(c, p)
      /\ DOMAIN d.inst \subseteq DOMAIN c.inst /\ DOMAIN c.inst \subseteq Nat
  BY DEF CoreInv, Shape, Squashed
<1>2. Shape(d)
  <2>1. \A x \in Places(d) : WaitList(d, x) \in Seq(Waiter)
    BY ListsAreLeft
  <2>2. ASSUME NEW l \in Lines, d.lines[l].type = "none" PROVE d.lines[l].wait = <<>>
    <3>1. c.lines[l].wait = <<>>
      BY <1>1, <2>2 DEF Shape, Squashed
    <3>2. <<"line", l>> \in Places(d) /\ WaitList(d, <<"line", l>>) = d.lines[l].wait
          /\ WaitList(c, <<"line", l>>) = c.lines[l].wait
      BY DEF Places, WaitList
    <3> QED
      BY <3>1, <3>2, ListsAreLeft
  <2>3. d.lsq \subseteq DOMAIN d.inst
    BY <1>1 DEF Shape, Squashed
  <2> QED
    BY <1>1, <2>1, <2>2, <2>3 DEF Shape, Squashed
<1>3. ASSUME NEW p \in DOMAIN d.inst PROVE InstOK(d, p)
  <2>1. InstOK(c, p) /\ p \in Nat
    BY <1>1
  <2>2. CASE p \in Q
    BY <2>1, <2>2 DEF InstOK, Squashed, Stages, NoQ
  <2>3. CASE p \notin Q
    BY <2>1, <2>3 DEF InstOK, Squashed
  <2> QED
    BY <2>2, <2>3
<1>4. \A p : On(d, p) => p \notin Q
  BY ListsAreLeft DEF On
<1>5. ASSUME NEW p \in DOMAIN d.inst \ Q, On(c, p) PROVE On(d, p)
  <2>1. PICK x \in Places(c) : \E i \in DOMAIN WaitList(c, x) : WaitList(c, x)[i].q = p
    BY <1>5 DEF On
  <2>2. PICK i \in DOMAIN WaitList(c, x) : WaitList(c, x)[i].q = p
    BY <2>1
  <2>3. EntryOK(c, x, WaitList(c, x)[i]) /\ p # NoQ
    BY <1>1 DEF CoreInv, NoQ
  <2>4. x[1] = "store" => x[2] \in DOMAIN c.inst /\ x[2] \notin Q
    <3> SUFFICES ASSUME x[1] = "store" PROVE x[2] \in DOMAIN c.inst /\ x[2] \notin Q
      OBVIOUS
    <3>1. x[2] \in DOMAIN c.inst
      BY DEF Places
    <3>2. p \in DOMAIN c.inst /\ x[2] < p /\ c.inst[p].stage \in {"EXECUTE", "MEMORY"}
      BY <2>2, <2>3 DEF EntryOK
    <3> QED
      BY <1>1, <3>1, <3>2 DEF Closed
  <2>5. x \in Places(d)
    <3>1. x[1] = "store" => x[2] \in DOMAIN d.inst
      BY <2>4 DEF Squashed
    <3> QED
      BY <3>1 DEF Places
  <2>6. \E j \in DOMAIN WaitList(d, x) : WaitList(d, x)[j] = WaitList(c, x)[i]
    BY <1>5, <2>2, <2>4, <2>5, ListsAreLeft
  <2> QED
    BY <2>2, <2>5, <2>6 DEF On
<1>6. Waited(d, {})
  <2>1. ASSUME NEW p \in DOMAIN d.inst, d.inst[p].uop.op = "ld", d.inst[p].stage = "MEMORY"
        PROVE  On(d, p)
    <3>1. p \notin Q
      BY <2>1 DEF Squashed
    <3>2. On(c, p)
      <4>1. c.inst[p].uop.op = "ld" /\ c.inst[p].stage = "MEMORY" /\ p \in DOMAIN c.inst
        BY <2>1, <3>1 DEF Squashed
      <4> QED
        BY <4>1 DEF CoreInv, Waited
    <3> QED
      BY <1>5, <3>1, <3>2
  <2> QED
    BY <2>1 DEF Waited
<1>7. \A p \in DOMAIN d.inst : p \in DOMAIN c.inst /\ d.inst[p].uop = c.inst[p].uop
  BY DEF Squashed
<1>8. \A x \in Places(d) : Part(WaitList(d, x), WaitList(c, x))
  BY ListsAreLeft
<1>9. ASSUME NEW p \in DOMAIN d.inst PROVE Owner(c, d, p)
  BY DEF Owner, Squashed, MemoryIssued
<1>10. ASSUME NEW p \in DOMAIN c.inst PROVE Guest(c, d, p)
  <2>1. CASE On(d, p)
    <3>1. p \notin Q
      BY <1>4, <2>1
    <3> QED
      BY <3>1 DEF Guest, Squashed
  <2>2. CASE ~On(d, p)
    BY <2>2 DEF Guest
  <2> QED
    BY <2>1, <2>2
<1> QED
  BY <1>2, <1>3, <1>6, <1>7, <1>8, <1>9, <1>10, Changed

(* DynamicInst::squash *)
LEMMA SquashSquashes ==
  ASSUME NEW c, Shape(c), \A p \in DOMAIN c.inst : InstOK(c, p), NEW Q, NoQ \notin Q,
         NEW d, d = Squash(c, Q)
  PROVE  Squashed(c, d, Q) /\ DOMAIN d.inst = DOMAIN c.inst /\ d.bad = c.bad
<1> DEFINE off == Detach(c, Q)
           old == [p \in DOMAIN c.inst |-> [c.inst[p] EXCEPT !.storeWaiters = Without(c.inst[p].storeWaiters, Q)]]
           Clean(f) == [p \in DOMAIN f |-> IF p \notin Q THEN f[p]
                       ELSE [f[p] EXCEPT !.stage = "FETCH", !.src = NoQ, !.ext = {},
                          !.val = NoBytes, !.reg = NoBytes, !.unaligned = FALSE,
                          !.ordering = FALSE, !.consistency = FALSE, !.check = FALSE,
                          !.storeWaiters = <<>>]]
           clean == Clean(old)
<1>0. DOMAIN c = CoreFields /\ \A p \in DOMAIN c.inst : DOMAIN c.inst[p] = InstFields
  BY DEF Shape, InstOK
<1>1. /\ DOMAIN off = CoreFields /\ off.lsq = c.lsq /\ off.bad = c.bad /\ off.inst = old
      /\ off.lines = [l \in DOMAIN c.lines |-> [c.lines[l] EXCEPT !.wait = Without(c.lines[l].wait, Q)]]
  BY <1>0 DEF Detach, CoreFields
<1>2. d = [off EXCEPT !.lsq = @ \ Q, !.inst = clean]
  <2>1. d = [off EXCEPT !.lsq = @ \ Q, !.inst = Clean(@)]
    BY DEF Squash
  <2> HIDE DEF off, old, Clean
  <2> QED
    BY <1>1, <2>1
<1> HIDE DEF off, clean
<1>3. /\ DOMAIN d = CoreFields /\ d.lsq = c.lsq \ Q /\ d.bad = c.bad /\ d.lines = off.lines
      /\ d.inst = clean
  BY <1>1, <1>2 DEF CoreFields
<1>4. /\ DOMAIN old = DOMAIN c.inst
      /\ \A p \in DOMAIN c.inst :
           /\ DOMAIN old[p] = InstFields
           /\ old[p].uop = c.inst[p].uop /\ old[p].pc = c.inst[p].pc
           /\ old[p].stage = c.inst[p].stage /\ old[p].src = c.inst[p].src
           /\ old[p].ext = c.inst[p].ext
           /\ old[p].storeWaiters = Without(c.inst[p].storeWaiters, Q)
  BY <1>0 DEF InstFields
<1> HIDE DEF old
<1>5. DOMAIN d.inst = DOMAIN c.inst
  BY <1>3, <1>4 DEF clean
<1>6. \A p \in DOMAIN c.inst \ Q : d.inst[p] = old[p]
  BY <1>3, <1>4 DEF clean
<1>7. ASSUME NEW p \in DOMAIN c.inst \cap Q
      PROVE  /\ DOMAIN d.inst[p] = InstFields
             /\ d.inst[p].uop = c.inst[p].uop /\ d.inst[p].pc = c.inst[p].pc
             /\ d.inst[p].stage = "FETCH" /\ d.inst[p].src = NoQ /\ d.inst[p].ext = {}
             /\ d.inst[p].storeWaiters = <<>>
  <2> DEFINE i == old[p]
  <2>1. d.inst[p] = [i EXCEPT !.stage = "FETCH", !.src = NoQ, !.ext = {},
                          !.val = NoBytes, !.reg = NoBytes, !.unaligned = FALSE,
                          !.ordering = FALSE, !.consistency = FALSE, !.check = FALSE,
                          !.storeWaiters = <<>>]
    BY <1>3, <1>4 DEF clean
  <2>2. DOMAIN i = InstFields /\ i.uop = c.inst[p].uop /\ i.pc = c.inst[p].pc
    BY <1>4
  <2> HIDE DEF i
  <2> QED
    BY <2>1, <2>2 DEF InstFields
<1>8. /\ DOMAIN d.lines = Lines
      /\ \A l \in Lines : /\ DOMAIN d.lines[l] = {"type", "wait"}
                          /\ d.lines[l].type = c.lines[l].type
                          /\ d.lines[l].wait = Without(c.lines[l].wait, Q)
  BY <1>1, <1>3 DEF Shape
<1>9. \A p \in DOMAIN d.inst : DOMAIN d.inst[p] = InstFields
                              /\ d.inst[p].uop = c.inst[p].uop /\ d.inst[p].pc = c.inst[p].pc
  <2> SUFFICES ASSUME NEW p \in DOMAIN d.inst
               PROVE  DOMAIN d.inst[p] = InstFields
                              /\ d.inst[p].uop = c.inst[p].uop /\ d.inst[p].pc = c.inst[p].pc
    OBVIOUS
  <2>1. CASE p \in Q
    BY <1>5, <1>7, <2>1
  <2>2. CASE p \notin Q
    BY <1>4, <1>5, <1>6, <2>2
  <2> QED
    BY <2>1, <2>2
<1>10. \A p \in DOMAIN d.inst \ Q :
        /\ d.inst[p].stage = c.inst[p].stage /\ d.inst[p].src = c.inst[p].src
        /\ d.inst[p].ext = c.inst[p].ext
        /\ d.inst[p].storeWaiters = Without(c.inst[p].storeWaiters, Q)
  BY <1>4, <1>5, <1>6
<1>11. d.bad \in Nat
  BY <1>3 DEF Shape
<1>12. Squashed(c, d, Q)
  BY <1>3, <1>5, <1>7, <1>8, <1>9, <1>10, <1>11 DEF Squashed
<1> QED
  BY <1>3, <1>5, <1>12

(* Processor::flushPipeline *)
LEMMA FlushSquashes ==
  ASSUME NEW c, Shape(c), \A p \in DOMAIN c.inst : InstOK(c, p), NEW from \in Nat, qHead \in Nat,
         \A p \in DOMAIN c.inst : p < qHead, NEW d, d = Flush(c, from)
  PROVE  /\ Squashed(c, d, from .. (qHead - 1))
         /\ DOMAIN d.inst = {p \in DOMAIN c.inst : p < from}
         /\ d.bad = IF c.bad >= from THEN NoBad ELSE c.bad
<1> DEFINE Q == from .. (qHead - 1)
           e == Squash(c, Q)
           kept == Restrict(e.inst, {q \in DOMAIN e.inst : q < from})
           bad == IF c.bad >= from THEN NoBad ELSE c.bad
<1>1. NoQ \notin Q
  BY DEF NoQ
<1> HIDE DEF Q, e
<1>2. Squashed(c, e, Q) /\ DOMAIN e.inst = DOMAIN c.inst /\ e.bad = c.bad
  BY <1>1, SquashSquashes DEF e
<1>3. d = [e EXCEPT !.inst = kept, !.bad = bad]
  BY <1>2 DEF Flush, e, Q
<1> HIDE DEF kept
<1>4. /\ DOMAIN d = CoreFields /\ d.inst = kept /\ d.bad = bad /\ d.lsq = e.lsq /\ d.lines = e.lines
  BY <1>2, <1>3 DEF CoreFields, Squashed
<1>5. /\ DOMAIN d.inst = {p \in DOMAIN c.inst : p < from}
      /\ \A p \in DOMAIN d.inst : d.inst[p] = e.inst[p]
  BY <1>2, <1>4 DEF kept, Restrict
<1>6. DOMAIN c.inst \ Q \subseteq DOMAIN d.inst /\ DOMAIN d.inst \cap Q = {}
  BY <1>5 DEF Q, Shape
<1>7. bad \in Nat /\ \A p \in DOMAIN d.inst \ Q : c.inst[p].stage = "WAIT_RB" /\ c.bad <= p => bad <= p
  <2>1. c.bad \in Nat /\ DOMAIN c.inst \subseteq Nat
    BY DEF Shape
  <2> QED
    BY <1>5, <2>1 DEF NoBad
<1> HIDE DEF bad
<1>8. Squashed(c, d, Q)
  BY <1>2, <1>4, <1>5, <1>6, <1>7 DEF Squashed
<1> QED
  BY <1>4, <1>5, <1>8 DEF Q, bad

(* Processor::replay *)
LEMMA ReplaySquashes ==
  ASSUME NEW c, Shape(c), \A p \in DOMAIN c.inst : InstOK(c, p), NEW from \in Nat, qRename \in Nat,
         \A p \in DOMAIN c.inst : p >= qRename => c.inst[p].stage = "FETCH",
         NEW d, d = Replay(c, from)
  PROVE  /\ Squashed(c, d, from .. (qRename - 1))
         /\ DOMAIN d.inst = DOMAIN c.inst
         /\ d.bad = IF c.bad >= from THEN NoBad ELSE c.bad
<1> DEFINE Q == from .. (qRename - 1)
           e == Squash(c, Q)
           bad == IF c.bad >= from THEN NoBad ELSE c.bad
<1>1. NoQ \notin Q
  BY DEF NoQ
<1> HIDE DEF Q, e
<1>2. Squashed(c, e, Q) /\ DOMAIN e.inst = DOMAIN c.inst /\ e.bad = c.bad
  BY <1>1, SquashSquashes DEF e
<1>3. d = [e EXCEPT !.bad = bad]
  BY <1>2 DEF Replay, e, Q
<1>4. /\ DOMAIN d = CoreFields /\ d.inst = e.inst /\ d.bad = bad /\ d.lsq = e.lsq /\ d.lines = e.lines
  BY <1>2, <1>3 DEF CoreFields, Squashed
<1>5. bad \in Nat /\ \A p \in DOMAIN d.inst \ Q : c.inst[p].stage = "WAIT_RB" /\ c.bad <= p => bad <= p
  <2>1. c.bad \in Nat /\ DOMAIN c.inst \subseteq Nat
    BY DEF Shape
  <2>2. \A p \in DOMAIN d.inst \ Q : c.inst[p].stage = "WAIT_RB" => p < from
    BY <1>2, <1>4, <2>1 DEF Q
  <2>3. bad \in Nat
    BY <2>1 DEF NoBad
  <2>4. \A p \in DOMAIN d.inst \ Q : c.inst[p].stage = "WAIT_RB" /\ c.bad <= p => bad <= p
    BY <1>2, <1>4, <2>1, <2>2
  <2> QED
    BY <2>3, <2>4
<1> HIDE DEF bad
<1>6. Squashed(c, d, Q)
  BY <1>2, <1>4, <1>5 DEF Squashed
<1> QED
  BY <1>2, <1>4, <1>6 DEF Q, bad

(* An empty window, and nobody who waits for a line. *)
LEMMA EmptyCore ==
  ASSUME NEW d, DOMAIN d = CoreFields, DOMAIN d.inst = {}, d.lsq = {}, d.bad \in Nat,
         DOMAIN d.lines = Lines,
         \A l \in Lines : DOMAIN d.lines[l] = {"type", "wait"} /\ d.lines[l].wait = <<>>
  PROVE  CoreInv(d, {})
<1>1. \A x \in Places(d) : WaitList(d, x) = <<>>
  BY DEF Places, WaitList
<1>2. DOMAIN <<>> = {} /\ <<>> \in Seq(Waiter)
  <2>1. DOMAIN <<>> = {}
    OBVIOUS
  <2> QED
    BY <2>1
<1>3. Shape(d)
  BY <1>1, <1>2 DEF Shape
<1>4. Alone(d) /\ Waited(d, {})
  BY <1>1, <1>2 DEF Alone, Waited
<1> QED
  BY <1>1, <1>2, <1>3, <1>4 DEF CoreInv

(* Processor::resetUopBuf and resetPyriteState *)
LEMMA ResetEmpties ==
  ASSUME NEW c, Shape(c), \A p \in DOMAIN c.inst : InstOK(c, p), NEW s, NEW d, d = Reset(c, s)
  PROVE  CoreInv(d, {}) /\ DOMAIN d.inst = {} /\ d.bad = NoBad
<1> DEFINE Q == DOMAIN c.inst
           e == Squash(c, Q)
           none == [q \in {} |-> 0]
           lines == [l \in Lines |-> [e.lines[l] EXCEPT !.wait = <<>>]]
<1>1. NoQ \notin Q
  BY DEF NoQ, Shape
<1> HIDE DEF e, Q
<1>2. Squashed(c, e, Q)
  BY <1>1, SquashSquashes DEF e
<1>3. d = [e EXCEPT !.inst = none, !.lsq = {}, !.bad = NoBad, !.lines = lines, !.mem = s.mem, !.old = s.r]
  BY DEF Reset, e, Q
<1> HIDE DEF lines, none
<1>4. /\ DOMAIN d = CoreFields /\ d.inst = none /\ d.lsq = {} /\ d.bad = NoBad /\ d.lines = lines
  BY <1>2, <1>3 DEF CoreFields, Squashed
<1>5. /\ DOMAIN lines = Lines
      /\ \A l \in Lines : DOMAIN lines[l] = {"type", "wait"} /\ lines[l].wait = <<>>
  BY <1>2 DEF lines, Squashed
<1>6. DOMAIN none = {} /\ NoBad \in Nat
  BY DEF none, NoBad
<1> QED
  BY <1>4, <1>5, <1>6, EmptyCore

(* From c to d the instructions up to n, which are complete, have left.    *)
Committed(c, d, n) ==
  /\ DOMAIN d = CoreFields /\ d.lines = c.lines /\ d.bad = c.bad
  /\ DOMAIN d.inst = {p \in DOMAIN c.inst : p > n}
  /\ \A p \in DOMAIN d.inst : d.inst[p] = c.inst[p]
  /\ d.lsq = {p \in c.lsq : p > n}
  /\ \A p \in DOMAIN c.inst : p <= n => c.inst[p].stage = "COMPLETE"

(* Who has committed was on no list, and nobody waited for it. *)
LEMMA CommitKeepsCore ==
  ASSUME NEW c, CoreInv(c, {}), NEW n \in Nat, NEW d, Committed(c, d, n)
  PROVE  CoreInv(d, {})
<1>1. Shape(c) /\ \A p \in DOMAIN c.inst : InstOK(c, p)
  BY DEF CoreInv
<1>2. \A x \in Places(d) : x \in Places(c) /\ WaitList(d, x) = WaitList(c, x)
  <2> SUFFICES ASSUME NEW x \in Places(d) PROVE x \in Places(c) /\ WaitList(d, x) = WaitList(c, x)
    OBVIOUS
  <2>1. CASE x \in {"line"} \X Lines
    BY <2>1 DEF Places, WaitList, Committed
  <2>2. CASE x \in {"store"} \X DOMAIN d.inst
    BY <2>2 DEF Places, WaitList, Committed
  <2> QED
    BY <2>1, <2>2 DEF Places
<1>3. \A x \in Places(c) : WaitList(c, x) # <<>> => x \in Places(d)
  <2> SUFFICES ASSUME NEW x \in Places(c), WaitList(c, x) # <<>> PROVE x \in Places(d)
    OBVIOUS
  <2>1. CASE x \in {"line"} \X Lines
    BY <2>1 DEF Places
  <2>2. CASE x \in {"store"} \X DOMAIN c.inst
    <3>1. x[2] \in DOMAIN c.inst /\ x[1] = "store" /\ c.inst[x[2]].storeWaiters # <<>>
      BY <2>2 DEF WaitList
    <3>2. ~MemoryIssued(c.inst[x[2]])
      BY <3>1, NoWaiters
    <3>3. x[2] \in DOMAIN d.inst
      BY <1>1, <3>1, <3>2 DEF MemoryIssued, Committed, Shape
    <3> QED
      BY <2>2, <3>3 DEF Places
  <2> QED
    BY <2>1, <2>2 DEF Places
<1>4. \A q : On(d, q) <=> On(c, q)
  <2> SUFFICES ASSUME NEW q PROVE On(d, q) <=> On(c, q)
    OBVIOUS
  <2>1. ASSUME On(d, q) PROVE On(c, q)
    BY <1>2, <2>1 DEF On
  <2>2. ASSUME On(c, q) PROVE On(d, q)
    <3>1. PICK x \in Places(c) : \E i \in DOMAIN WaitList(c, x) : WaitList(c, x)[i].q = q
      BY <2>2 DEF On
    <3>2. WaitList(c, x) # <<>>
      <4>1. DOMAIN <<>> = {}
        OBVIOUS
      <4> QED
        BY <3>1, <4>1
    <3> QED
      BY <1>2, <1>3, <3>1, <3>2 DEF On
  <2> QED
    BY <2>1, <2>2
<1>5. Shape(d)
  BY <1>1, <1>2 DEF Shape, Committed
<1>6. \A p \in DOMAIN d.inst : InstOK(d, p)
  BY <1>1 DEF InstOK, Committed
<1>7. Waited(d, {})
  <2>1. ASSUME NEW p \in DOMAIN d.inst, d.inst[p].uop.op = "ld", d.inst[p].stage = "MEMORY"
        PROVE  On(d, p)
    <3>1. p \in DOMAIN c.inst /\ d.inst[p] = c.inst[p]
      BY DEF Committed
    <3> QED
      BY <1>4, <2>1, <3>1 DEF CoreInv, Waited
  <2> QED
    BY <2>1 DEF Waited
<1>8. \A p \in DOMAIN d.inst : p \in DOMAIN c.inst /\ d.inst[p].uop = c.inst[p].uop
  BY DEF Committed
<1>9. \A x \in Places(d) : Part(WaitList(d, x), WaitList(c, x))
  BY <1>2, PartOfItself
<1>10. ASSUME NEW p \in DOMAIN d.inst PROVE Owner(c, d, p)
  BY <1>5 DEF Owner, Committed, Shape
<1>11. ASSUME NEW p \in DOMAIN c.inst PROVE Guest(c, d, p)
  <2>1. CASE On(d, p)
    <3>1. On(c, p) /\ p # NoQ
      BY <1>1, <1>4, <2>1 DEF Shape, NoQ
    <3>2. c.inst[p].stage \in {"EXECUTE", "MEMORY"}
      BY <3>1, WaitersHaveIssued
    <3>3. p \in DOMAIN d.inst
      BY <1>1, <3>2 DEF Committed, Shape
    <3> QED
      BY <3>3 DEF Guest, Committed
  <2>2. CASE ~On(d, p)
    BY <2>2 DEF Guest
  <2> QED
    BY <2>1, <2>2
<1> QED
  BY <1>5, <1>6, <1>7, <1>8, <1>9, <1>10, <1>11, Changed

-----------------------------------------------------------------------------
(* The steps of the processor.                                             *)

(* The invariant of the core, of a next state. *)
LEMMA CoreInvNext ==
  ASSUME CoreInv(core', {}), prog' = prog
  PROVE  CoreInv(core, {})'
<1>1. Shape(core)'
  BY DEF CoreInv, Shape, Places, WaitList
<1>2. (\A q \in DOMAIN core.inst : InstOK(core, q))'
  BY DEF CoreInv, InstOK, WellFormed
<1>3. (\A x \in Places(core) : \A i \in DOMAIN WaitList(core, x) : EntryOK(core, x, WaitList(core, x)[i]))'
  BY DEF CoreInv, EntryOK, Places, WaitList, MemoryIssued, Overlaps, Operand, IsMemory
<1>4. Alone(core)'
  BY DEF CoreInv, Alone, Places, WaitList
<1>5. Waited(core, {})'
  BY DEF CoreInv, Waited, On, Places, WaitList, IsMemory
<1> QED
  BY <1>1, <1>2, <1>3, <1>4, <1>5 DEF CoreInv

(* What completes or issues keeps its position. *)
LEMMA TameKeepsPositions ==
  ASSUME NEW c, Shape(c), NEW t \in Nat, NEW r \in Nat, NEW e \in Nat, NEW n \in Nat, NEW h \in Nat,
         PositionsOK(c, t, r, e, n, h), NEW d, Tame(c, d)
  PROVE  PositionsOK(d, t, r, e, n, h)
<1>1. DOMAIN d.inst = t .. (h - 1)
  BY DEF PositionsOK, Tame
<1>2. ASSUME NEW q \in DOMAIN d.inst
      PROVE  /\ q < r => d.inst[q].stage = "COMPLETE"
             /\ q >= e => d.inst[q].stage \in {"FETCH", "DECODE", "COMPLETE"}
             /\ q >= n => d.inst[q].stage = "FETCH"
  BY DEF PositionsOK, Tame
<1>3. d.bad # NoBad => r <= d.bad /\ d.bad <= h
  <2>1. CASE d.bad = c.bad
    BY <2>1 DEF PositionsOK
  <2>2. CASE d.bad \in DOMAIN c.inst /\ c.inst[d.bad].stage # "COMPLETE"
    BY <2>2 DEF PositionsOK, Shape
  <2> QED
    BY <2>1, <2>2 DEF Tame
<1> QED
  BY <1>1, <1>2, <1>3 DEF PositionsOK

(* ... and leaves fetch alone. *)
LEMMA TameKeepsFetch ==
  ASSUME IInv, Tame(core, core'), UNCHANGED <<prog, qTail, qHead, fetchRip, sim>>
  PROVE  FetchOK'
<1>1. qHead \in Nat /\ qTail \in Nat /\ DOMAIN core.inst = qTail .. (qHead - 1) /\ FetchOK
  BY DEF IInv, CoreOK, WindowInv, Positions, PositionsOK
<1>2. qTail # qHead => core'.inst[qTail].pc = core.inst[qTail].pc
  <2>1. qTail # qHead => qTail \in DOMAIN core.inst
    BY <1>1 DEF IInv, WindowInv
  <2> QED
    BY <2>1 DEF Tame
<1>3. core'.bad = qHead => core.bad = qHead
  BY <1>1 DEF Tame
<1> QED
  BY <1>1, <1>2, <1>3 DEF FetchOK

(* A step inside the window. *)
LEMMA TameStep ==
  ASSUME IInv, CoreInv(core', {}), Tame(core, core'), UNCHANGED <<prog, pointers, fetchRip, sim>>
  PROVE  CoreOK'
<1>1. CoreInv(core, {})'
  BY CoreInvNext
<1>2. FetchOK'
  BY TameKeepsFetch DEF pointers
<1>3. PositionsOK(core', qTail, qRetire, qExecute, qRename, qHead)
  <2>1. Shape(core) /\ Positions
    BY DEF IInv, CoreOK, CoreInv
  <2>2. qTail \in Nat /\ qRetire \in Nat /\ qExecute \in Nat /\ qRename \in Nat /\ qHead \in Nat
    BY DEF IInv, WindowInv
  <2> QED
    BY <2>1, <2>2, TameKeepsPositions DEF Positions
<1>4. Positions'
  BY <1>3 DEF Positions, pointers, PositionsOK
<1> QED
  BY <1>1, <1>2, <1>4 DEF CoreOK

(* An instruction that executes is on no list. *)
LEMMA ExecutingIsAlone ==
  ASSUME CoreInv(core, {}), NEW q \in DOMAIN core.inst, Executing(q)
  PROVE  ~On(core, q)
<1>1. Shape(core) /\ q # NoQ
  BY DEF CoreInv, Shape, NoQ
<1>2. ~OnLine(core, q)
  <2> SUFFICES ASSUME OnLine(core, q) PROVE FALSE
    OBVIOUS
  <2>1. PICK l \in Lines : \E i \in DOMAIN core.lines[l].wait : core.lines[l].wait[i].q = q
    BY <1>1 DEF OnLine, Shape
  <2>2. PICK i \in DOMAIN core.lines[l].wait : core.lines[l].wait[i].q = q
    BY <2>1
  <2> DEFINE x == <<"line", l>>
  <2>3. x \in Places(core) /\ WaitList(core, x) = core.lines[l].wait /\ x[1] = "line"
    BY DEF Places, WaitList
  <2> HIDE DEF x
  <2>4. EntryOK(core, x, core.lines[l].wait[i])
    BY <2>3 DEF CoreInv
  <2> QED
    BY <1>1, <2>2, <2>3, <2>4 DEF EntryOK, Executing
<1> QED
  BY <1>1, <1>2, OnIsDetached DEF Executing

(* OutorderScheduler::select *)
LEMMA SelectKeepsCore ==
  ASSUME IInv, NEW q \in DOMAIN core.inst, Select(q)
  PROVE  CoreOK'
<1>1. /\ CoreInv(core, {}) /\ Shape(core) /\ InstOK(core, q) /\ q # NoQ
  BY DEF IInv, CoreOK, CoreInv, Shape, NoQ
<1>2. core.inst[q].stage = "READY" /\ core' = [core EXCEPT !.inst[q].stage = "EXECUTE"]
  BY DEF Select
<1>3. Turn(core, core', q, "EXECUTE")
  BY <1>1, <1>2, ValuesSet
<1>4. ~On(core, q)
  BY <1>1, <1>2, WaitersHaveIssued
<1>5. CoreInv(core', {}) /\ Tame(core, core')
  <2>1. /\ "EXECUTE" \in {"EXECUTE", "MEMORY", "COMPLETE"}
        /\ "EXECUTE" = "MEMORY" => q \in {} /\ core.inst[q].ext # {}
        /\ "EXECUTE" = "EXECUTE" => q \notin {}
        /\ core.inst[q].storeWaiters = <<>> \/ "EXECUTE" = "EXECUTE"
        /\ core.inst[q].stage \notin {"FETCH", "DECODE", "COMPLETE"}
    BY <1>2
  <2>2. /\ "EXECUTE" = "COMPLETE" => CoreInv(core', {} \ {q})
        /\ "EXECUTE" # "COMPLETE" => CoreInv(core', {})
        /\ Tame(core, core') /\ Steady(core, core', {q}) /\ \A p : On(core', p) <=> On(core, p)
    BY <1>1, <1>3, <1>4, <2>1, Turned
  <2> QED
    BY <2>2
<1> QED
  BY <1>5, TameStep DEF Select

(* The event of a load or a store fires. *)
LEMMA ExecuteMemoryKeepsCore ==
  ASSUME IInv, NEW q \in DOMAIN core.inst, ExecuteMemory(q)
  PROVE  CoreOK'
<1>1. CoreInv(core, {})
  BY DEF IInv, CoreOK
<1>2. /\ core.inst[q].stage = "EXECUTE" /\ IsMemory(core.inst[q].uop)
      /\ core' = IF core.inst[q].uop.op = "ld" THEN ExecuteLoad(core, q) ELSE ExecuteStore(core, q)
      /\ Executing(q)
  BY DEF ExecuteMemory, Executing
<1>3. ~On(core, q)
  BY <1>1, <1>2, ExecutingIsAlone
<1>4. CASE core.inst[q].uop.op = "ld"
  <2>1. CoreInv(core, {} \cup {q})
    BY <1>1, <1>2, <1>3, IntoLimbo
  <2>2. {} \cup {q} = {q} /\ {q} \ {q} = {}
    OBVIOUS
  <2>3. CoreInv(core', {q} \ {q}) /\ Tame(core, core')
    <3>1. CoreInv(core, {q}) /\ core' = ExecuteLoad(core, q)
      BY <1>2, <1>4, <2>1, <2>2
    <3> QED
      BY <1>2, <1>4, <3>1, LoadExecutes
  <2>4. CoreInv(core', {})
    BY <2>2, <2>3
  <2> QED
    BY <2>3, <2>4, TameStep DEF ExecuteMemory
<1>5. CASE core.inst[q].uop.op # "ld"
  <2>1. core.inst[q].uop.op = "st" /\ core' = ExecuteStore(core, q)
    BY <1>2, <1>5 DEF IsMemory
  <2>2. CoreInv(core', {}) /\ Tame(core, core')
    BY <1>1, <1>2, <1>3, <2>1, StoreExecutes
  <2> QED
    BY <2>2, TameStep DEF ExecuteMemory
<1> QED
  BY <1>4, <1>5

(* A line is filled, and its waiters are woken. *)
LEMMA FillKeepsCore ==
  ASSUME IInv, NEW l \in Lines, Fill(l)
  PROVE  CoreOK'
<1> DEFINE v == IF core.lines[l].type = "WRITE" \/ core.perm[l] = "W" THEN "W" ELSE "R"
           c == [core EXCEPT !.perm[l] = v]
<1>1. core' = FillRequest(c, l) /\ UNCHANGED <<prog, pointers, fetchRip, sim>>
  BY DEF Fill
<1>2. CoreInv(core, {}) /\ Shape(core)
  BY DEF IInv, CoreOK, CoreInv
<1> HIDE DEF v
<1>3. /\ DOMAIN c = CoreFields /\ c.inst = core.inst /\ c.lsq = core.lsq /\ c.bad = core.bad
      /\ c.lines = core.lines
  BY <1>2 DEF Shape, CoreFields
<1> HIDE DEF c
<1>4. CoreInv(c, {})
  BY <1>2, <1>3, SameWaiters DEF Shape
<1>5. CoreInv(core', {}) /\ Tame(c, core')
  BY <1>1, <1>4, LineFills
<1>6. Tame(core, core')
  BY <1>3, <1>5 DEF Tame
<1> QED
  BY <1>1, <1>5, <1>6, TameStep

(* Nothing but marks and values change from c to d. *)
Marked(c, d) ==
  /\ DOMAIN d = CoreFields /\ DOMAIN d.inst = DOMAIN c.inst
  /\ d.lines = c.lines /\ d.lsq = c.lsq /\ d.bad = c.bad
  /\ \A q \in DOMAIN c.inst :
       /\ DOMAIN d.inst[q] = InstFields
       /\ d.inst[q].uop = c.inst[q].uop /\ d.inst[q].pc = c.inst[q].pc
       /\ d.inst[q].stage = c.inst[q].stage /\ d.inst[q].src = c.inst[q].src
       /\ d.inst[q].ext = c.inst[q].ext /\ d.inst[q].storeWaiters = c.inst[q].storeWaiters

(* Marks do not disturb the core. *)
LEMMA MarksKeepCore ==
  ASSUME NEW c, CoreInv(c, {}), NEW d, Marked(c, d)
  PROVE  CoreInv(d, {}) /\ Tame(c, d)
<1>1. Advance(c, d, DOMAIN c.inst, {}, {})
  <2>1. Shape(c) /\ \A q \in DOMAIN c.inst : InstOK(c, q)
    BY DEF CoreInv
  <2>2. \A q \in DOMAIN c.inst : InstOK(d, q) /\ Owner(c, d, q)
    BY <2>1 DEF Marked, InstOK, Owner, MemoryIssued
  <2>3. \A q \in DOMAIN c.inst : d.inst[q].uop.op = "ld" /\ d.inst[q].stage = "MEMORY" => On(c, q)
    BY DEF Marked, CoreInv, Waited
  <2>4. d.lsq \subseteq DOMAIN c.inst /\ d.bad \in Nat /\ d.bad <= c.bad
    BY <2>1 DEF Marked, Shape
  <2> QED
    BY <2>2, <2>3, <2>4 DEF Marked, Advance
<1>2. CoreInv(d, {})
  BY <1>1, Advanced
<1>3. Tame(c, d)
  BY DEF Marked, Tame
<1> QED
  BY <1>2, <1>3

(* A step that changes nothing the invariant speaks of. *)
LEMMA NothingKeepsCore ==
  ASSUME IInv, core' = core, UNCHANGED <<prog, pointers, fetchRip, sim>>
  PROVE  CoreOK'
<1>1. CoreInv(core', {}) /\ Tame(core, core')
  BY DEF IInv, CoreOK, Tame
<1> QED
  BY <1>1, TameStep

(* Processor::cachePermissionChangeNotification *)
LEMMA InvalidateKeepsCore ==
  ASSUME IInv, NEW l \in Lines, Invalidate(l)
  PROVE  CoreOK'
<1> DEFINE load == InvalidationSearch(core.inst, core.lsq, l)
           lost == [core EXCEPT !.perm[l] = "I"]
<1>1. /\ core' = IF load = NoQ THEN lost ELSE [lost EXCEPT !.inst[load].consistency = TRUE]
      /\ UNCHANGED <<prog, pointers, fetchRip, sim>>
  BY DEF Invalidate
<1>2. /\ CoreInv(core, {}) /\ DOMAIN core = CoreFields
      /\ \A q \in DOMAIN core.inst : DOMAIN core.inst[q] = InstFields
  BY DEF IInv, CoreOK, CoreInv, Shape, InstOK
<1>3. /\ DOMAIN lost = CoreFields /\ lost.inst = core.inst /\ lost.lines = core.lines
      /\ lost.lsq = core.lsq /\ lost.bad = core.bad
  BY <1>2 DEF CoreFields
<1> HIDE DEF load, lost
<1>4. Marked(core, core')
  <2>1. CASE core' = lost
    BY <2>1, <1>2, <1>3 DEF Marked
  <2>2. CASE core' = [lost EXCEPT !.inst[load].consistency = TRUE]
    <3>1. /\ DOMAIN core' = CoreFields /\ core'.lines = core.lines
          /\ core'.lsq = core.lsq /\ core'.bad = core.bad
          /\ core'.inst = [core.inst EXCEPT ![load].consistency = TRUE]
      BY <2>2, <1>3 DEF CoreFields
    <3>2. \A q \in DOMAIN core.inst : q # load => core'.inst[q] = core.inst[q]
      BY <3>1
    <3>3. load \in DOMAIN core.inst => core'.inst[load] = [core.inst[load] EXCEPT !.consistency = TRUE]
      BY <3>1
    <3>4. ASSUME NEW q \in DOMAIN core.inst
          PROVE  /\ DOMAIN core'.inst[q] = InstFields
                 /\ core'.inst[q].uop = core.inst[q].uop /\ core'.inst[q].pc = core.inst[q].pc
                 /\ core'.inst[q].stage = core.inst[q].stage /\ core'.inst[q].src = core.inst[q].src
                 /\ core'.inst[q].ext = core.inst[q].ext
                 /\ core'.inst[q].storeWaiters = core.inst[q].storeWaiters
      BY <1>2, <3>2, <3>3 DEF InstFields
    <3>5. DOMAIN core'.inst = DOMAIN core.inst
      BY <3>1
    <3> QED
      BY <3>1, <3>4, <3>5 DEF Marked
  <2> QED
    BY <1>1, <2>1, <2>2
<1>5. CoreInv(core', {}) /\ Tame(core, core')
  BY <1>2, <1>4, MarksKeepCore
<1> QED
  BY <1>1, <1>5, TameStep

(* Another processor's store. *)
LEMMA RemoteStoreKeepsCore ==
  ASSUME IInv, NEW b \in DOMAIN WordOf, RemoteStore(b)
  PROVE  CoreOK'
<1>1. /\ core' = [core EXCEPT
                    !.mem[b] = 9,
                    !.inst = [q \in DOMAIN @ |-> [@[q] EXCEPT !.stale =
                       core.inst[q].stale \/ (core.inst[q].uop.op = "ld" /\ b \in DOMAIN core.inst[q].val)]]]
      /\ UNCHANGED <<prog, pointers, fetchRip, sim>>
  BY DEF RemoteStore
<1>2. /\ CoreInv(core, {}) /\ DOMAIN core = CoreFields
      /\ \A q \in DOMAIN core.inst : DOMAIN core.inst[q] = InstFields
  BY DEF IInv, CoreOK, CoreInv, Shape, InstOK
<1>3. /\ DOMAIN core' = CoreFields /\ core'.lines = core.lines
      /\ core'.lsq = core.lsq /\ core'.bad = core.bad
      /\ core'.inst = [q \in DOMAIN core.inst |-> [core.inst[q] EXCEPT !.stale =
           core.inst[q].stale \/ (core.inst[q].uop.op = "ld" /\ b \in DOMAIN core.inst[q].val)]]
  BY <1>1, <1>2 DEF CoreFields
<1>4. ASSUME NEW q \in DOMAIN core.inst
      PROVE  /\ DOMAIN core'.inst[q] = InstFields
             /\ core'.inst[q].uop = core.inst[q].uop /\ core'.inst[q].pc = core.inst[q].pc
             /\ core'.inst[q].stage = core.inst[q].stage /\ core'.inst[q].src = core.inst[q].src
             /\ core'.inst[q].ext = core.inst[q].ext
             /\ core'.inst[q].storeWaiters = core.inst[q].storeWaiters
  BY <1>2, <1>3 DEF InstFields
<1>5. Marked(core, core')
  BY <1>3, <1>4 DEF Marked
<1>6. CoreInv(core', {}) /\ Tame(core, core')
  BY <1>2, <1>5, MarksKeepCore
<1> QED
  BY <1>1, <1>6, TameStep

(* An older instruction is found bad. *)
LEMMA BadIsFound ==
  ASSUME IInv, NEW q \in Nat, q <= core.bad, core' = [core EXCEPT !.bad = q],
         qRetire <= q, q <= qHead, q = qHead => fetchRip \in DOMAIN prog,
         UNCHANGED <<prog, pointers, fetchRip, sim>>
  PROVE  CoreOK'
<1>1. CoreInv(core, {}) /\ Shape(core) /\ Positions /\ FetchOK
  BY DEF IInv, CoreOK, CoreInv
<1>2. /\ DOMAIN core' = CoreFields /\ core'.inst = core.inst /\ core'.lines = core.lines
      /\ core'.lsq = core.lsq /\ core'.bad = q
  BY <1>1 DEF Shape, CoreFields
<1>3. Advance(core, core', {}, {}, {})
  BY <1>1, <1>2 DEF Advance, Shape
<1>4. CoreInv(core', {})
  BY <1>1, <1>3, Advanced
<1>5. CoreInv(core, {})'
  BY <1>4, CoreInvNext
<1>6. PositionsOK(core', qTail, qRetire, qExecute, qRename, qHead)
  BY <1>1, <1>2 DEF Positions, PositionsOK
<1>7. Positions'
  BY <1>6 DEF Positions, PositionsOK, pointers
<1>8. FetchOK'
  BY <1>1, <1>2 DEF FetchOK, pointers
<1> QED
  BY <1>5, <1>7, <1>8 DEF CoreOK

(* Nothing can be decoded where fetch is. *)
LEMMA FetchFailsKeepsCore ==
  ASSUME IInv, FetchFails
  PROVE  CoreOK'
<1>1. qHead \in Nat /\ qRetire <= qHead /\ MaxUops \in Nat
  BY WindowAssumption DEF IInv, WindowInv
<1>2. qHead <= core.bad /\ fetchRip \in DOMAIN prog
  BY <1>1 DEF FetchFails, MayFetch, NoBad
<1> QED
  BY <1>1, <1>2, BadIsFound DEF FetchFails

(* Rename meets an instruction it cannot translate. *)
LEMMA RenameIllegalKeepsCore ==
  ASSUME IInv, RenameIllegal
  PROVE  CoreOK'
<1>1. /\ qHead \in Nat /\ qRename \in Nat /\ qRetire <= qRename /\ qRename < qHead
      /\ core.bad \in Nat /\ qRename < core.bad
  BY DEF IInv, WindowInv, RenameIllegal, MayRename, CoreOK, CoreInv, Shape
<1> QED
  BY <1>1, BadIsFound DEF RenameIllegal

(* What keeps the ends of the window keeps fetch. *)
LEMMA FetchStays ==
  ASSUME IInv, \A q \in DOMAIN core.inst : core'.inst[q].pc = core.inst[q].pc,
         core'.bad = qHead => core.bad = qHead,
         UNCHANGED <<prog, qTail, qHead, fetchRip, sim>>
  PROVE  FetchOK'
<1>1. qHead \in Nat /\ qTail \in Nat /\ qTail <= qHead
      /\ DOMAIN core.inst = qTail .. (qHead - 1) /\ FetchOK
  BY DEF IInv, CoreOK, WindowInv, Positions, PositionsOK
<1>2. qTail # qHead => core'.inst[qTail].pc = core.inst[qTail].pc
  BY <1>1
<1> QED
  BY <1>1, <1>2 DEF FetchOK

(* The greatest of some pointers. *)
LEMMA MaxOfNats ==
  ASSUME NEW S, S \subseteq Nat, S # {}, NEW n \in Nat, \A x \in S : x <= n
  PROVE  Max(S) \in S /\ \A y \in S : y <= Max(S)
<1> DEFINE T == {k \in Nat : \A x \in S : x <= k}
<1>1. T \subseteq Nat /\ T # {}
  OBVIOUS
<1>2. PICK m \in T : \A k \in T : m <= k
  BY <1>1, MinOfNats
<1>3. m \in Nat /\ \A x \in S : x <= m
  BY <1>2
<1>4. m \in S
  <2> SUFFICES ASSUME m \notin S PROVE FALSE
    OBVIOUS
  <2>1. \A x \in S : x <= m - 1
    BY <1>3
  <2>2. PICK x \in S : TRUE
    OBVIOUS
  <2>3. m - 1 \in Nat
    BY <1>3, <2>1, <2>2
  <2>4. m - 1 \in T
    BY <2>1, <2>3
  <2> QED
    BY <1>2, <1>3, <2>4
<1>5. \E x \in S : \A y \in S : x >= y
  BY <1>3, <1>4
<1>6. Max(S) \in S /\ \A y \in S : Max(S) >= y
  BY <1>5 DEF Max
<1> QED
  BY <1>6

(* The youngest older load. *)
LEMMA FrontEndMapIsOlder ==
  ASSUME DOMAIN core.inst \subseteq Nat, NEW q \in Nat
  PROVE  FrontEndMap(q) \in Int /\ FrontEndMap(q) < q
<1> DEFINE loads == {p \in DOMAIN core.inst : p < q /\ core.inst[p].uop.op = "ld"}
<1>1. loads \subseteq Nat /\ \A p \in loads : p < q
  OBVIOUS
<1>2. FrontEndMap(q) = IF loads = {} THEN NoQ ELSE Max(loads)
  BY DEF FrontEndMap
<1> HIDE DEF loads
<1>3. CASE loads = {}
  BY <1>2, <1>3 DEF NoQ
<1>4. CASE loads # {}
  <2>1. \A x \in loads : x <= q
    BY <1>1
  <2>2. Max(loads) \in loads
    BY <1>1, <1>4, <2>1, MaxOfNats
  <2> DEFINE m == Max(loads)
  <2>3. FrontEndMap(q) = m /\ m \in loads
    BY <1>2, <1>4, <2>2
  <2> HIDE DEF m
  <2>4. m \in Int /\ m < q
    BY <1>1, <2>3
  <2> QED
    BY <2>3, <2>4
<1> QED
  BY <1>3, <1>4

(* DynamicInst::rename, and queue up to WAIT_RA: an instruction that is in *)
(* no queue takes another stage.                                           *)
Moves(c, d, q, s, t) ==
  /\ q \in DOMAIN c.inst /\ q \notin c.lsq /\ c.inst[q].stage \notin {"EXECUTE", "MEMORY"}
  /\ s \in {"COMPLETE", "DECODE", "WAIT_RA"} /\ t \in Int /\ t < q
  /\ DOMAIN d = CoreFields /\ DOMAIN d.inst = DOMAIN c.inst /\ d.lines = c.lines
  /\ d.lsq = c.lsq /\ d.bad = c.bad
  /\ \A p \in DOMAIN c.inst : p # q => d.inst[p] = c.inst[p]
  /\ d.inst[q] = [c.inst[q] EXCEPT !.stage = s, !.src = t]

(* Moving keeps the invariant of the core. *)
LEMMA EarlyMoves ==
  ASSUME NEW c, CoreInv(c, {}), NEW d, NEW q, NEW s, NEW t, Moves(c, d, q, s, t)
  PROVE  CoreInv(d, {}) /\ d.inst[q].storeWaiters = <<>>
<1>0. /\ q \in DOMAIN c.inst /\ q \notin c.lsq /\ c.inst[q].stage \notin {"EXECUTE", "MEMORY"}
      /\ s \in {"COMPLETE", "DECODE", "WAIT_RA"} /\ t \in Int /\ t < q
      /\ DOMAIN d = CoreFields /\ DOMAIN d.inst = DOMAIN c.inst /\ d.lines = c.lines
      /\ d.lsq = c.lsq /\ d.bad = c.bad
      /\ \A p \in DOMAIN c.inst : p # q => d.inst[p] = c.inst[p]
      /\ d.inst[q] = [c.inst[q] EXCEPT !.stage = s, !.src = t]
  BY DEF Moves
<1>1. Shape(c) /\ InstOK(c, q) /\ c.inst[q].storeWaiters = <<>> /\ q # NoQ
  BY <1>0, NoWaiters DEF CoreInv, Shape, NoQ
<1>2. ~On(c, q)
  BY <1>0, <1>1, WaitersHaveIssued
<1>3. /\ DOMAIN d.inst[q] = InstFields
      /\ d.inst[q].uop = c.inst[q].uop /\ d.inst[q].pc = c.inst[q].pc
      /\ d.inst[q].stage = s /\ d.inst[q].src = t /\ d.inst[q].ext = c.inst[q].ext
      /\ d.inst[q].storeWaiters = <<>>
  BY <1>0, <1>1 DEF InstOK, InstFields
<1>4. InstOK(d, q)
  BY <1>0, <1>1, <1>3 DEF InstOK, Stages, Early
<1>5. Advance(c, d, {q}, {}, {})
  <2>1. d.inst[q].stage # "MEMORY" /\ Owner(c, d, q)
    BY <1>0, <1>3 DEF Owner
  <2>2. d.lsq \subseteq DOMAIN c.inst /\ d.bad \in Nat /\ d.bad <= c.bad
    BY <1>0, <1>1 DEF Shape
  <2>3. \A p \in DOMAIN c.inst : p \notin {q} =>
          d.inst[p] = c.inst[p] /\ (p \in d.lsq <=> p \in c.lsq)
    BY <1>0
  <2>4. /\ q \in DOMAIN c.inst /\ InstOK(d, q) /\ d.inst[q].uop = c.inst[q].uop
        /\ d.inst[q].storeWaiters = c.inst[q].storeWaiters
    BY <1>0, <1>1, <1>3, <1>4
  <2>5. {} \subseteq {} /\ {} \ {} \subseteq {q}
    OBVIOUS
  <2>6. \A p \in {q} :
          /\ p \in DOMAIN c.inst /\ InstOK(d, p)
          /\ d.inst[p].uop = c.inst[p].uop
          /\ d.inst[p].storeWaiters = c.inst[p].storeWaiters
          /\ Owner(c, d, p)
          /\ On(c, p) => d.inst[p].ext = c.inst[p].ext /\ d.inst[p].stage = c.inst[p].stage
          /\ d.inst[p].uop.op = "ld" /\ d.inst[p].stage = "MEMORY" => On(c, p) \/ p \in {}
          /\ p \in {} => d.inst[p].stage \in {"EXECUTE", "MEMORY"}
    BY <1>2, <2>1, <2>4
  <2> QED
    BY <1>0, <2>2, <2>3, <2>5, <2>6 DEF Advance
<1> QED
  BY <1>3, <1>5, Advanced

(* Processor::rename *)
LEMMA RenameKeepsCore ==
  ASSUME IInv, Rename
  PROVE  CoreOK'
<1> DEFINE q == qRename
           s == IF core.inst[q].uop.op = "nop" THEN "COMPLETE" ELSE "DECODE"
           t == FrontEndMap(q)
<1>1. /\ CoreInv(core, {}) /\ Shape(core) /\ Positions /\ FetchOK
      /\ qTail \in Nat /\ qRetire \in Nat /\ qExecute \in Nat /\ qRename \in Nat /\ qHead \in Nat
      /\ qTail <= qRetire /\ qRetire <= qExecute /\ qExecute <= qRename
      /\ DOMAIN core.inst = qTail .. (qHead - 1)
  BY DEF IInv, CoreOK, CoreInv, WindowInv, Positions, PositionsOK
<1>2. /\ q < qHead /\ core' = [core EXCEPT !.inst[q].stage = s, !.inst[q].src = t]
      /\ qRename' = q + 1
      /\ UNCHANGED <<prog, qTail, qRetire, qExecute, qHead, fetchRip, sim>>
  BY DEF Rename, MayRename
<1>3. q \in DOMAIN core.inst /\ q \in Nat
  BY <1>1, <1>2
<1>4. /\ core.inst[q].stage = "FETCH" /\ q \notin core.lsq /\ DOMAIN core.inst[q] = InstFields
  BY <1>1, <1>3 DEF Positions, PositionsOK, CoreInv, InstOK, Early
<1>5. s \in {"COMPLETE", "DECODE"} /\ t \in Int /\ t < q
  BY <1>1, <1>3, FrontEndMapIsOlder DEF Shape
<1> HIDE DEF q, s, t
<1>6. /\ DOMAIN core' = CoreFields /\ DOMAIN core'.inst = DOMAIN core.inst /\ core'.lines = core.lines
      /\ core'.lsq = core.lsq /\ core'.bad = core.bad
      /\ \A p \in DOMAIN core.inst : p # q => core'.inst[p] = core.inst[p]
      /\ core'.inst[q] = [core.inst[q] EXCEPT !.stage = s, !.src = t]
  BY <1>1, <1>2, <1>3, <1>4 DEF Shape, CoreFields, InstFields
<1>7. CoreInv(core', {})
  <2>1. Moves(core, core', q, s, t)
    BY <1>3, <1>4, <1>5, <1>6 DEF Moves
  <2> QED
    BY <1>1, <2>1, EarlyMoves
<1>8. CoreInv(core, {})'
  BY <1>2, <1>7, CoreInvNext
<1>9. core'.inst[q].stage = s /\ core'.inst[q].pc = core.inst[q].pc
  BY <1>4, <1>6 DEF InstFields
<1>10. PositionsOK(core', qTail, qRetire, qExecute, q + 1, qHead)
  <2>1. /\ DOMAIN core'.inst = qTail .. (qHead - 1) /\ qHead < NoBad
        /\ core'.bad # NoBad => qRetire <= core'.bad /\ core'.bad <= qHead
    BY <1>1, <1>6 DEF Positions, PositionsOK
  <2>2. ASSUME NEW p \in DOMAIN core'.inst
        PROVE  /\ p < qRetire => core'.inst[p].stage = "COMPLETE"
               /\ p >= qExecute => core'.inst[p].stage \in {"FETCH", "DECODE", "COMPLETE"}
               /\ p >= q + 1 => core'.inst[p].stage = "FETCH"
    <3>1. p \in DOMAIN core.inst /\ p \in Nat /\ q = qRename
      BY <1>1, <1>6 DEF q
    <3>2. CASE p = q
      BY <1>1, <1>3, <1>5, <1>9, <3>1, <3>2
    <3>3. CASE p # q
      BY <1>1, <1>6, <3>1, <3>3 DEF Positions, PositionsOK
    <3> QED
      BY <3>2, <3>3
  <2> QED
    BY <2>1, <2>2 DEF PositionsOK
<1>11. Positions'
  BY <1>2, <1>10 DEF Positions, PositionsOK
<1>12. FetchOK'
  BY <1>2, <1>6, <1>9, FetchStays
<1> QED
  BY <1>8, <1>11, <1>12 DEF CoreOK

(* DynamicInst::queue *)
LEMMA QueueKeepsCore ==
  ASSUME IInv, Queue
  PROVE  CoreOK'
<1> DEFINE q == qExecute
           c == [core EXCEPT !.inst[q].stage = "WAIT_RA"]
<1>1. /\ CoreInv(core, {}) /\ Shape(core) /\ Positions /\ FetchOK
      /\ qTail \in Nat /\ qRetire \in Nat /\ qExecute \in Nat /\ qRename \in Nat /\ qHead \in Nat
      /\ qTail <= qRetire /\ qRetire <= qExecute /\ qRename <= qHead
      /\ DOMAIN core.inst = qTail .. (qHead - 1)
  BY DEF IInv, CoreOK, CoreInv, WindowInv, Positions, PositionsOK
<1>2. /\ q < qRename
      /\ core' = IF core.inst[q].stage = "COMPLETE" THEN core ELSE Schedule(c, q)
      /\ qExecute' = q + 1
      /\ UNCHANGED <<prog, qTail, qRetire, qRename, qHead, fetchRip, sim>>
  BY DEF Queue
<1>3. q \in DOMAIN core.inst /\ q \in Nat
  BY <1>1, <1>2
<1>4. core.inst[q].stage \in {"FETCH", "DECODE", "COMPLETE"} /\ InstOK(core, q)
  BY <1>1, <1>3 DEF Positions, PositionsOK, CoreInv
<1>5. /\ CoreInv(core', {}) /\ DOMAIN core'.inst = DOMAIN core.inst
      /\ core'.bad \in {core.bad, q}
      /\ \A p \in DOMAIN core.inst : p # q => core'.inst[p] = core.inst[p]
      /\ core'.inst[q].pc = core.inst[q].pc
  <2>1. CASE core.inst[q].stage = "COMPLETE"
    BY <1>1, <1>2, <2>1
  <2>2. CASE core.inst[q].stage # "COMPLETE"
    <3>1. q \notin core.lsq /\ DOMAIN core.inst[q] = InstFields
          /\ core.inst[q].src \in Int /\ core.inst[q].src < q
      BY <1>4, <2>2 DEF InstOK, Early
    <3>2. /\ DOMAIN c = CoreFields /\ DOMAIN c.inst = DOMAIN core.inst /\ c.lines = core.lines
          /\ c.lsq = core.lsq /\ c.bad = core.bad
          /\ \A p \in DOMAIN core.inst : p # q => c.inst[p] = core.inst[p]
          /\ c.inst[q] = [core.inst[q] EXCEPT !.stage = "WAIT_RA"]
      BY <1>1, <1>3, <3>1 DEF Shape, CoreFields, InstFields
    <3> HIDE DEF c
    <3>3. /\ c.inst[q] = [core.inst[q] EXCEPT !.stage = "WAIT_RA", !.src = core.inst[q].src]
          /\ c.inst[q].stage = "WAIT_RA" /\ c.inst[q].pc = core.inst[q].pc
      BY <3>1, <3>2 DEF InstFields
    <3>4. CoreInv(c, {}) /\ c.inst[q].storeWaiters = <<>>
      <4>1. Moves(core, c, q, "WAIT_RA", core.inst[q].src)
        BY <1>3, <1>4, <2>2, <3>1, <3>2, <3>3 DEF Moves
      <4> QED
        BY <1>1, <4>1, EarlyMoves
    <3>5. core' = Schedule(c, q)
      BY <1>2, <2>2
    <3>6. /\ DOMAIN core' = CoreFields /\ DOMAIN core'.inst = DOMAIN c.inst /\ core'.lines = c.lines
          /\ core'.bad \in {c.bad, q} /\ core'.bad <= c.bad
          /\ \A p \in DOMAIN c.inst : p # q => core'.inst[p] = c.inst[p]
          /\ core'.lsq \in {c.lsq, c.lsq \cup {q}}
          /\ InstOK(core', q) /\ core'.inst[q].stage \in {"WAIT_RA", "WAIT_RB", "WAIT_RC", "READY"}
          /\ core'.inst[q].uop = c.inst[q].uop /\ core'.inst[q].pc = c.inst[q].pc
          /\ core'.inst[q].storeWaiters = c.inst[q].storeWaiters
          /\ c.inst[q].storeWaiters # <<>> => core'.inst[q].ext = c.inst[q].ext /\ q \in core'.lsq
      <4>1. q \in DOMAIN c.inst /\ c.inst[q].stage \in {"WAIT_RA", "WAIT_RC"} /\ CoreInv(c, {})
        BY <1>3, <3>2, <3>3, <3>4
      <4> QED
        BY <3>5, <4>1, Scheduled
    <3>7. c.inst[q].storeWaiters = <<>> /\ ~On(c, q) /\ Shape(c)
      <4>1. q \in DOMAIN c.inst /\ q # NoQ /\ Shape(c) /\ q \notin c.lsq
        BY <1>3, <3>1, <3>2, <3>4 DEF NoQ, CoreInv
      <4> QED
        BY <3>3, <3>4, <4>1, NoWaiters, WaitersHaveIssued
    <3>8. Advance(c, core', {q}, {}, {})
      BY <1>3, <3>2, <3>6, <3>7 DEF Advance, Owner, Shape
    <3>9. CoreInv(core', {})
      BY <3>4, <3>8, Advanced
    <3> QED
      BY <3>2, <3>3, <3>6, <3>9
  <2> QED
    BY <2>1, <2>2
<1> HIDE DEF q, c
<1>6. CoreInv(core, {})'
  BY <1>2, <1>5, CoreInvNext
<1>7. PositionsOK(core', qTail, qRetire, q + 1, qRename, qHead)
  BY <1>1, <1>2, <1>3, <1>5 DEF Positions, PositionsOK, q
<1>8. Positions'
  BY <1>2, <1>7 DEF Positions, PositionsOK
<1>9. FetchOK'
  <2>1. core'.bad = qHead => core.bad = qHead
    BY <1>1, <1>2, <1>3, <1>5
  <2> QED
    BY <1>2, <1>5, <2>1, FetchStays
<1> QED
  BY <1>6, <1>8, <1>9 DEF CoreOK

(* The pointers of the window, as the invariant has them. *)
LEMMA WindowFacts ==
  ASSUME IInv
  PROVE  /\ CoreInv(core, {}) /\ Shape(core) /\ FetchOK /\ prog \in Programs
         /\ \A q \in DOMAIN core.inst : InstOK(core, q)
         /\ PositionsOK(core, qTail, qRetire, qExecute, qRename, qHead)
         /\ qTail \in Nat /\ qRetire \in Nat /\ qExecute \in Nat /\ qRename \in Nat /\ qHead \in Nat
         /\ qTail <= qRetire /\ qRetire <= qExecute /\ qExecute <= qRename /\ qRename <= qHead
         /\ DOMAIN core.inst = qTail .. (qHead - 1) /\ qHead < NoBad
         /\ \A q \in qTail .. (qHead - 1) : first[q] \in qTail .. q
BY DEF IInv, CoreOK, CoreInv, WindowInv, Positions, PositionsOK, Window

(* From c to d everything from a pointer on was squashed or forgotten.     *)
Back(c, d, from) ==
  /\ \A q \in DOMAIN d.inst : q \in DOMAIN c.inst /\ d.inst[q].pc = c.inst[q].pc
  /\ \A q \in DOMAIN c.inst : q < from => q \in DOMAIN d.inst /\ d.inst[q].stage = c.inst[q].stage
  /\ d.bad # from /\ (d.bad = c.bad \/ d.bad = NoBad)

(* Processor::flushPipeline *)
LEMMA FlushKeepsCore ==
  ASSUME IInv, NEW c, CoreInv(c, {}), NEW r \in Nat,
         PositionsOK(c, qTail, r, qExecute, qRename, qHead),
         NEW from \in qTail .. qRename, NEW d, d = Flush(c, from)
  PROVE  /\ CoreInv(d, {}) /\ Back(c, d, from)
         /\ PositionsOK(d, qTail, Min({r, from}), Min({qExecute, from}), from, from)
<1>1. /\ qTail \in Nat /\ qExecute \in Nat /\ qRename \in Nat /\ qHead \in Nat
      /\ qRename <= qHead /\ from \in Nat /\ qTail <= from /\ from <= qHead
  BY WindowFacts
<1>2. DOMAIN c.inst = qTail .. (qHead - 1) /\ qHead < NoBad
  BY DEF PositionsOK
<1>3. Shape(c) /\ \A p \in DOMAIN c.inst : InstOK(c, p) /\ p < qHead
  BY <1>1, <1>2 DEF CoreInv
<1>4. /\ Squashed(c, d, from .. (qHead - 1))
      /\ DOMAIN d.inst = {p \in DOMAIN c.inst : p < from}
      /\ d.bad = IF c.bad >= from THEN NoBad ELSE c.bad
  BY <1>1, <1>3, FlushSquashes
<1>5. Closed(c, from .. (qHead - 1))
  BY <1>1, <1>2 DEF Closed
<1>6. CoreInv(d, {})
  BY <1>4, <1>5, SquashKeepsCore
<1>7. DOMAIN d.inst = qTail .. (from - 1)
  BY <1>1, <1>2, <1>4
<1>8. ASSUME NEW q \in DOMAIN d.inst
      PROVE  /\ q \in DOMAIN c.inst /\ q < from /\ q \in Nat
             /\ d.inst[q].stage = c.inst[q].stage /\ d.inst[q].pc = c.inst[q].pc
  BY <1>1, <1>4, <1>7 DEF Squashed
<1>9. c.bad \in Nat
  BY <1>3 DEF Shape
<1>10. Back(c, d, from)
  BY <1>1, <1>2, <1>4, <1>8, <1>9 DEF Back
<1>11. /\ Min({r, from}) = IF r <= from THEN r ELSE from
       /\ Min({qExecute, from}) = IF qExecute <= from THEN qExecute ELSE from
  BY <1>1, MinOfTwo
<1> DEFINE r1 == Min({r, from})
           e1 == Min({qExecute, from})
<1>12. r1 \in Nat /\ e1 \in Nat /\ r1 <= r /\ r1 <= from /\ (e1 = from \/ e1 = qExecute)
  BY <1>1, <1>11
<1> HIDE DEF r1, e1
<1>13. ASSUME NEW q \in DOMAIN d.inst
       PROVE  /\ q < r1 => d.inst[q].stage = "COMPLETE"
              /\ q >= e1 => d.inst[q].stage \in {"FETCH", "DECODE", "COMPLETE"}
              /\ q >= from => d.inst[q].stage = "FETCH"
  <2>1. /\ q \in DOMAIN c.inst /\ q < from /\ q \in Nat /\ d.inst[q].stage = c.inst[q].stage
    BY <1>8
  <2> QED
    BY <1>1, <1>12, <2>1 DEF PositionsOK
<1>14. d.bad # NoBad => r1 <= d.bad /\ d.bad <= from
  BY <1>1, <1>4, <1>9, <1>12 DEF PositionsOK
<1>15. from < NoBad
  BY <1>1, <1>2 DEF NoBad
<1>16. PositionsOK(d, qTail, r1, e1, from, from)
  BY <1>7, <1>13, <1>14, <1>15 DEF PositionsOK
<1> QED
  BY <1>6, <1>10, <1>16 DEF r1, e1

(* Processor::replay *)
LEMMA ReplayKeepsCore ==
  ASSUME IInv, NEW c, CoreInv(c, {}), NEW r \in Nat,
         PositionsOK(c, qTail, r, qExecute, qRename, qHead),
         NEW from \in qTail .. qRename, NEW d, d = Replay(c, from)
  PROVE  /\ CoreInv(d, {}) /\ Back(c, d, from)
         /\ PositionsOK(d, qTail, Min({r, from}), Min({qExecute, from}), from, qHead)
<1>1. /\ qTail \in Nat /\ qExecute \in Nat /\ qRename \in Nat /\ qHead \in Nat
      /\ qRename <= qHead /\ from \in Nat /\ qTail <= from /\ from <= qRename
  BY WindowFacts
<1>2. /\ DOMAIN c.inst = qTail .. (qHead - 1) /\ qHead < NoBad
      /\ \A p \in DOMAIN c.inst : p >= qRename => c.inst[p].stage = "FETCH"
  BY DEF PositionsOK
<1>3. Shape(c) /\ \A p \in DOMAIN c.inst : InstOK(c, p)
  BY DEF CoreInv
<1>4. /\ Squashed(c, d, from .. (qRename - 1))
      /\ DOMAIN d.inst = DOMAIN c.inst
      /\ d.bad = IF c.bad >= from THEN NoBad ELSE c.bad
  BY <1>1, <1>2, <1>3, ReplaySquashes
<1>5. Closed(c, from .. (qRename - 1))
  <2> SUFFICES ASSUME NEW p \in DOMAIN c.inst \cap (from .. (qRename - 1)), NEW z \in DOMAIN c.inst,
                      z > p
               PROVE  z \in from .. (qRename - 1) \/ c.inst[z].stage \notin {"EXECUTE", "MEMORY"}
    BY DEF Closed
  <2>1. CASE z < qRename
    BY <1>1, <1>2, <2>1
  <2>2. CASE z >= qRename
    BY <1>2, <2>2
  <2> QED
    BY <1>1, <1>2, <2>1, <2>2
<1>6. CoreInv(d, {})
  BY <1>4, <1>5, SquashKeepsCore
<1>8. ASSUME NEW q \in DOMAIN d.inst
      PROVE  /\ q \in DOMAIN c.inst /\ q \in Nat /\ d.inst[q].pc = c.inst[q].pc
             /\ q < from => d.inst[q].stage = c.inst[q].stage
             /\ q >= from => d.inst[q].stage = "FETCH"
  <2>1. q \in DOMAIN c.inst /\ q \in Nat /\ d.inst[q].pc = c.inst[q].pc
    BY <1>1, <1>2, <1>4 DEF Squashed
  <2>2. CASE q \in from .. (qRename - 1)
    BY <1>1, <2>1, <2>2, <1>4 DEF Squashed
  <2>3. CASE q \notin from .. (qRename - 1)
    <3>1. d.inst[q].stage = c.inst[q].stage
      BY <1>4, <2>3 DEF Squashed
    <3> QED
      BY <1>1, <1>2, <2>1, <2>3, <3>1
  <2> QED
    BY <2>2, <2>3
<1>9. c.bad \in Nat
  BY <1>3 DEF Shape
<1>10. Back(c, d, from)
  BY <1>1, <1>2, <1>4, <1>8, <1>9 DEF Back
<1>11. /\ Min({r, from}) = IF r <= from THEN r ELSE from
       /\ Min({qExecute, from}) = IF qExecute <= from THEN qExecute ELSE from
  BY <1>1, MinOfTwo
<1> DEFINE r1 == Min({r, from})
           e1 == Min({qExecute, from})
<1>12. r1 \in Nat /\ e1 \in Nat /\ r1 <= r /\ r1 <= from /\ (e1 = from \/ e1 = qExecute)
  BY <1>1, <1>11
<1> HIDE DEF r1, e1
<1>13. ASSUME NEW q \in DOMAIN d.inst
       PROVE  /\ q < r1 => d.inst[q].stage = "COMPLETE"
              /\ q >= e1 => d.inst[q].stage \in {"FETCH", "DECODE", "COMPLETE"}
              /\ q >= from => d.inst[q].stage = "FETCH"
  <2>1. /\ q \in DOMAIN c.inst /\ q \in Nat
        /\ q < from => d.inst[q].stage = c.inst[q].stage
        /\ q >= from => d.inst[q].stage = "FETCH"
    BY <1>8
  <2> QED
    BY <1>1, <1>12, <2>1 DEF PositionsOK
<1>14. d.bad # NoBad => r1 <= d.bad /\ d.bad <= qHead
  BY <1>1, <1>4, <1>9, <1>12 DEF PositionsOK
<1>16. PositionsOK(d, qTail, r1, e1, from, qHead)
  BY <1>2, <1>4, <1>13, <1>14 DEF PositionsOK
<1> QED
  BY <1>6, <1>10, <1>16 DEF r1, e1

(* The instruction at the head of the window asks for its line. *)
LEMMA HeadIsAsked ==
  ASSUME IInv, qRetire < qExecute
  PROVE  /\ CoreInv(AtHead, {}) /\ Tame(core, AtHead) /\ AtHead.bad = core.bad
         /\ PositionsOK(AtHead, qTail, qRetire, qExecute, qRename, qHead)
<1>1. /\ CoreInv(core, {}) /\ Shape(core)
      /\ PositionsOK(core, qTail, qRetire, qExecute, qRename, qHead)
      /\ qTail \in Nat /\ qRetire \in Nat /\ qExecute \in Nat /\ qRename \in Nat /\ qHead \in Nat
  BY WindowFacts
<1>2. qRetire \in DOMAIN core.inst
  BY WindowFacts
<1> DEFINE d == AtHead
<1> HIDE DEF d
<1>3. CoreInv(d, {}) /\ Tame(core, d) /\ d.bad = core.bad
  <2>1. CASE core.inst[qRetire].uop.op = "st" /\ core.inst[qRetire].stage = "MEMORY" /\ Detached(core, qRetire)
    <3>1. d = DemandStore(core, qRetire)
      BY <2>1 DEF d, AtHead
    <3>2. /\ CoreInv(d, {}) /\ Tame(core, d) /\ Steady(core, d, {qRetire})
          /\ d.inst[qRetire].stage \in {"MEMORY", "COMPLETE"} /\ d.bad = core.bad
      BY <1>1, <1>2, <2>1, <3>1, StoreIsDemanded
    <3> QED
      BY <3>2
  <2>2. CASE ~(core.inst[qRetire].uop.op = "st" /\ core.inst[qRetire].stage = "MEMORY" /\ Detached(core, qRetire))
    <3>1. d = core
      BY <2>2 DEF d, AtHead
    <3> QED
      BY <1>1, <3>1 DEF Tame
  <2> QED
    BY <2>1, <2>2
<1>4. PositionsOK(d, qTail, qRetire, qExecute, qRename, qHead)
  BY <1>1, <1>3, TameKeepsPositions
<1> QED
  BY <1>3, <1>4 DEF d

(* A program is a sequence. *)
LEMMA ProgramIsSequence ==
  ASSUME IInv
  PROVE  Len(prog) \in Nat /\ DOMAIN prog = 1 .. Len(prog)
<1>1. prog \in Seq(Range(prog))
  BY WindowFacts, ProgramAssumption
<1> QED
  BY <1>1

(* The pipeline is flushed, and fetch goes on from another place. *)
LEMMA FlushedStep ==
  ASSUME IInv, NEW c, CoreInv(c, {}), Tame(core, c),
         NEW from \in qTail .. qRename, NEW also, core' = Flush(c, from), FlushPointers(from, also),
         UNCHANGED <<prog, sim>>, fetchRip' \in 1 .. (Len(prog) + 1),
         from = qTail => fetchRip' = sim.pc
  PROVE  CoreOK'
<1>1. /\ Shape(core) /\ FetchOK
      /\ PositionsOK(core, qTail, qRetire, qExecute, qRename, qHead)
      /\ qTail \in Nat /\ qRetire \in Nat /\ qExecute \in Nat /\ qRename \in Nat /\ qHead \in Nat
      /\ qRename <= qHead /\ DOMAIN core.inst = qTail .. (qHead - 1)
  BY WindowFacts
<1>2. PositionsOK(c, qTail, qRetire, qExecute, qRename, qHead)
  BY <1>1, TameKeepsPositions
<1>3. /\ CoreInv(core', {}) /\ Back(c, core', from)
      /\ PositionsOK(core', qTail, Min({qRetire, from}), Min({qExecute, from}), from, from)
  BY <1>1, <1>2, FlushKeepsCore
<1>4. /\ qTail' = qTail /\ qRetire' = Min({qRetire, from}) /\ qExecute' = Min({qExecute, from})
      /\ qRename' = from /\ qHead' = from
  BY DEF FlushPointers
<1>5. CoreInv(core, {})'
  BY <1>3, CoreInvNext
<1>6. Positions'
  BY <1>3, <1>4 DEF Positions, PositionsOK
<1>7. FetchOK'
  <2>1. core'.bad # qHead'
    BY <1>3, <1>4 DEF Back
  <2>2. qTail # from => core'.inst[qTail].pc = sim.pc
    <3> SUFFICES ASSUME qTail # from PROVE core'.inst[qTail].pc = sim.pc
      OBVIOUS
    <3>1. qTail < from /\ qTail \in DOMAIN core.inst /\ qTail # qHead
      BY <1>1
    <3>2. qTail \in DOMAIN c.inst /\ c.inst[qTail].pc = core.inst[qTail].pc
      BY <3>1 DEF Tame
    <3>3. core'.inst[qTail].pc = c.inst[qTail].pc
      BY <1>3, <3>1, <3>2 DEF Back
    <3> QED
      BY <1>1, <3>1, <3>2, <3>3 DEF FetchOK
  <2> QED
    BY <1>1, <1>4, <2>1, <2>2 DEF FetchOK
<1> QED
  BY <1>5, <1>6, <1>7 DEF CoreOK

(* Fetch can always go on from the first uop of an x86 instruction. *)
LEMMA RefetchIsPossible ==
  ASSUME IInv, NEW q \in DOMAIN core.inst
  PROVE  /\ first[q] \in qTail .. q /\ core.inst[first[q]].pc \in 1 .. (Len(prog) + 1)
         /\ first[q] = qTail => core.inst[first[q]].pc = sim.pc
<1>1. /\ FetchOK /\ \A p \in DOMAIN core.inst : InstOK(core, p)
      /\ qTail \in Nat /\ qHead \in Nat /\ DOMAIN core.inst = qTail .. (qHead - 1)
      /\ first[q] \in qTail .. q
  BY WindowFacts
<1>2. first[q] \in DOMAIN core.inst /\ qTail # qHead
  BY <1>1
<1>3. core.inst[first[q]].pc \in DOMAIN prog
  BY <1>1, <1>2 DEF InstOK
<1> QED
  BY <1>1, <1>2, <1>3, ProgramIsSequence DEF FetchOK

(* Processor::alignmentException *)
LEMMA UnalignedKeepsCore ==
  ASSUME IInv, NEW q \in qTail .. (qExecute - 1), ExecuteUnaligned(q)
  PROVE  CoreOK'
<1>1. q \in DOMAIN core.inst /\ CoreInv(core, {}) /\ Tame(core, core)
      /\ qTail \in Nat /\ qExecute \in Nat /\ qRename \in Nat /\ qExecute <= qRename
  BY WindowFacts DEF Tame
<1>2. /\ first[q] \in qTail .. qRename /\ core.inst[first[q]].pc \in 1 .. (Len(prog) + 1)
      /\ first[q] = qTail => core.inst[first[q]].pc = sim.pc
  BY <1>1, RefetchIsPossible
<1>3. /\ core' = Flush(core, first[q]) /\ FlushPointers(first[q], {})
      /\ fetchRip' = core.inst[first[q]].pc /\ UNCHANGED <<prog, sim>>
  BY DEF ExecuteUnaligned, FirstUop
<1> QED
  BY <1>1, <1>2, <1>3, FlushedStep

(* DynamicInst::complete of a branch or a check. *)
LEMMA ExecutionEnds ==
  ASSUME IInv, NEW q \in DOMAIN core.inst, Executing(q), core.inst[q].uop.op \in {"br", "chk"},
         NEW c, Turn(core, c, q, "COMPLETE")
  PROVE  CoreInv(c, {}) /\ Tame(core, c)
<1>1. CoreInv(core, {}) /\ core.inst[q].stage = "EXECUTE" /\ ~On(core, q)
  BY WindowFacts, ExecutingIsAlone DEF Executing
<1>2. core.inst[q].storeWaiters = <<>>
  BY <1>1, NoWaiters
<1>3. /\ "COMPLETE" \in {"EXECUTE", "MEMORY", "COMPLETE"}
      /\ "COMPLETE" = "MEMORY" => q \in {} /\ core.inst[q].ext # {}
      /\ "COMPLETE" = "EXECUTE" => q \notin {}
      /\ core.inst[q].storeWaiters = <<>> \/ "COMPLETE" = "EXECUTE"
      /\ core.inst[q].stage \notin {"FETCH", "DECODE", "COMPLETE"}
  BY <1>1, <1>2
<1>4. /\ "COMPLETE" = "COMPLETE" => CoreInv(c, {} \ {q})
      /\ "COMPLETE" # "COMPLETE" => CoreInv(c, {})
      /\ Tame(core, c) /\ Steady(core, c, {q}) /\ \A p : On(c, p) <=> On(core, p)
  BY <1>1, <1>3, Turned
<1>5. {} \ {q} = {}
  OBVIOUS
<1> QED
  BY <1>4, <1>5

(* Processor::resolveBranch *)
LEMMA BranchKeepsCore ==
  ASSUME IInv, NEW q \in qTail .. (qExecute - 1), ExecuteBranch(q)
  PROVE  CoreOK'
<1> DEFINE actual == IF Cond(SourceValue(core, q)) THEN core.inst[q].uop.target ELSE core.inst[q].pc + 1
           done == [core EXCEPT !.inst[q].stage = "COMPLETE"]
<1>1. /\ q \in DOMAIN core.inst /\ CoreInv(core, {}) /\ Shape(core) /\ InstOK(core, q)
      /\ qTail \in Nat /\ qExecute \in Nat /\ qRename \in Nat /\ qExecute <= qRename
      /\ q + 1 \in qTail .. qRename /\ q + 1 # qTail
      /\ qHead \in Nat /\ qHead < NoBad /\ FetchOK
      /\ DOMAIN core.inst = qTail .. (qHead - 1)
  BY WindowFacts
<1>2. Executing(q) /\ core.inst[q].uop.op = "br" /\ UNCHANGED <<prog, sim>>
  BY DEF ExecuteBranch
<1>3. \/ core' = Flush(done, q + 1) /\ FlushPointers(q + 1, {}) /\ fetchRip' = actual
      \/ core' = done /\ UNCHANGED <<pointers, fetchRip>>
      \/ /\ core' = [done EXCEPT !.bad = IF @ = qHead THEN NoBad ELSE @] /\ fetchRip' = actual
         /\ q + 1 >= qHead /\ UNCHANGED pointers
  BY DEF ExecuteBranch
<1>4. actual \in 1 .. (Len(prog) + 1)
  <2>1. core.inst[q].pc \in 1 .. Len(prog) /\ Len(prog) \in Nat
    BY <1>1, ProgramIsSequence DEF InstOK
  <2>2. core.inst[q].uop.target \in 1 .. (Len(prog) + 1)
    BY <1>1, <1>2 DEF InstOK, WellFormed
  <2> QED
    BY <2>1, <2>2
<1>5. Turn(core, done, q, "COMPLETE")
  BY <1>1, ValuesSet
<1> HIDE DEF actual, done
<1>6. CoreInv(done, {}) /\ Tame(core, done)
  BY <1>1, <1>2, <1>5, ExecutionEnds
<1>7. CASE core' = Flush(done, q + 1) /\ FlushPointers(q + 1, {}) /\ fetchRip' = actual
  BY <1>1, <1>2, <1>4, <1>6, <1>7, FlushedStep
<1>8. CASE core' = done /\ UNCHANGED <<pointers, fetchRip>>
  BY <1>2, <1>6, <1>8, TameStep
<1>9. CASE /\ core' = [done EXCEPT !.bad = IF @ = qHead THEN NoBad ELSE @] /\ fetchRip' = actual
           /\ q + 1 >= qHead /\ UNCHANGED pointers
  <2>1. /\ DOMAIN done = CoreFields /\ done.bad = core.bad /\ Shape(done)
        /\ DOMAIN done.inst = DOMAIN core.inst /\ \A p \in DOMAIN done.inst : InstOK(done, p)
        /\ done.bad \in Nat
    BY <1>5, <1>6 DEF CoreInv, Shape, Turn
  <2>2. /\ DOMAIN core' = CoreFields /\ core'.inst = done.inst /\ core'.lines = done.lines
        /\ core'.lsq = done.lsq /\ core'.bad = IF done.bad = qHead THEN NoBad ELSE done.bad
    BY <1>9, <2>1 DEF CoreFields
  <2>3. PositionsOK(done, qTail, qRetire, qExecute, qRename, qHead)
    BY <1>1, <1>6, WindowFacts, TameKeepsPositions
  <2>4. core'.bad = done.bad \/ (done.bad = qHead /\ core'.bad = NoBad)
    BY <2>2
  <2>5. CoreInv(core', {})
    <3>1. \A p \in DOMAIN done.inst : done.inst[p].stage # "WAIT_RB" \/ done.bad <= p
      BY <2>1 DEF InstOK
    <3>2. \A p \in DOMAIN done.inst : done.inst[p].stage = "WAIT_RB" => core'.bad <= p
      BY <1>1, <2>1, <2>4, <3>1
    <3>3. \A p \in DOMAIN core'.inst : InstOK(core', p)
      BY <2>1, <2>2, <3>2 DEF InstOK
    <3>4. core'.bad \in Nat
      BY <2>1, <2>4 DEF NoBad
    <3>5. Shape(core') /\ Places(core') = Places(done)
          /\ \A x \in Places(done) : WaitList(core', x) = WaitList(done, x)
      BY <2>1, <2>2, <3>4 DEF Shape, Places, WaitList
    <3>6. \A x \in Places(core') : \A i \in DOMAIN WaitList(core', x) :
            EntryOK(core', x, WaitList(core', x)[i])
      BY <1>6, <2>2, <3>5 DEF CoreInv, EntryOK
    <3>7. Alone(core')
      BY <1>6, <3>5 DEF CoreInv, Alone
    <3>8. Waited(core', {})
      BY <1>6, <2>2, <3>5 DEF CoreInv, Waited, On
    <3> QED
      BY <3>3, <3>5, <3>6, <3>7, <3>8 DEF CoreInv
  <2>6. CoreInv(core, {})'
    BY <1>2, <2>5, CoreInvNext
  <2>7. PositionsOK(core', qTail, qRetire, qExecute, qRename, qHead)
    BY <2>2, <2>3 DEF PositionsOK
  <2>8. Positions'
    BY <1>9, <2>7 DEF Positions, PositionsOK, pointers
  <2>9. FetchOK'
    <3>1. core'.bad # qHead
      BY <1>1, <2>2, <2>4 DEF NoBad
    <3>2. qTail # qHead /\ core'.inst[qTail].pc = core.inst[qTail].pc
      BY <1>1, <1>6, <2>2 DEF Tame
    <3> QED
      BY <1>1, <1>2, <1>4, <1>9, <3>1, <3>2 DEF FetchOK, pointers
  <2> QED
    BY <2>6, <2>8, <2>9 DEF CoreOK
<1> QED
  BY <1>3, <1>7, <1>8, <1>9

(* Processor::checkException *)
LEMMA CheckKeepsCore ==
  ASSUME IInv, NEW q \in qTail .. (qExecute - 1), ExecuteCheck(q)
  PROVE  CoreOK'
<1> DEFINE fails == ~Cond(SourceValue(core, q))
           done == [core EXCEPT !.inst[q].stage = "COMPLETE", !.inst[q].check = fails]
<1>1. /\ q \in DOMAIN core.inst /\ Shape(core) /\ InstOK(core, q)
      /\ qTail \in Nat /\ qExecute \in Nat /\ qRename \in Nat /\ qExecute <= qRename
      /\ q + 1 \in qTail .. qRename /\ q + 1 # qTail
  BY WindowFacts
<1>2. Executing(q) /\ core.inst[q].uop.op = "chk" /\ UNCHANGED <<prog, sim>>
  BY DEF ExecuteCheck
<1>3. \/ /\ core' = Flush(done, q + 1) /\ FlushPointers(q + 1, {q})
         /\ fetchRip' = core.inst[q].pc + 1
      \/ core' = done /\ UNCHANGED <<pointers, fetchRip>>
  BY DEF ExecuteCheck
<1>4. core.inst[q].pc + 1 \in 1 .. (Len(prog) + 1)
  <2>1. core.inst[q].pc \in DOMAIN prog
    BY <1>1 DEF InstOK
  <2>2. DOMAIN prog = 1 .. Len(prog) /\ Len(prog) \in Nat
    BY ProgramIsSequence
  <2> QED
    BY ONLY <2>1, <2>2
<1>5. Turn(core, done, q, "COMPLETE")
  <2> HIDE DEF fails
  <2>1. /\ DOMAIN core = CoreFields /\ DOMAIN core.inst[q] = InstFields
    BY <1>1 DEF Shape, InstOK
  <2>2. /\ DOMAIN done = CoreFields /\ done.lines = core.lines /\ done.lsq = core.lsq
        /\ done.bad = core.bad
        /\ done.inst = [core.inst EXCEPT ![q] = [core.inst[q] EXCEPT !.stage = "COMPLETE", !.check = fails]]
    BY <1>1, <2>1 DEF CoreFields, InstFields
  <2> HIDE DEF done
  <2>3. /\ DOMAIN done.inst = DOMAIN core.inst
        /\ \A p \in DOMAIN core.inst : p # q => done.inst[p] = core.inst[p]
        /\ done.inst[q] = [core.inst[q] EXCEPT !.stage = "COMPLETE", !.check = fails]
    BY <1>1, <2>2
  <2>4. /\ DOMAIN done.inst[q] = InstFields
        /\ done.inst[q].uop = core.inst[q].uop /\ done.inst[q].pc = core.inst[q].pc
        /\ done.inst[q].src = core.inst[q].src /\ done.inst[q].ext = core.inst[q].ext
        /\ done.inst[q].storeWaiters = core.inst[q].storeWaiters
        /\ done.inst[q].stage = "COMPLETE"
    BY <2>1, <2>3 DEF InstFields
  <2> QED
    BY <1>1, <2>2, <2>3, <2>4 DEF Turn
<1> HIDE DEF fails, done
<1>6. CoreInv(done, {}) /\ Tame(core, done)
  BY <1>1, <1>2, <1>5, ExecutionEnds
<1>7. CASE /\ core' = Flush(done, q + 1) /\ FlushPointers(q + 1, {q})
           /\ fetchRip' = core.inst[q].pc + 1
  BY <1>1, <1>2, <1>4, <1>6, <1>7, FlushedStep
<1>8. CASE core' = done /\ UNCHANGED <<pointers, fetchRip>>
  BY <1>2, <1>6, <1>8, TameStep
<1> QED
  BY <1>3, <1>7, <1>8

(* Simics' states while it executes the uops of an instruction. *)
SimRuns(w, b, uops, n) ==
  w = [i \in 0 .. n |-> IF i = 0 THEN b ELSE SimUop(w[i - 1], uops[i])]

(* The recursive function of SimStep exists. *)
LEMMA SimRunsExists ==
  ASSUME NEW b, NEW uops, NEW n \in Nat
  PROVE  \E w : SimRuns(w, b, uops, n)
<1> DEFINE Fold(m, w) == w = [i \in 0 .. m |-> IF i = 0 THEN b ELSE SimUop(w[i - 1], uops[i])]
           T == {m \in Nat : \E w : Fold(m, w)}
<1>1. 0 \in T
  <2>1. Fold(0, [i \in 0 .. 0 |-> b])
    OBVIOUS
  <2> QED
    BY <2>1
<1>2. ASSUME NEW m \in Nat, m \in T PROVE m + 1 \in T
  <2>1. PICK w : Fold(m, w)
    BY <1>2
  <2> DEFINE x == [i \in 0 .. m + 1 |-> IF i <= m THEN w[i] ELSE SimUop(w[m], uops[m + 1])]
  <2>2. \A i \in 0 .. m + 1 : x[i] = IF i = 0 THEN b ELSE SimUop(x[i - 1], uops[i])
    <3> SUFFICES ASSUME NEW i \in 0 .. m + 1
                 PROVE  x[i] = IF i = 0 THEN b ELSE SimUop(x[i - 1], uops[i])
      OBVIOUS
    <3>1. CASE i <= m
      <4>1. x[i] = IF i = 0 THEN b ELSE SimUop(w[i - 1], uops[i])
        BY <2>1, <3>1
      <4>2. i # 0 => x[i - 1] = w[i - 1]
        BY <3>1
      <4> QED
        BY <4>1, <4>2
    <3>2. CASE i = m + 1
      <4>1. x[i] = SimUop(w[m], uops[i]) /\ x[i - 1] = w[m] /\ i # 0
        BY <3>2
      <4> QED
        BY <4>1
    <3> QED
      BY <3>1, <3>2
  <2>3. Fold(m + 1, x)
    BY <2>2
  <2> HIDE DEF x, Fold
  <2> QED
    BY <2>3
<1> HIDE DEF T
<1>3. n \in T
  BY <1>1, <1>2, InductionOverSet
<1> QED
  BY <1>3 DEF T, SimRuns

(* Simics stays in the program, or reaches its end. *)
SimOK(s) ==
  DOMAIN s = {"mem", "r", "pc", "skip"} /\ s.pc \in 1 .. (Len(prog) + 1)

(* One uop. *)
LEMMA SimUopStays ==
  ASSUME NEW s, SimOK(s), NEW uop, WellFormed(uop, prog), NEW d, d = SimUop(s, uop)
  PROVE  SimOK(d)
<1> DEFINE at == uop.at[Cond(s.r)]
           quiet == ~s.skip /\ at \cap BadBytes = {}
           cond == Cond(s.r)
           loaded == Restrict(s.mem, at)
           written == [b \in DOMAIN s.mem |-> IF b \in at THEN uop.val[cond] ELSE s.mem[b]]
           next == IF cond THEN uop.target ELSE s.pc
<1> HIDE DEF at, quiet, cond, loaded, written, next
<1>1. \/ d = s
      \/ d = [s EXCEPT !.r = loaded]
      \/ d = [s EXCEPT !.mem = written]
      \/ uop.op = "br" /\ d = [s EXCEPT !.pc = next]
      \/ d = [s EXCEPT !.skip = ~cond]
  <2>1. CASE ~quiet
    BY <2>1 DEF SimUop, at, quiet
  <2>2. CASE quiet /\ uop.op = "ld"
    BY <2>2 DEF SimUop, at, quiet, loaded
  <2>3. CASE quiet /\ uop.op = "st"
    BY <2>3 DEF SimUop, at, quiet, written, cond
  <2>4. CASE quiet /\ uop.op = "br"
    BY <2>4 DEF SimUop, at, quiet, next, cond
  <2>5. CASE quiet /\ uop.op = "chk"
    BY <2>5 DEF SimUop, at, quiet, cond
  <2>6. CASE quiet /\ uop.op \notin {"ld", "st", "br", "chk"}
    BY <2>6 DEF SimUop, at, quiet
  <2> QED
    BY <2>1, <2>2, <2>3, <2>4, <2>5, <2>6
<1>2. uop.op = "br" => next \in 1 .. (Len(prog) + 1)
  BY DEF next, SimOK, WellFormed
<1> QED
  BY <1>1, <1>2 DEF SimOK

(* The instruction pointer after a step of Simics. *)
LEMMA SimStays ==
  ASSUME IInv, sim.pc \in DOMAIN prog
  PROVE  SimStep.pc \in 1 .. (Len(prog) + 1)
<1> DEFINE uops == prog[sim.pc]
           b == [mem |-> core.mem, r |-> sim.r, pc |-> sim.pc + 1, skip |-> FALSE]
           n == Len(uops)
           w == CHOOSE w : w = [i \in 0 .. n |-> IF i = 0 THEN b ELSE SimUop(w[i - 1], uops[i])]
<1>1. SimStep = w[n]
  BY DEF SimStep
<1>2. n \in Nat /\ \A k \in 1 .. n : WellFormed(uops[k], prog)
  <2>1. uops \in Seq(Range(uops)) /\ \A k \in DOMAIN uops : WellFormed(uops[k], prog)
    BY WindowFacts, ProgramAssumption
  <2> QED
    BY <2>1
<1>3. SimOK(b)
  BY ProgramIsSequence DEF SimOK
<1> HIDE DEF uops, b
<1>4. w = [i \in 0 .. n |-> IF i = 0 THEN b ELSE SimUop(w[i - 1], uops[i])]
  <2> HIDE DEF n
  <2>1. \E x : SimRuns(x, b, uops, n)
    BY <1>2, SimRunsExists
  <2>2. w = CHOOSE x : SimRuns(x, b, uops, n)
    BY DEF SimRuns
  <2>3. SimRuns(w, b, uops, n)
    <3> HIDE DEF w
    <3> QED
      BY <2>1, <2>2
  <2> HIDE DEF w
  <2> QED
    BY <2>3 DEF SimRuns
<1> HIDE DEF w, n
<1> DEFINE T == {k \in Nat : k <= n => SimOK(w[k])}
<1>5. 0 \in T
  BY <1>2, <1>3, <1>4
<1>6. ASSUME NEW k \in Nat, k \in T PROVE k + 1 \in T
  <2> SUFFICES ASSUME k + 1 <= n PROVE SimOK(w[k + 1])
    OBVIOUS
  <2>1. SimOK(w[k]) /\ k + 1 \in 1 .. n
    BY <1>2, <1>6
  <2>2. w[k + 1] = SimUop(w[k], uops[k + 1])
    BY <1>2, <1>4, <2>1
  <2> QED
    BY <1>2, <2>1, <2>2, SimUopStays
<1> HIDE DEF T
<1>7. n \in T
  BY <1>2, <1>5, <1>6, InductionOverSet
<1>8. SimOK(w[n])
  BY <1>2, <1>7 DEF T
<1> QED
  BY <1>1, <1>8 DEF SimOK

(* RetireReady *)
LEMMA HeadIsReady ==
  ASSUME IInv, RetireReady
  PROVE  /\ qRetire < qExecute /\ qRetire \in DOMAIN core.inst /\ qRetire \in qTail .. qRename
         /\ qRetire + 1 \in qTail .. qRename /\ core.bad # qRetire
         /\ CoreInv(AtHead, {}) /\ Tame(core, AtHead) /\ AtHead.bad = core.bad
         /\ AtHead.inst[qRetire].stage = "COMPLETE"
         /\ PositionsOK(AtHead, qTail, qRetire, qExecute, qRename, qHead)
<1>1. /\ qRetire < qExecute /\ core.bad # qRetire
      /\ AtHead.inst[qRetire].stage = "COMPLETE"
  BY DEF RetireReady, MayRetire
<1>2. /\ qRetire \in DOMAIN core.inst /\ qRetire \in qTail .. qRename
      /\ qRetire + 1 \in qTail .. qRename
  BY <1>1, WindowFacts
<1> QED
  BY <1>1, <1>2, HeadIsAsked

(* A store at the head waits for its line. *)
LEMMA RetireStoreMissKeepsCore ==
  ASSUME IInv, RetireStoreMiss
  PROVE  CoreOK'
<1>1. CoreInv(core', {}) /\ Tame(core, core') /\ UNCHANGED <<prog, pointers, fetchRip, sim>>
  BY HeadIsAsked DEF RetireStoreMiss, MayRetire
<1> QED
  BY <1>1, TameStep

(* A load that read too early is replayed. *)
LEMMA RetireReplayKeepsCore ==
  ASSUME IInv, RetireReplay
  PROVE  CoreOK'
<1>1. /\ core' = Replay(AtHead, qRetire) /\ ReplayPointers(qRetire) /\ RetireReady
      /\ UNCHANGED <<prog, fetchRip, sim>>
  BY DEF RetireReplay
<1>2. /\ CoreInv(AtHead, {}) /\ Tame(core, AtHead) /\ AtHead.bad = core.bad
      /\ PositionsOK(AtHead, qTail, qRetire, qExecute, qRename, qHead)
      /\ qRetire \in qTail .. qRename /\ qRetire \in DOMAIN core.inst
  BY <1>1, HeadIsReady
<1>3. qRetire \in Nat
  BY WindowFacts
<1> DEFINE c == AtHead
<1> HIDE DEF c
<1>4. /\ CoreInv(core', {}) /\ Back(c, core', qRetire)
      /\ PositionsOK(core', qTail, Min({qRetire, qRetire}), Min({qExecute, qRetire}), qRetire, qHead)
  BY <1>1, <1>2, <1>3, ReplayKeepsCore DEF c
<1>5. CoreInv(core, {})'
  BY <1>1, <1>4, CoreInvNext
<1>6. Positions'
  BY <1>1, <1>4 DEF Positions, PositionsOK, ReplayPointers
<1>7. FetchOK'
  <2>1. DOMAIN core'.inst = DOMAIN core.inst
    <3>1. DOMAIN core.inst = qTail .. (qHead - 1)
      BY WindowFacts
    <3> QED
      BY <3>1, <1>4 DEF PositionsOK
  <2>2. \A q \in DOMAIN core.inst : core'.inst[q].pc = core.inst[q].pc
    BY <2>1, <1>2, <1>4 DEF Back, Tame, c
  <2>3. core'.bad = qHead => core.bad = qHead
    <3>1. qHead # NoBad
      BY WindowFacts DEF NoBad
    <3> QED
      BY <3>1, <1>2, <1>4 DEF Back, c
  <2>4. UNCHANGED <<prog, qTail, qHead, fetchRip, sim>>
    BY <1>1 DEF ReplayPointers
  <2> QED
    BY <2>2, <2>3, <2>4, FetchStays
<1> QED
  BY <1>5, <1>6, <1>7 DEF CoreOK

(* A check that no longer fails is fetched again. *)
LEMMA RetireRefetchKeepsCore ==
  ASSUME IInv, RetireRefetch
  PROVE  CoreOK'
<1>1. /\ core' = Flush(core, first[qRetire]) /\ FlushPointers(first[qRetire], {})
      /\ fetchRip' = core.inst[first[qRetire]].pc /\ UNCHANGED <<prog, sim>> /\ RetireReady
  BY DEF RetireRefetch, FirstUop
<1>2. qRetire \in DOMAIN core.inst /\ CoreInv(core, {}) /\ Tame(core, core)
      /\ qTail \in Nat /\ qRetire \in Nat /\ qRename \in Nat /\ qRetire <= qRename
  BY <1>1, HeadIsReady, WindowFacts DEF Tame
<1>3. /\ first[qRetire] \in qTail .. qRetire /\ core.inst[first[qRetire]].pc \in 1 .. (Len(prog) + 1)
      /\ first[qRetire] = qTail => core.inst[first[qRetire]].pc = sim.pc
  BY <1>2, RefetchIsPossible
<1>4. first[qRetire] \in qTail .. qRename
  BY <1>2, <1>3
<1> QED
  BY <1>1, <1>2, <1>3, <1>4, FlushedStep

(* The instruction at the head retires. *)
LEMMA OneMoreRetires ==
  ASSUME NEW c, NEW t \in Nat, NEW r \in Nat, NEW e \in Nat, NEW n \in Nat, NEW h \in Nat,
         PositionsOK(c, t, r, e, n, h), r < h, Shape(c), c.inst[r].stage = "COMPLETE", c.bad # r
  PROVE  PositionsOK(c, t, r + 1, e, n, h)
<1>1. DOMAIN c.inst = t .. (h - 1) /\ c.bad \in Nat
  BY DEF PositionsOK, Shape
<1>2. ASSUME NEW q \in DOMAIN c.inst, q < r + 1 PROVE c.inst[q].stage = "COMPLETE"
  <2>1. q < r \/ q = r
    BY <1>1, <1>2
  <2> QED
    BY <2>1 DEF PositionsOK
<1>3. c.bad # NoBad => r + 1 <= c.bad /\ c.bad <= h
  BY <1>1 DEF PositionsOK
<1> QED
  BY <1>2, <1>3 DEF PositionsOK

(* What is renamed again after a load that lost its line, and what not. *)
LEMMA ViolationIsRepaired ==
  ASSUME IInv, RetireReady, YoungerPointers, NEW d, d = AfterViolation
  PROVE  /\ CoreInv(d, {}) /\ qRename' \in Nat /\ qExecute' \in Nat
         /\ PositionsOK(d, qTail, qRetire + 1, qExecute', qRename', qHead)
         /\ DOMAIN d.inst = DOMAIN core.inst
         /\ \A q \in DOMAIN core.inst : d.inst[q].pc = core.inst[q].pc
         /\ d.bad = qHead => core.bad = qHead
<1> DEFINE c == AtHead
           from == qRetire + 1
<1>1. /\ qTail \in Nat /\ qRetire \in Nat /\ qExecute \in Nat /\ qRename \in Nat /\ qHead \in Nat
      /\ qRename <= qHead /\ DOMAIN core.inst = qTail .. (qHead - 1) /\ qHead # NoBad
      /\ qExecute <= qRename
  BY WindowFacts DEF NoBad
<1>2. /\ CoreInv(c, {}) /\ Tame(core, c) /\ c.bad = core.bad
      /\ PositionsOK(c, qTail, qRetire, qExecute, qRename, qHead)
      /\ from \in qTail .. qRename /\ qRetire < qExecute
      /\ c.inst[qRetire].stage = "COMPLETE" /\ core.bad # qRetire
  BY HeadIsReady
<1>3. \/ d = Replay(c, from) /\ qRename' = from /\ qExecute' = Min({qExecute, from})
      \/ d = c /\ qRename' = qRename /\ qExecute' = qExecute
  BY DEF AfterViolation, YoungerPointers
<1> HIDE DEF c
<1>4. PositionsOK(c, qTail, qRetire + 1, qExecute, qRename, qHead)
  BY <1>1, <1>2, OneMoreRetires DEF CoreInv
<1> HIDE DEF from
<1>5. from \in Nat /\ PositionsOK(c, qTail, from, qExecute, qRename, qHead)
  BY <1>1, <1>4 DEF from
<1>6. CASE d = Replay(c, from) /\ qRename' = from /\ qExecute' = Min({qExecute, from})
  <2>1. /\ CoreInv(d, {}) /\ Back(c, d, from)
        /\ PositionsOK(d, qTail, Min({from, from}), Min({qExecute, from}), from, qHead)
    BY <1>2, <1>5, <1>6, ReplayKeepsCore
  <2>2. Min({from, from}) = from /\ Min({qExecute, from}) \in Nat
    <3>1. /\ Min({from, from}) = IF from <= from THEN from ELSE from
          /\ Min({qExecute, from}) = IF qExecute <= from THEN qExecute ELSE from
      BY <1>1, <1>5, MinOfTwo
    <3> QED
      BY <1>1, <1>5, <3>1
  <2>3. DOMAIN d.inst = DOMAIN core.inst
    BY <1>1, <2>1 DEF PositionsOK
  <2>4. \A q \in DOMAIN core.inst : d.inst[q].pc = core.inst[q].pc
    BY <1>2, <2>1, <2>3 DEF Back, Tame
  <2>5. d.bad = qHead => core.bad = qHead
    BY <1>1, <1>2, <2>1 DEF Back
  <2>6. PositionsOK(d, qTail, from, qExecute', qRename', qHead)
    BY <1>6, <2>1, <2>2
  <2> QED
    BY <1>5, <1>6, <2>1, <2>2, <2>3, <2>4, <2>5, <2>6 DEF from
<1>7. CASE d = c /\ qRename' = qRename /\ qExecute' = qExecute
  BY <1>1, <1>2, <1>4, <1>7 DEF Tame
<1> QED
  BY <1>3, <1>6, <1>7

(* A uop retires within its x86 instruction. *)
LEMMA RetireMiddleKeepsCore ==
  ASSUME IInv, RetireMiddle
  PROVE  CoreOK'
<1>1. /\ core' = AfterViolation /\ YoungerPointers /\ qRetire' = qRetire + 1 /\ RetireReady
      /\ UNCHANGED <<prog, qTail, qHead, fetchRip, sim>>
  BY DEF RetireMiddle, RetireUop
<1>2. /\ CoreInv(core', {}) /\ qRename' \in Nat /\ qExecute' \in Nat
      /\ PositionsOK(core', qTail, qRetire + 1, qExecute', qRename', qHead)
      /\ DOMAIN core'.inst = DOMAIN core.inst
      /\ \A q \in DOMAIN core.inst : core'.inst[q].pc = core.inst[q].pc
      /\ core'.bad = qHead => core.bad = qHead
  BY <1>1, ViolationIsRepaired
<1>3. CoreInv(core, {})'
  BY <1>1, <1>2, CoreInvNext
<1>4. Positions'
  BY <1>1, <1>2 DEF Positions, PositionsOK
<1>5. FetchOK'
  BY <1>1, <1>2, FetchStays
<1> QED
  BY <1>3, <1>4, <1>5 DEF CoreOK

(* While something is to retire, Simics is inside the program. *)
LEMMA SimIsInProgram ==
  ASSUME IInv, qTail # qHead \/ core.bad = qHead
  PROVE  sim.pc \in DOMAIN prog
<1>1. FetchOK /\ \A q \in DOMAIN core.inst : InstOK(core, q)
  BY WindowFacts
<1>2. CASE qTail # qHead
  <2>1. qTail \in DOMAIN core.inst
    BY <1>2, WindowFacts
  <2> QED
    BY <1>1, <1>2, <2>1 DEF FetchOK, InstOK
<1>3. CASE qTail = qHead
  BY <1>1, <1>3 DEF FetchOK
<1> QED
  BY <1>2, <1>3

(* Processor::resetUopBuf: an empty window, where Simics is. *)
LEMMA ResetStep ==
  ASSUME IInv, NEW c, CoreInv(c, {}), core' = Reset(c, SimStep), ResetPointers,
         sim.pc \in DOMAIN prog, sim'.pc = SimStep.pc, fetchRip' = SimStep.pc, prog' = prog
  PROVE  CoreOK'
<1>1. CoreInv(core', {}) /\ DOMAIN core'.inst = {} /\ core'.bad = NoBad
  <2>1. Shape(c) /\ \A p \in DOMAIN c.inst : InstOK(c, p)
    BY DEF CoreInv
  <2> QED
    BY <2>1, ResetEmpties
<1>2. CoreInv(core, {})'
  BY <1>1, CoreInvNext
<1>3. /\ qTail' = qTail /\ qRetire' = qTail /\ qExecute' = qTail /\ qRename' = qTail /\ qHead' = qTail
  BY DEF ResetPointers
<1>4. qTail \in Nat /\ qTail < NoBad
  BY WindowFacts DEF NoBad
<1>5. Positions'
  BY <1>1, <1>3, <1>4 DEF Positions, PositionsOK
<1>6. FetchOK'
  <2>1. SimStep.pc \in 1 .. (Len(prog) + 1)
    BY SimStays
  <2>2. core'.bad # qHead'
    BY <1>1, <1>3, <1>4
  <2> QED
    BY <1>3, <2>1, <2>2 DEF FetchOK
<1> QED
  BY <1>2, <1>5, <1>6 DEF CoreOK

(* Simics executes alone what cannot be executed here. *)
LEMMA RetireBadKeepsCore ==
  ASSUME IInv, RetireBad
  PROVE  CoreOK'
<1>1. /\ core.bad = qRetire /\ core' = Reset(core, SimStep) /\ ResetPointers
      /\ sim' = [r |-> SimStep.r, pc |-> SimStep.pc] /\ fetchRip' = SimStep.pc /\ prog' = prog
  BY DEF RetireBad
<1>2. qTail # qHead \/ core.bad = qHead
  BY <1>1, WindowFacts
<1> QED
  BY <1>1, <1>2, SimIsInProgram, ResetStep, WindowFacts

(* Validation fails. *)
LEMMA CommitFailsKeepsCore ==
  ASSUME IInv, CommitFails
  PROVE  CoreOK'
<1>1. /\ RetireReady /\ core' = Reset(AtHead, SimStep) /\ ResetPointers
      /\ sim' = [r |-> SimStep.r, pc |-> SimStep.pc] /\ fetchRip' = SimStep.pc /\ prog' = prog
  BY DEF CommitFails, RetireUop
<1>2. qTail # qHead /\ CoreInv(AtHead, {})
  BY <1>1, WindowFacts, HeadIsReady
<1> DEFINE c == AtHead
<1>3. c = AtHead
  OBVIOUS
<1> HIDE DEF c
<1>4. sim'.pc = SimStep.pc
  BY <1>1
<1> QED
  BY <1>1, <1>2, <1>3, <1>4, SimIsInProgram, ResetStep

(* Validation succeeds: an x86 instruction leaves the window. *)
LEMMA CommitKeepsCoreOK ==
  ASSUME IInv, Commit
  PROVE  CoreOK'
<1> DEFINE c == AfterViolation
<1>1. /\ RetireReady /\ YoungerPointers /\ Validated
      /\ core' = [c EXCEPT !.inst = Restrict(@, {q \in DOMAIN @ : q > qRetire}),
                           !.lsq = @ \ Committing,
                           !.mem = SimStep.mem, !.old = RetireRegister]
      /\ qTail' = qRetire + 1 /\ qRetire' = qRetire + 1
      /\ sim' = [r |-> SimStep.r, pc |-> SimStep.pc]
      /\ UNCHANGED <<prog, qHead, fetchRip>>
  BY DEF Commit, RetireUop
<1>2. /\ qTail \in Nat /\ qRetire \in Nat /\ qHead \in Nat /\ qTail <= qRetire /\ qRetire < qHead
      /\ DOMAIN core.inst = qTail .. (qHead - 1) /\ FetchOK /\ qHead < NoBad
  BY <1>1, HeadIsReady, WindowFacts
<1>3. /\ CoreInv(c, {}) /\ qRename' \in Nat /\ qExecute' \in Nat
      /\ PositionsOK(c, qTail, qRetire + 1, qExecute', qRename', qHead)
      /\ DOMAIN c.inst = DOMAIN core.inst
      /\ \A q \in DOMAIN core.inst : c.inst[q].pc = core.inst[q].pc
      /\ c.bad = qHead => core.bad = qHead
  BY <1>1, ViolationIsRepaired
<1> HIDE DEF c
<1>4. Shape(c) /\ c.bad \in Nat
  BY <1>3 DEF CoreInv, Shape
<1>5. /\ DOMAIN core' = CoreFields /\ core'.lines = c.lines /\ core'.bad = c.bad
      /\ core'.lsq = c.lsq \ Committing
      /\ core'.inst = Restrict(c.inst, {q \in DOMAIN c.inst : q > qRetire})
  BY <1>1, <1>4 DEF Shape, CoreFields
<1>6. /\ DOMAIN core'.inst = {q \in DOMAIN c.inst : q > qRetire}
      /\ \A p \in DOMAIN core'.inst : core'.inst[p] = c.inst[p]
  BY <1>5 DEF Restrict
<1>7. core'.lsq = {p \in c.lsq : p > qRetire}
  BY <1>2, <1>3, <1>4, <1>5 DEF Shape, Committing
<1>8. \A p \in DOMAIN c.inst : p <= qRetire => c.inst[p].stage = "COMPLETE"
  BY <1>2, <1>3 DEF PositionsOK
<1>9. Committed(c, core', qRetire)
  BY <1>5, <1>6, <1>7, <1>8 DEF Committed
<1>10. CoreInv(core', {})
  BY <1>2, <1>3, <1>9, CommitKeepsCore
<1>11. CoreInv(core, {})'
  BY <1>1, <1>10, CoreInvNext
<1>12. PositionsOK(core', qRetire + 1, qRetire + 1, qExecute', qRename', qHead)
  <2>1. DOMAIN core'.inst = (qRetire + 1) .. (qHead - 1)
    BY <1>2, <1>3, <1>6
  <2>2. ASSUME NEW q \in DOMAIN core'.inst
        PROVE  q \in DOMAIN c.inst /\ core'.inst[q].stage = c.inst[q].stage
    BY <1>6
  <2>3. \A q \in DOMAIN core'.inst :
          /\ q < qRetire + 1 => core'.inst[q].stage = "COMPLETE"
          /\ q >= qExecute' => core'.inst[q].stage \in {"FETCH", "DECODE", "COMPLETE"}
          /\ q >= qRename' => core'.inst[q].stage = "FETCH"
    BY <1>3, <2>2 DEF PositionsOK
  <2>4. core'.bad # NoBad => qRetire + 1 <= core'.bad /\ core'.bad <= qHead
    BY <1>3, <1>5 DEF PositionsOK
  <2> QED
    BY <1>2, <2>1, <2>3, <2>4 DEF PositionsOK
<1>13. Positions'
  BY <1>1, <1>12 DEF Positions, PositionsOK
<1>14. FetchOK'
  <2>1. SimStep.pc \in 1 .. (Len(prog) + 1)
    BY <1>2, SimIsInProgram, SimStays
  <2>2. RetireRip = SimStep.pc
    BY <1>1 DEF Validated
  <2>3. CASE qRetire + 1 = qHead
    <3>1. fetchRip = SimStep.pc
      BY <1>2, <2>2, <2>3 DEF RetireRip
    <3> QED
      BY <1>1, <1>2, <1>3, <1>5, <2>1, <2>3, <3>1 DEF FetchOK
  <2>4. CASE qRetire + 1 # qHead
    <3>1. qHead > qRetire + 1 /\ qRetire + 1 \in DOMAIN core.inst /\ qRetire + 1 \in DOMAIN core'.inst
      BY <1>2, <1>3, <1>6, <2>4
    <3>2. core.inst[qRetire + 1].pc = SimStep.pc
      BY <2>2, <3>1 DEF RetireRip
    <3>3. core'.inst[qRetire + 1].pc = SimStep.pc
      BY <1>3, <1>6, <3>1, <3>2
    <3> QED
      BY <1>1, <1>2, <1>3, <1>5, <2>1, <2>4, <3>3 DEF FetchOK
  <2> QED
    BY <2>3, <2>4
<1> QED
  BY <1>11, <1>13, <1>14 DEF CoreOK

(* From c to d the instructions of N are fetched. *)
Fetched(c, d, N) ==
  /\ DOMAIN d = CoreFields /\ d.lsq = c.lsq /\ d.bad = c.bad /\ d.lines = c.lines
  /\ DOMAIN d.inst = DOMAIN c.inst \cup N /\ N \cap DOMAIN c.inst = {} /\ N \subseteq Nat
  /\ \A p \in DOMAIN c.inst : d.inst[p] = c.inst[p]
  /\ \A p \in N :
       /\ DOMAIN d.inst[p] = InstFields
       /\ WellFormed(d.inst[p].uop, prog) /\ d.inst[p].pc \in DOMAIN prog
       /\ d.inst[p].stage = "FETCH" /\ d.inst[p].src = NoQ /\ d.inst[p].ext = {}
       /\ d.inst[p].storeWaiters = <<>>

(* New instructions wait for nothing. *)
LEMMA NewKeepsCore ==
  ASSUME NEW c, CoreInv(c, {}), NEW d, NEW N, Fetched(c, d, N)
  PROVE  CoreInv(d, {})
<1>1. Shape(c)
  BY DEF CoreInv
<1>2. \A x \in Places(c) : x \in Places(d) /\ WaitList(d, x) = WaitList(c, x)
  BY DEF Places, WaitList, Fetched
<1>3. ASSUME NEW x \in Places(d), x \notin Places(c)
      PROVE  WaitList(d, x) = <<>>
  <2>1. x[1] = "store" /\ x[2] \in N
    BY <1>3 DEF Places, Fetched
  <2> QED
    BY <2>1 DEF WaitList, Fetched
<1>4. DOMAIN <<>> = {} /\ <<>> \in Seq(Waiter)
  OBVIOUS
<1>5. ASSUME NEW x \in Places(d), NEW i \in DOMAIN WaitList(d, x)
      PROVE  x \in Places(c) /\ WaitList(d, x) = WaitList(c, x)
  BY <1>2, <1>3, <1>4, <1>5
<1>6. Shape(d)
  <2>1. \A x \in Places(d) : WaitList(d, x) \in Seq(Waiter)
    BY <1>1, <1>2, <1>3, <1>4 DEF Shape
  <2> QED
    BY <1>1, <2>1 DEF Shape, Fetched
<1>7. ASSUME NEW q \in DOMAIN d.inst PROVE InstOK(d, q)
  <2>1. CASE q \in DOMAIN c.inst
    <3>1. InstOK(c, q) /\ d.inst[q] = c.inst[q]
      BY <2>1 DEF CoreInv, Fetched
    <3> QED
      BY <3>1 DEF InstOK, Fetched
  <2>2. CASE q \in N
    <3>1. q \in Nat /\ q \notin d.lsq
      BY <1>1, <2>2 DEF Fetched, Shape
    <3> QED
      BY <2>2, <3>1 DEF Fetched, InstOK, Stages, Early, NoQ
  <2> QED
    BY <2>1, <2>2 DEF Fetched
<1>8. ASSUME NEW x \in Places(d), NEW i \in DOMAIN WaitList(d, x)
      PROVE  EntryOK(d, x, WaitList(d, x)[i])
  <2> DEFINE w == WaitList(d, x)[i]
  <2>1. x \in Places(c) /\ WaitList(d, x) = WaitList(c, x)
    BY <1>5
  <2>2. EntryOK(c, x, w)
    BY <2>1 DEF CoreInv
  <2> HIDE DEF w
  <2>3. w.q # NoQ => w.q \in DOMAIN c.inst /\ w.q \in DOMAIN d.inst /\ d.inst[w.q] = c.inst[w.q]
    BY <2>2 DEF EntryOK, Fetched
  <2>4. x[1] = "store" => x[2] \in DOMAIN c.inst /\ d.inst[x[2]] = c.inst[x[2]]
    BY <2>1 DEF Places, Fetched
  <2>5. d.lsq = c.lsq
    BY DEF Fetched
  <2>6. EntryOK(d, x, w)
    BY <2>2, <2>3, <2>4, <2>5 DEF EntryOK
  <2> QED
    BY <2>6 DEF w
<1>9. Alone(d)
  <2> SUFFICES ASSUME NEW x \in Places(d), NEW y \in Places(d),
                      NEW i \in DOMAIN WaitList(d, x), NEW j \in DOMAIN WaitList(d, y),
                      WaitList(d, x)[i].q = WaitList(d, y)[j].q, WaitList(d, x)[i].q # NoQ
               PROVE  x = y /\ i = j
    BY DEF Alone
  <2>1. /\ x \in Places(c) /\ WaitList(d, x) = WaitList(c, x)
        /\ y \in Places(c) /\ WaitList(d, y) = WaitList(c, y)
    BY <1>5
  <2> QED
    BY <2>1 DEF CoreInv, Alone
<1>10. Waited(d, {})
  <2> SUFFICES ASSUME NEW q \in DOMAIN d.inst, d.inst[q].uop.op = "ld", d.inst[q].stage = "MEMORY"
               PROVE  On(d, q)
    BY DEF Waited
  <2>1. q \in DOMAIN c.inst /\ d.inst[q] = c.inst[q]
    BY DEF Fetched
  <2>2. On(c, q)
    BY <2>1 DEF CoreInv, Waited
  <2>3. PICK x \in Places(c) : \E i \in DOMAIN WaitList(c, x) : WaitList(c, x)[i].q = q
    BY <2>2 DEF On
  <2> QED
    BY <1>2, <2>3 DEF On
<1> QED
  BY <1>6, <1>7, <1>8, <1>9, <1>10 DEF CoreInv

(* Processor::fetch *)
LEMMA FetchKeepsCore ==
  ASSUME IInv, Fetch
  PROVE  CoreOK'
<1> DEFINE uops == Decode(prog[fetchRip], crack)
           n == Len(uops)
           N == qHead .. (qHead + n - 1)
           last == uops[n]
           Successors == {fetchRip + 1} \cup (IF last.op = "br" THEN {last.target} ELSE {})
<1>1. /\ fetchRip \in DOMAIN prog /\ prog[fetchRip] # <<>> /\ core.bad = NoBad
      /\ qHead + MaxUops < NoBad /\ qHead' = qHead + n
      /\ UNCHANGED <<prog, qTail, qRetire, qExecute, qRename, sim>>
  BY DEF Fetch, MayFetch
<1>2. PICK next \in Successors :
        /\ core' = [core EXCEPT !.inst = Override(@, [q \in N |-> NewInst(uops[q - qHead + 1], next)])]
        /\ fetchRip' = next
  BY DEF Fetch
<1>3. /\ uops \in Seq(Range(uops)) /\ n \in 1 .. MaxUops
      /\ \A k \in DOMAIN uops : WellFormed(uops[k], prog)
  BY <1>1, WindowFacts, ProgramAssumption DEF IInv, WindowInv
<1>4. /\ CoreInv(core, {}) /\ Shape(core) /\ FetchOK
      /\ PositionsOK(core, qTail, qRetire, qExecute, qRename, qHead)
      /\ qTail \in Nat /\ qRetire \in Nat /\ qExecute \in Nat /\ qRename \in Nat /\ qHead \in Nat
      /\ qTail <= qRetire /\ qRetire <= qExecute /\ qExecute <= qRename /\ qRename <= qHead
      /\ DOMAIN core.inst = qTail .. (qHead - 1) /\ MaxUops \in Nat
  BY WindowFacts, WindowAssumption
<1> HIDE DEF uops, n
<1>5. /\ n \in Nat /\ n >= 1 /\ n <= MaxUops
      /\ \A k \in 1 .. n : WellFormed(uops[k], prog)
  BY <1>3, <1>4 DEF n
<1>6. next \in 1 .. (Len(prog) + 1)
  <2>1. fetchRip + 1 \in 1 .. (Len(prog) + 1)
    BY <1>1, ProgramIsSequence
  <2>2. last.op = "br" => last.target \in 1 .. (Len(prog) + 1)
    BY <1>5 DEF WellFormed
  <2> QED
    BY <1>2, <2>1, <2>2
<1>7. /\ DOMAIN core' = CoreFields /\ core'.lsq = core.lsq /\ core'.bad = core.bad
      /\ core'.lines = core.lines
      /\ core'.inst = Override(core.inst, [q \in N |-> NewInst(uops[q - qHead + 1], next)])
  BY <1>2, <1>4 DEF Shape, CoreFields
<1>8. /\ N \cap DOMAIN core.inst = {} /\ N \subseteq Nat /\ N # {}
      /\ DOMAIN core.inst \cup N = qTail .. (qHead + n - 1)
  <2>1. DOMAIN core.inst = qTail .. (qHead - 1) /\ qTail <= qHead
        /\ qTail \in Nat /\ qHead \in Nat /\ n \in Nat /\ n >= 1
    BY <1>4, <1>5
  <2>2. N \cap DOMAIN core.inst = {} /\ N \subseteq Nat
    BY <2>1
  <2>3. qHead \in N
    BY <2>1
  <2>4. \A q : q \in DOMAIN core.inst \cup N <=> q \in qTail .. (qHead + n - 1)
    BY <2>1
  <2> QED
    BY <2>2, <2>3, <2>4
<1> HIDE DEF N, Successors, last
<1>9. /\ DOMAIN core'.inst = DOMAIN core.inst \cup N
      /\ \A p \in DOMAIN core.inst : core'.inst[p] = core.inst[p]
      /\ \A p \in N : core'.inst[p] = NewInst(uops[p - qHead + 1], next)
  BY <1>7, <1>8 DEF Override
<1>10. ASSUME NEW p \in N
       PROVE  /\ DOMAIN core'.inst[p] = InstFields
              /\ WellFormed(core'.inst[p].uop, prog) /\ core'.inst[p].pc = fetchRip
              /\ core'.inst[p].stage = "FETCH" /\ core'.inst[p].src = NoQ /\ core'.inst[p].ext = {}
              /\ core'.inst[p].storeWaiters = <<>>
  <2> DEFINE u == uops[p - qHead + 1]
  <2>1. WellFormed(u, prog)
    BY <1>4, <1>5 DEF N
  <2>2. core'.inst[p] = NewInst(u, next)
    BY <1>9
  <2> HIDE DEF u
  <2>3. DOMAIN NewInst(u, next) = InstFields
    BY DEF NewInst, InstFields
  <2> QED
    BY <2>1, <2>2, <2>3 DEF NewInst
<1>11. Fetched(core, core', N)
  BY <1>1, <1>7, <1>8, <1>9, <1>10 DEF Fetched
<1>12. CoreInv(core', {})
  BY <1>4, <1>11, NewKeepsCore
<1>13. CoreInv(core, {})'
  BY <1>1, <1>12, CoreInvNext
<1>14. PositionsOK(core', qTail, qRetire, qExecute, qRename, qHead + n)
  <2>1. ASSUME NEW q \in DOMAIN core'.inst
        PROVE  /\ q < qRetire => core'.inst[q].stage = "COMPLETE"
               /\ q >= qExecute => core'.inst[q].stage \in {"FETCH", "DECODE", "COMPLETE"}
               /\ q >= qRename => core'.inst[q].stage = "FETCH"
    <3>1. CASE q \in DOMAIN core.inst
      <4>1. core'.inst[q] = core.inst[q]
        BY <1>9, <3>1
      <4> QED
        BY <1>4, <3>1, <4>1 DEF PositionsOK
    <3>2. CASE q \in N
      <4>1. q >= qHead /\ core'.inst[q].stage = "FETCH"
        BY <1>4, <1>5, <1>10, <3>2 DEF N
      <4>2. q \in Nat
        BY <1>8, <3>2
      <4> QED
        BY <1>4, <4>1, <4>2
    <3> QED
      BY <1>9, <3>1, <3>2
  <2>2. DOMAIN core'.inst = qTail .. ((qHead + n) - 1)
    BY <1>4, <1>5, <1>8, <1>9
  <2>3. qHead + n < NoBad
    BY <1>1, <1>4, <1>5 DEF NoBad
  <2> QED
    BY <1>1, <1>7, <2>1, <2>2, <2>3 DEF PositionsOK
<1>15. Positions'
  BY <1>1, <1>14 DEF Positions, PositionsOK
<1>16. FetchOK'
  <2>1. core'.bad # qHead' /\ qTail # qHead'
    BY <1>1, <1>4, <1>5, <1>7 DEF NoBad
  <2>2. core'.inst[qTail].pc = sim.pc
    <3>1. CASE qTail = qHead
      <4>1. qTail \in N
        BY <1>4, <1>5, <3>1 DEF N
      <4> QED
        BY <1>4, <1>10, <3>1, <4>1 DEF FetchOK
    <3>2. CASE qTail # qHead
      <4>1. qTail \in DOMAIN core.inst
        BY <1>4, <3>2
      <4> QED
        BY <1>4, <1>9, <3>2, <4>1 DEF FetchOK
    <3> QED
      BY <3>1, <3>2
  <2> QED
    BY <1>1, <1>2, <1>4, <1>6, <2>1, <2>2 DEF FetchOK
<1> QED
  BY <1>13, <1>15, <1>16 DEF CoreOK

-----------------------------------------------------------------------------
(* The invariant and what it implies.                                      *)

(* The empty window of Init. *)
LEMMA InitIsOK ==
  ASSUME Init, WindowInv
  PROVE  CoreOK
<1>1. /\ core = [inst |-> [q \in {} |-> 0], lsq |-> {}, bad |-> NoBad, full |-> FALSE,
                 lines |-> [l \in Lines |-> Idle], perm |-> [l \in Lines |-> "I"],
                 mem |-> [b \in DOMAIN WordOf |-> 0], old |-> NoBytes]
      /\ qTail = 0 /\ qRetire = 0 /\ qExecute = 0 /\ qRename = 0 /\ qHead = 0
      /\ fetchRip = 1 /\ sim.pc = 1 /\ prog \in Programs
  BY DEF Init
<1>2. /\ DOMAIN core = CoreFields /\ DOMAIN core.inst = {} /\ core.lsq = {} /\ core.bad = NoBad
      /\ core.lines = [l \in Lines |-> Idle]
  BY <1>1 DEF CoreFields
<1>3. /\ DOMAIN core.lines = Lines
      /\ \A l \in Lines : DOMAIN core.lines[l] = {"type", "wait"} /\ core.lines[l].wait = <<>>
  BY <1>2 DEF Idle
<1>4. CoreInv(core, {})
  BY <1>2, <1>3, EmptyCore DEF NoBad
<1>5. Positions
  BY <1>1, <1>2 DEF Positions, PositionsOK, NoBad
<1>6. FetchOK
  <2>1. prog \in Seq(Range(prog))
    BY <1>1, ProgramAssumption
  <2>2. Len(prog) \in Nat
    BY <2>1
  <2>3. core.bad # qHead
    BY <1>1, <1>2 DEF NoBad
  <2> QED
    BY <1>1, <2>2, <2>3 DEF FetchOK
<1> QED
  BY <1>4, <1>5, <1>6 DEF CoreOK

(* Every step of the processor keeps the window and the lists in order. *)
LEMMA StepKeepsCore ==
  ASSUME IInv, [Next]_vars
  PROVE  IInv'
<1>1. WindowInv'
  BY StepKeepsWindow DEF IInv
<1> SUFFICES CoreOK'
  BY <1>1 DEF IInv
<1>2. CASE Fetch \/ FetchFails \/ Rename \/ RenameIllegal \/ Queue
  BY <1>2, FetchKeepsCore, FetchFailsKeepsCore, RenameKeepsCore, RenameIllegalKeepsCore, QueueKeepsCore
<1>3. CASE Retire
  <2>1. CASE RetireBad
    BY <2>1, RetireBadKeepsCore
  <2>2. CASE RetireStoreMiss
    BY <2>2, RetireStoreMissKeepsCore
  <2>3. CASE RetireReplay
    BY <2>3, RetireReplayKeepsCore
  <2>4. CASE RetireRefetch
    BY <2>4, RetireRefetchKeepsCore
  <2>5. CASE RetireMiddle
    BY <2>5, RetireMiddleKeepsCore
  <2>6. CASE Commit
    BY <2>6, CommitKeepsCoreOK
  <2>7. CASE CommitFails
    BY <2>7, CommitFailsKeepsCore
  <2> QED
    BY <1>3, <2>1, <2>2, <2>3, <2>4, <2>5, <2>6, <2>7 DEF Retire
<1>4. ASSUME NEW q \in qTail .. (qExecute - 1), Select(q) \/ Execute(q)
      PROVE  CoreOK'
  <2>1. q \in DOMAIN core.inst
    BY WindowFacts
  <2>2. CASE Select(q)
    BY <2>1, <2>2, SelectKeepsCore
  <2>3. CASE ExecuteMemory(q)
    BY <2>1, <2>3, ExecuteMemoryKeepsCore
  <2>4. CASE ExecuteUnaligned(q)
    BY <2>4, UnalignedKeepsCore
  <2>5. CASE ExecuteBranch(q)
    BY <2>5, BranchKeepsCore
  <2>6. CASE ExecuteCheck(q)
    BY <2>6, CheckKeepsCore
  <2> QED
    BY <1>4, <2>2, <2>3, <2>4, <2>5, <2>6 DEF Execute
<1>5. ASSUME NEW l \in Lines, Fill(l) \/ Invalidate(l)
      PROVE  CoreOK'
  BY <1>5, FillKeepsCore, InvalidateKeepsCore
<1>6. ASSUME NEW b \in DOMAIN WordOf, RemoteStore(b)
      PROVE  CoreOK'
  BY <1>6, RemoteStoreKeepsCore
<1>7. CASE EmptyCycle \/ UNCHANGED vars
  <2>1. core' = core /\ UNCHANGED <<prog, pointers, fetchRip, sim>>
    BY <1>7 DEF EmptyCycle, vars
  <2> QED
    BY <2>1, NothingKeepsCore
<1> QED
  BY <1>2, <1>3, <1>4, <1>5, <1>6, <1>7 DEF Next

(* What the invariant says of the instructions that wait for a store. *)
LEMMA StoreWaitersAreLoads ==
  ASSUME CoreInv(core, {}), NEW q \in DOMAIN core.inst, NEW w \in Range(core.inst[q].storeWaiters)
  PROVE  /\ w.q \in DOMAIN core.inst /\ q < w.q /\ q \in core.lsq /\ ~MemoryIssued(core.inst[q])
         /\ Overlaps(Operand(core.inst[q]), Operand(core.inst[w.q]))
<1> DEFINE x == <<"store", q>>
<1>1. x \in Places(core) /\ x[1] = "store" /\ x[2] = q /\ WaitList(core, x) = core.inst[q].storeWaiters
  BY DEF Places, WaitList
<1> HIDE DEF x
<1>2. PICK i \in DOMAIN WaitList(core, x) : w = WaitList(core, x)[i]
  BY <1>1 DEF Range
<1>3. EntryOK(core, x, w)
  BY <1>1, <1>2 DEF CoreInv
<1> QED
  BY <1>1, <1>3 DEF EntryOK

(* The invariant implies the type invariant. *)
LEMMA TypesFollow ==
  ASSUME IInv
  PROVE  TypeOK
<1>1. /\ CoreInv(core, {}) /\ Shape(core) /\ DOMAIN core.inst = qTail .. (qHead - 1)
      /\ \A q \in DOMAIN core.inst : InstOK(core, q)
      /\ fetchRip \in 1 .. (Len(prog) + 1) /\ core.lsq \subseteq DOMAIN core.inst
  BY WindowFacts DEF FetchOK, Shape
<1>2. ASSUME NEW l \in Lines, NEW i \in DOMAIN core.lines[l].wait
      PROVE  core.lines[l].wait[i].q \in DOMAIN core.inst \cup {NoQ}
  <2> DEFINE x == <<"line", l>>
  <2>1. x \in Places(core) /\ WaitList(core, x) = core.lines[l].wait
    BY DEF Places, WaitList
  <2> HIDE DEF x
  <2>2. EntryOK(core, x, core.lines[l].wait[i])
    BY <1>1, <2>1 DEF CoreInv
  <2> QED
    BY <2>2 DEF EntryOK
<1>3. ASSUME NEW q \in DOMAIN core.inst
      PROVE  /\ core.inst[q].stage \in Stages
             /\ core.inst[q].src \in DOMAIN core.inst => core.inst[q].src < q
             /\ \A w \in Range(core.inst[q].storeWaiters) : w.q \in DOMAIN core.inst
  BY <1>1, StoreWaitersAreLoads DEF InstOK
<1> QED
  BY <1>1, <1>2, <1>3 DEF TypeOK

(* ... and that no instruction waits in vain. *)
LEMMA WaitersFollow ==
  ASSUME IInv
  PROVE  WaitersAreWoken
<1>1. /\ CoreInv(core, {}) /\ Shape(core) /\ \A q \in DOMAIN core.inst : InstOK(core, q)
      /\ PositionsOK(core, qTail, qRetire, qExecute, qRename, qHead)
      /\ DOMAIN core.inst \subseteq Nat
  BY WindowFacts DEF Shape
<1>2. ASSUME NEW q \in DOMAIN core.inst, core.inst[q].uop.op = "ld", core.inst[q].stage = "MEMORY"
      PROVE  OnLine(core, q) # OnStore(core, q)
  <2>1. On(core, q) /\ q # NoQ
    BY <1>1, <1>2 DEF CoreInv, Waited, NoQ
  <2>2. OnLine(core, q) \/ OnStore(core, q)
    BY <1>1, <2>1, OnIsDetached
  <2>3. ASSUME OnLine(core, q), OnStore(core, q) PROVE FALSE
    <3>1. PICK l \in Lines : \E i \in DOMAIN core.lines[l].wait : core.lines[l].wait[i].q = q
      BY <1>1, <2>3 DEF OnLine, Shape
    <3>2. PICK i \in DOMAIN core.lines[l].wait : core.lines[l].wait[i].q = q
      BY <3>1
    <3>3. PICK p \in DOMAIN core.inst : \E j \in DOMAIN core.inst[p].storeWaiters :
            core.inst[p].storeWaiters[j].q = q
      BY <2>3 DEF OnStore
    <3>4. PICK j \in DOMAIN core.inst[p].storeWaiters : core.inst[p].storeWaiters[j].q = q
      BY <3>3
    <3> DEFINE x == <<"line", l>>
               y == <<"store", p>>
    <3>5. /\ x \in Places(core) /\ WaitList(core, x) = core.lines[l].wait
          /\ y \in Places(core) /\ WaitList(core, y) = core.inst[p].storeWaiters
          /\ x[1] # y[1]
      BY DEF Places, WaitList
    <3> HIDE DEF x, y
    <3>6. x = y
      BY <1>1, <2>1, <3>2, <3>4, <3>5 DEF CoreInv, Alone
    <3> QED
      BY <3>5, <3>6
  <2>4. OnLine(core, q) \in BOOLEAN /\ OnStore(core, q) \in BOOLEAN
    BY DEF OnLine, OnStore
  <2> QED
    BY <2>2, <2>3, <2>4
<1>3. ASSUME NEW q \in DOMAIN core.inst, NEW w \in Range(core.inst[q].storeWaiters)
      PROVE  /\ q < w.q /\ q \in core.lsq /\ ~MemoryIssued(core.inst[q])
             /\ Overlaps(Operand(core.inst[q]), Operand(core.inst[w.q]))
  BY <1>1, StoreWaitersAreLoads
<1>4. ASSUME NEW q \in DOMAIN core.inst, core.inst[q].stage = "WAIT_RB"
      PROVE  core.bad <= q
  BY <1>1, <1>4 DEF InstOK
<1>5. core.bad # NoBad => qRetire <= core.bad /\ core.bad <= qHead
  BY <1>1 DEF PositionsOK
<1> QED
  BY <1>2, <1>3, <1>4, <1>5 DEF WaitersAreWoken

(* The inductive invariant holds in every state. *)
LEMMA CoreIsInOrder == Spec => []IInv
<1>1. Init => IInv
  BY WindowAtInit, InitIsOK DEF IInv
<1>2. IInv /\ [Next]_vars => IInv'
  BY StepKeepsCore
<1> QED
  BY <1>1, <1>2, PTL DEF Spec

(* The window holds exactly the instructions between the tail and the      *)
(* head, the load/store queue and the wait lists name only them, and fetch *)
(* is in the program: flush, replay, reset and commit leave nothing behind *)
(* (src/pyrite/Processor.cpp, DynamicInst::squash).                        *)
THEOREM TypesAreCorrect == Spec => []TypeOK
  BY CoreIsInOrder, TypesFollow, PTL

(* A load that has issued is on exactly one wait list, of a requested line *)
(* or of an older store that overlaps it and has not issued; nothing waits *)
(* for a store that is squashed (assert(m_store_waiters.empty())), and     *)
(* what has no translation is found bad before it retires.                 *)
THEOREM NobodyWaitsInVain == Spec => []WaitersAreWoken
  BY CoreIsInOrder, WaitersFollow, PTL
=============================================================================
