---------------------------- MODULE DynamicInst ----------------------------
(***************************************************************************)
(* What happens to one uop in the out-of-order core of pyrite: the methods *)
(* of DynamicInst (src/pyrite/DynamicInst.cpp) and the requests it makes   *)
(* of the memory interface (src/pyrite/RubyMemoryInterface.cpp,            *)
(* MemoryInterface.cpp).  Every operator takes the core, a record          *)
(*   inst   q pointer -> instruction, for m_q_tail .. m_q_head - 1         *)
(*   lsq    the q pointers in the load/store queue                         *)
(*   lines  m_requested_lines: line -> outstanding request and its waiters *)
(*   perm   the data cache's permission for each line (external, ruby)     *)
(*   bad    m_q_oldest_bad                                                 *)
(*   full   a request was made of a sequencer that is not ready            *)
(*   mem    Simics' memory, byte -> value                                  *)
(*   old    the value of r in the retire map                               *)
(* and returns the core after the whole call, wakeups included.            *)
(*                                                                         *)
(* Registers: every load writes the one register r, and a uop may read it  *)
(* for its address or condition ("addr": it waits in WAIT_RA or WAIT_RB)   *)
(* or for the data of a store ("data": WAIT_RC).  A physical register is   *)
(* named by the load that writes it; src = NoQ is the retired value.       *)
(***************************************************************************)
EXTENDS LoadStoreQueue, SequencesExt

CONSTANTS BadBytes,        \* bytes with no translation, or not RAM
          MaxOutstanding   \* SEQUENCER_OUTSTANDING_REQUESTS

Idle == [type |-> "none", wait |-> <<>>]

(* The values a uop's operands are computed from. *)
Cond(r) == \E b \in DOMAIN r : r[b] # 0

(* The value of the physical register that q reads. *)
SourceValue(c, q) ==
  IF c.inst[q].src \in DOMAIN c.inst THEN c.inst[c.inst[q].src].reg ELSE c.old

SourceReady(c, q) ==
  c.inst[q].src \in DOMAIN c.inst => c.inst[c.inst[q].src].stage = "COMPLETE"

-----------------------------------------------------------------------------
(* Wait lists.                                                             *)

(* An entry of a list: an instruction, or a MemoryRequestRetry with its    *)
(* requester, NoQ for none.                                                *)
Waiting(q) == [q |-> q, retry |-> FALSE]
Retry(q) == [q |-> q, retry |-> TRUE]

(* What is left of an entry when the instructions of Q leave: a retry      *)
(* stays, without its requester.                                           *)
Remains(w, Q) ==
  IF w.q \notin Q THEN <<w>> ELSE IF w.retry THEN <<Retry(NoQ)>> ELSE <<>>

(* A list that the instructions of Q leave. *)
Without(list, Q) ==
  LET left[i \in 0 .. Len(list)] ==
        IF i = 0 THEN <<>> ELSE left[i - 1] \o Remains(list[i], Q)
  IN  left[Len(list)]

(* Waiter::detach for the instructions of Q. *)
Detach(c, Q) ==
  [c EXCEPT
    !.lines = [l \in DOMAIN @ |-> [@[l] EXCEPT !.wait = Without(c.lines[l].wait, Q)]],
    !.inst = [p \in DOMAIN @ |-> [@[p] EXCEPT !.storeWaiters = Without(c.inst[p].storeWaiters, Q)]]]

OnLine(c, q)  == \E l \in DOMAIN c.lines : \E i \in DOMAIN c.lines[l].wait :
                   c.lines[l].wait[i].q = q
OnStore(c, q) == \E p \in DOMAIN c.inst : \E i \in DOMAIN c.inst[p].storeWaiters :
                   c.inst[p].storeWaiters[i].q = q

(* Waiter::detached, for an instruction past the scheduler. *)
Detached(c, q) == ~OnLine(c, q) /\ ~OnStore(c, q)

-----------------------------------------------------------------------------
(* The memory interface.                                                   *)

Outstanding(c) == Cardinality({l \in DOMAIN c.lines : c.lines[l].type # "none"})

(* RubyMemoryInterface::ready, Processor::cacheReady *)
CacheReady(c) == Outstanding(c) < MaxOutstanding

Hits(perm, type) == perm = "W" \/ (perm = "R" /\ type = "READ")

(* RubyMemoryInterface::request.  Misses to a requested line coalesce; a   *)
(* write behind a read is retried when the read fills.  A hit calls back   *)
(* from makeRequest, and fillRequest erases the line just inserted.  The   *)
(* assertion isReady is recorded in full.                                  *)
Request(c, line, type, q) ==
  LET l == c.lines[line]
      waiting == IF q = NoQ THEN <<>> ELSE <<Waiting(q)>>
      made == [c EXCEPT !.full = @ \/ ~CacheReady(c)]
  IN  CASE l.type = "READ" /\ type = "WRITE" ->
             [c EXCEPT !.lines[line].wait = Append(@, Retry(q))]
        [] l.type # "none" /\ ~(l.type = "READ" /\ type = "WRITE") ->
             [c EXCEPT !.lines[line].wait = @ \o waiting]
        [] l.type = "none" /\ Hits(c.perm[line], type) -> made
        [] OTHER -> [made EXCEPT !.lines[line] = [type |-> type, wait |-> waiting]]

RequestLine(c, q) == LineOf[Lowest(c.inst[q])]

-----------------------------------------------------------------------------
(* Scheduling.                                                             *)

(* DynamicInst::addressGenerate.  The low and high halves of a cracked     *)
(* operation take the bytes of the first and of the second double word.    *)
AddressGenerate(c, q) ==
  LET whole == c.inst[q].uop.at[Cond(SourceValue(c, q))]
      first == WordOf[Lowest([ext |-> whole])]
      ext == CASE c.inst[q].uop.part = "lo" -> {b \in whole : WordOf[b] = first}
               [] c.inst[q].uop.part = "hi" -> {b \in whole : WordOf[b] # first}
               [] OTHER -> whole
      unaligned == c.inst[q].uop.part = "all" /\ \E b \in whole : WordOf[b] # first
  IN  [c EXCEPT !.inst[q].ext = ext, !.inst[q].unaligned = unaligned,
                !.lsq = IF unaligned THEN @ ELSE @ \cup {q}]

IsMemory(uop) == uop.op \in {"ld", "st"}

Untranslated(c, q) ==
  IsMemory(c.inst[q].uop) /\ c.inst[q].uop.at[Cond(SourceValue(c, q))] \cap BadBytes # {}

(* DynamicInst::schedule up to READY_STAGE. *)
Schedule(c, q) ==
  LET stage(core, s) == [core EXCEPT !.inst[q].stage = s]
      late == c.inst[q].stage = "WAIT_RC"
      lacks(operand) == c.inst[q].uop.reads = operand /\ ~SourceReady(c, q)
      addressed == IF IsMemory(c.inst[q].uop) THEN AddressGenerate(c, q) ELSE c
  IN  CASE late -> IF SourceReady(c, q) THEN stage(c, "READY") ELSE c
        [] ~late /\ lacks("addr") -> c
        [] ~late /\ ~lacks("addr") /\ Untranslated(c, q) ->
             [stage(c, "WAIT_RB") EXCEPT !.bad = Min({@, q})]
        [] OTHER -> stage(addressed, IF lacks("data") THEN "WAIT_RC" ELSE "READY")

(* Every waiter in Q schedules itself.  It looks at nothing that another   *)
(* one changes, so the order of the list makes no difference.              *)
ScheduleAll(c, Q) ==
  [c EXCEPT !.inst = [p \in DOMAIN @ |-> IF p \in Q THEN Schedule(c, p).inst[p] ELSE @[p]],
            !.lsq = @ \cup {p \in Q : p \in Schedule(c, p).lsq},
            !.bad = Min({@} \cup {Schedule(c, p).bad : p \in Q})]

(* Mutant: a store that waits for its data is not woken. *)
WakeAddressReaders(c, q) ==
  ScheduleAll(c, {p \in DOMAIN c.inst : c.inst[p].src = q /\ c.inst[p].stage = "WAIT_RA"})

(* PhysicalFile::setReady wakes the readers of the register q writes. *)
WakeReaders(c, q) ==
  ScheduleAll(c, {p \in DOMAIN c.inst : c.inst[p].src = q
                                      /\ c.inst[p].stage \in {"WAIT_RA", "WAIT_RC"}})

-----------------------------------------------------------------------------
(* Loads and stores.                                                       *)

(* DynamicInst::complete for a load: search the queue again, read Simics'  *)
(* memory, apply the queue's bytes, write the register.                    *)
CompleteLoad(c, q) ==
  LET load == c.inst[q]
      blocker == BlockingStore(c.inst, c.lsq, q)
      found == LoadSearch(c.inst, c.lsq, q)
      value == IF Covers(found, Operand(load)) THEN Operand(load)
               ELSE SetValue(Operand(load), c.mem)
      word == WriteValue(found, value).val
      reg == IF c.inst[q].uop.part = "hi" THEN Override(SourceValue(c, q), word) ELSE word
      done(core) == WakeReaders([core EXCEPT !.inst[q].stage = "COMPLETE"], q)
  IN  CASE load.ext = {} -> done([c EXCEPT !.inst[q].reg = SourceValue(c, q)])
        [] load.ext # {} /\ blocker # NoQ ->
             [c EXCEPT !.inst[blocker].storeWaiters = Append(@, Waiting(q))]
        [] OTHER -> done([c EXCEPT !.inst[q].val = word, !.inst[q].reg = reg])

(* DynamicInst::execute for an aligned load. *)
ExecuteLoad(c, q) ==
  LET load == c.inst[q]
      blocker == BlockingStore(c.inst, c.lsq, q)
      issued == [Request(c, RequestLine(c, q), "READ", q) EXCEPT !.inst[q].stage = "MEMORY"]
  IN  CASE load.ext = {} -> CompleteLoad(c, q)
        [] load.ext # {} /\ blocker # NoQ ->
             [c EXCEPT !.inst[blocker].storeWaiters = Append(@, Waiting(q))]
        [] load.ext # {} /\ blocker = NoQ
           /\ Covers(LoadSearch(c.inst, c.lsq, q), Operand(load)) ->
             CompleteLoad(c, q)
        [] OTHER -> IF OnLine(issued, q) THEN issued
                    ELSE CompleteLoad(issued, q)

(* DynamicInst::schedule for a load woken by a store. *)
WakeLoad(c, q) ==
  IF c.inst[q].stage = "EXECUTE" THEN ExecuteLoad(c, q)
                                 ELSE CompleteLoad(c, q)

(* WaitList::wakeupAll of the loads that wait for a store. *)
WakeLoads(c, list) ==
  LET woken[i \in 0 .. Len(list)] ==
        IF i = 0 THEN c ELSE WakeLoad(woken[i - 1], list[i].q)
  IN  woken[Len(list)]

(* Mutant: the store issues and leaves the loads on its wait list. *)
ExecuteStoreKeepsWaiters(c, q) ==
  LET value == c.inst[q].uop.val[Cond(SourceValue(c, q))]
      word == [b \in c.inst[q].ext |-> value]
  IN  Request([c EXCEPT !.inst[q].stage = "MEMORY", !.inst[q].val = word],
              RequestLine(c, q), "WRITE", NoQ)

(* DynamicInst::execute for an aligned store: value, violation search,     *)
(* issue, wake the loads that wait for it, prefetch the line exclusively.  *)
ExecuteStore(c, q) ==
  LET value == c.inst[q].uop.val[Cond(SourceValue(c, q))]
      word == SetValue(Operand(c.inst[q]), [b \in c.inst[q].ext |-> value]).val
      valued == [c EXCEPT !.inst[q].val = word]
      wrong == StoreSearch(valued.inst, valued.lsq, q)
      searched == IF wrong = NoQ THEN valued
                  ELSE [valued EXCEPT !.inst[wrong].ordering = TRUE]
      issued == [searched EXCEPT !.inst[q].stage = "MEMORY",
                                 !.inst[q].storeWaiters = <<>>]
  IN  IF c.inst[q].ext = {} THEN [c EXCEPT !.inst[q].stage = "COMPLETE"]
      ELSE Request(WakeLoads(issued, c.inst[q].storeWaiters), RequestLine(c, q), "WRITE", NoQ)

(* DynamicInst::demandStore, at the head of the window. *)
DemandStore(c, q) ==
  LET asked == Request(c, RequestLine(c, q), "WRITE", q)
  IN  IF OnLine(asked, q) THEN asked ELSE [asked EXCEPT !.inst[q].stage = "COMPLETE"]

(* DynamicInst::wakeup from a filled line: MEMORY_STAGE completes. *)
WakeMemory(c, q) ==
  IF c.inst[q].uop.op = "ld" THEN CompleteLoad(c, q)
                       ELSE [c EXCEPT !.inst[q].stage = "COMPLETE"]

(* MemoryRequestRetry::wakeup, or the wakeup of an instruction. *)
WakeWaiter(c, line, w) ==
  LET again == Request(c, line, "WRITE", w.q)
  IN  CASE ~w.retry -> WakeMemory(c, w.q)
        [] w.retry /\ (w.q = NoQ \/ OnLine(again, w.q)) -> again
        [] OTHER -> WakeMemory(again, w.q)

(* MemoryInterface::fillRequest: the line is no longer requested, and all  *)
(* that waited for it are woken in turn.                                   *)
FillRequest(c, line) ==
  LET list == c.lines[line].wait
      woken[i \in 0 .. Len(list)] ==
        IF i = 0 THEN [c EXCEPT !.lines[line] = Idle]
                 ELSE WakeWaiter(woken[i - 1], line, list[i])
  IN  woken[Len(list)]

-----------------------------------------------------------------------------
(* Mutant: a squashed instruction stays in the load/store queue. *)
SquashKeepsQueue(c, Q) ==
  [Detach(c, Q) EXCEPT !.inst = [p \in DOMAIN @ |->
     IF p \notin Q THEN @[p] ELSE [@[p] EXCEPT !.stage = "FETCH", !.src = NoQ]]]

(* DynamicInst::squash of the instructions Q: off every wait list, out of  *)
(* the queue, back to what fetch left (m_ends_x86_op is not restored).     *)
Squash(c, Q) ==
  LET off == Detach(c, Q)
  IN  [off EXCEPT
        !.lsq = @ \ Q,
        !.inst = [p \in DOMAIN @ |-> IF p \notin Q THEN @[p]
                   ELSE [@[p] EXCEPT !.stage = "FETCH", !.src = NoQ, !.ext = {},
                          !.val = NoBytes, !.reg = NoBytes, !.unaligned = FALSE,
                          !.ordering = FALSE, !.consistency = FALSE, !.check = FALSE,
                          !.storeWaiters = <<>>]]]

=============================================================================
