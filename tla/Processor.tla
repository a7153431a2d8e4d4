----------------------------- MODULE Processor -----------------------------
(***************************************************************************)
(* The out-of-order processor of pyrite (src/pyrite/Processor.cpp): fetch, *)
(* rename, issue, execution in any order the data allow, retirement in     *)
(* program order, replay, flush and reset, with every x86 instruction      *)
(* validated against Simics when it commits.  A program is a sequence of   *)
(* x86 instructions, each a sequence of uops (empty: it does not decode).  *)
(* Latencies, widths and the depth of the pipes are abstracted: any        *)
(* instruction that may take its next step may take it next.               *)
(***************************************************************************)
EXTENDS DynamicInst

CONSTANTS Programs,       \* the programs that are run
          RobSize,        \* g_rob_size
          FrontEndMax,    \* g_front_end_max
          MaxUops,        \* MAX_TRANSOPS_PER_USER_INSN
          BufSize,        \* m_buf_size
          MaxRemote       \* bound on the lines other processors take away

(* The instruction buffer is a ring: what rename and fetch let in fits.  *)
ASSUME WindowAssumption ==
  /\ RobSize \in Nat \ {0} /\ FrontEndMax \in Nat \ {0}
  /\ MaxUops \in Nat \ {0} /\ BufSize \in Nat
  /\ RobSize + FrontEndMax - 1 + MaxUops <= BufSize

VARIABLES prog,      \* the program being run
          first,     \* q pointer -> first uop of its x86 instruction (m_starts_x86_op)
          ends,      \* the uops that end their x86 instruction (m_ends_x86_op)
          core,      \* the instruction window, see DynamicInst
          qTail, qRetire, qExecute, qRename, qHead,  \* the m_q_ pointers
          fetchRip,  \* m_fetch_rip
          crack,     \* m_crack_unaligned_memops
          sim,       \* Simics' register and instruction pointer (external)
          remote,    \* lines taken by, and stores of, other processors so far
          outcome    \* what the last commit or reset was

pointers == <<qTail, qRetire, qExecute, qRename, qHead, first, ends>>
vars == <<prog, core, pointers, fetchRip, crack, sim, remote, outcome>>

(* m_q_oldest_bad when nothing is bad, (QPointer)-1.  Bound: fetch stops   *)
(* before a pointer gets there.                                            *)
NoBad == 1000000

Lines == {LineOf[b] : b \in DOMAIN LineOf}

Init ==
  /\ prog \in Programs
  /\ core = [inst |-> [q \in {} |-> 0], lsq |-> {}, bad |-> NoBad, full |-> FALSE,
             lines |-> [l \in Lines |-> Idle], perm |-> [l \in Lines |-> "I"],
             mem |-> [b \in DOMAIN WordOf |-> 0], old |-> NoBytes]
  /\ first = [q \in {} |-> 0] /\ ends = {}
  /\ qTail = 0 /\ qRetire = 0 /\ qExecute = 0 /\ qRename = 0 /\ qHead = 0
  /\ fetchRip = 1 /\ crack = FALSE
  /\ sim = [r |-> NoBytes, pc |-> 1]
  /\ remote = [taken |-> 0, stores |-> 0]
  /\ outcome = "none"

-----------------------------------------------------------------------------
(* Simics executes one x86 instruction (external).                         *)

SimUop(s, uop) ==
  LET at == uop.at[Cond(s.r)]
      runs(op) == ~s.skip /\ at \cap BadBytes = {} /\ uop.op = op
  IN  CASE runs("ld") -> [s EXCEPT !.r = Restrict(s.mem, at)]
        [] runs("st") ->
             [s EXCEPT !.mem = [b \in DOMAIN @ |->
                IF b \in at THEN uop.val[Cond(s.r)] ELSE @[b]]]
        [] runs("br") -> [s EXCEPT !.pc = IF Cond(s.r) THEN uop.target ELSE @]
        [] runs("chk") -> [s EXCEPT !.skip = ~Cond(s.r)]
        [] OTHER -> s

SimStep ==
  LET uops == prog[sim.pc]
      after[i \in 0 .. Len(uops)] ==
        IF i = 0 THEN [mem |-> core.mem, r |-> sim.r, pc |-> sim.pc + 1, skip |-> FALSE]
                 ELSE SimUop(after[i - 1], uops[i])
  IN  after[Len(uops)]

-----------------------------------------------------------------------------
(* Processor::fetch and decodeCurrentX86Instruction.                       *)

(* The decoder splits every memory uop into a low and a high half when the *)
(* instruction is to be cracked; a high load merges the low one's result.  *)
Decode(op, cracked) ==
  FlattenSeq([i \in DOMAIN op |->
    IF cracked /\ IsMemory(op[i])
    THEN <<[op[i] EXCEPT !.part = "lo"],
           [op[i] EXCEPT !.part = "hi",
                         !.reads = IF op[i].op = "ld" THEN "addr" ELSE @]>>
    ELSE <<op[i]>>])

(* What has a translation is memory; a branch leads into the program or to *)
(* its end.                                                                *)
WellFormed(uop, p) ==
  /\ IsMemory(uop) => \A cond \in BOOLEAN : uop.at[cond] \ BadBytes \subseteq DOMAIN WordOf
  /\ uop.op = "br" => uop.target \in 1 .. (Len(p) + 1)

(* The memory the programs run in. *)
ASSUME MemoryAssumption == DOMAIN WordOf = DOMAIN LineOf /\ DOMAIN WordOf \subseteq Nat

(* A program: no instruction has more uops than the decoder produces. *)
ASSUME ProgramAssumption ==
  \A p \in Programs :
    /\ p \in Seq(Range(p))
    /\ \A i \in DOMAIN p :
         /\ p[i] \in Seq(Range(p[i]))
         /\ \A k \in DOMAIN p[i] : WellFormed(p[i][k], p)
         /\ \A cracked \in BOOLEAN : p[i] # <<>> =>
              /\ Decode(p[i], cracked) \in Seq(Range(Decode(p[i], cracked)))
              /\ Len(Decode(p[i], cracked)) \in 1 .. MaxUops
              /\ \A k \in DOMAIN Decode(p[i], cracked) : WellFormed(Decode(p[i], cracked)[k], p)

NewInst(uop, pred) ==
  [uop |-> uop, pc |-> fetchRip, pred |-> pred,
   stage |-> "FETCH", src |-> NoQ, ext |-> {}, val |-> NoBytes, reg |-> NoBytes,
   unaligned |-> FALSE, ordering |-> FALSE, consistency |-> FALSE,
   check |-> FALSE, stale |-> FALSE, storeWaiters |-> <<>>]

MayFetch ==
  /\ core.bad = NoBad /\ qHead + MaxUops < NoBad
  /\ qHead < qRename + FrontEndMax
  /\ fetchRip \in DOMAIN prog

(* One x86 instruction is decoded at m_fetch_rip; m_predictors.predict may *)
(* name either successor of a branch.                                      *)
Fetch ==
  /\ MayFetch
  /\ prog[fetchRip] # <<>>
  /\ LET uops == Decode(prog[fetchRip], crack)
         last == uops[Len(uops)]
     IN  /\ \E next \in {fetchRip + 1} \cup (IF last.op = "br" THEN {last.target} ELSE {}) :
              /\ core' = [core EXCEPT !.inst = Override(@,
                [q \in qHead .. (qHead + Len(uops) - 1) |->
                   NewInst(uops[q - qHead + 1], next)])]
              /\ fetchRip' = next
         /\ first' = Override(first, [q \in qHead .. (qHead + Len(uops) - 1) |-> qHead])
         /\ ends' = ends \cup {qHead + Len(uops) - 1}
         /\ qHead' = qHead + Len(uops)
  /\ crack' = FALSE
  /\ UNCHANGED <<prog, qTail, qRetire, qExecute, qRename, sim, remote, outcome>>

(* The instruction has no translation or does not decode. *)
FetchFails ==
  /\ MayFetch
  /\ prog[fetchRip] = <<>>
  /\ core' = [core EXCEPT !.bad = qHead]
  /\ UNCHANGED <<prog, pointers, fetchRip, crack, sim, remote, outcome>>

-----------------------------------------------------------------------------
(* Processor::rename and DynamicInst::rename.  The front end map gives the *)
(* youngest older load that is still in the window.                        *)

FrontEndMap(q) ==
  LET loads == {p \in DOMAIN core.inst : p < q /\ core.inst[p].uop.op = "ld"}
  IN  IF loads = {} THEN NoQ ELSE Max(loads)

MayRename == qRename < qHead /\ qRename < qTail + RobSize

Rename ==
  /\ MayRename
  /\ core.inst[qRename].uop.op # "illegal"
  /\ core' = [core EXCEPT
       !.inst[qRename].stage = IF core.inst[qRename].uop.op = "nop" THEN "COMPLETE" ELSE "DECODE",
       !.inst[qRename].src = FrontEndMap(qRename)]
  /\ qRename' = qRename + 1
  /\ UNCHANGED <<prog, qTail, qRetire, qExecute, qHead, first, ends, fetchRip, crack, sim, remote, outcome>>

(* !uopIsLegal(): rename stops until the instruction reaches retirement. *)
RenameIllegal ==
  /\ MayRename
  /\ core.inst[qRename].uop.op = "illegal"
  /\ qRename < core.bad
  /\ core' = [core EXCEPT !.bad = qRename]
  /\ UNCHANGED <<prog, pointers, fetchRip, crack, sim, remote, outcome>>

-----------------------------------------------------------------------------
(* Processor::execute and Scheduler::select.                               *)

(* DynamicInst::queue and schedule, in program order. *)
Queue ==
  /\ qExecute < qRename
  /\ core' = IF core.inst[qExecute].stage = "COMPLETE" THEN core
             ELSE Schedule([core EXCEPT !.inst[qExecute].stage = "WAIT_RA"], qExecute)
  /\ qExecute' = qExecute + 1
  /\ UNCHANGED <<prog, qTail, qRetire, qRename, qHead, first, ends, fetchRip, crack, sim, remote, outcome>>

(* OutorderScheduler::select of a ready instruction.  Memory operations    *)
(* need a ready cache now, though they access it only when they execute.   *)
Select(q) ==
  /\ core.inst[q].stage = "READY"
  /\ IsMemory(core.inst[q].uop) => CacheReady(core)
  /\ core' = [core EXCEPT !.inst[q].stage = "EXECUTE"]
  /\ UNCHANGED <<prog, pointers, fetchRip, crack, sim, remote, outcome>>

(* The event of a selected instruction fires. *)
Executing(q) == core.inst[q].stage = "EXECUTE" /\ ~OnStore(core, q)

ExecuteMemory(q) ==
  /\ Executing(q)
  /\ IsMemory(core.inst[q].uop)
  /\ ~core.inst[q].unaligned
  /\ core' = IF core.inst[q].uop.op = "ld" THEN ExecuteLoad(core, q) ELSE ExecuteStore(core, q)
  /\ UNCHANGED <<prog, pointers, fetchRip, crack, sim, remote, outcome>>

(* Processor::flushPipeline: forget everything from there on.              *)
Flush(c, from) ==
  LET clean == Squash(c, from .. (qHead - 1))
  IN  [clean EXCEPT !.inst = Restrict(@, {q \in DOMAIN @ : q < from}),
                    !.bad = IF @ >= from THEN NoBad ELSE @]

(* Mutant: m_q_execute is left behind. *)
FlushKeepsExecute(from, also) ==
  /\ qRename' = from /\ qHead' = from
  /\ qRetire' = Min({qRetire, from})
  /\ first' = Restrict(first, {q \in DOMAIN first : q < from})
  /\ ends' = {q \in ends : q < from} \cup also
  /\ UNCHANGED <<qTail, qExecute>>

(* also: the uop that ends its x86 instruction from now on, if any. *)
FlushPointers(from, also) ==
  /\ qRename' = from /\ qHead' = from
  /\ qExecute' = Min({qExecute, from})
  /\ qRetire' = Min({qRetire, from})
  /\ first' = Restrict(first, {q \in DOMAIN first : q < from})
  /\ ends' = {q \in ends : q < from} \cup also
  /\ UNCHANGED qTail

(* The first uop of q's x86 instruction, which the code finds by walking   *)
(* back to one that starts it.                                             *)
FirstUop(q) == first[q]

(* Processor::alignmentException: refetch the x86 instruction, cracked.    *)
(* The loop of flushPipeline never ends when it starts at q pointer 0.     *)
ExecuteUnaligned(q) ==
  /\ Executing(q)
  /\ core.inst[q].unaligned
  /\ FirstUop(q) # 0
  /\ core' = Flush(core, FirstUop(q))
  /\ FlushPointers(FirstUop(q), {})
  /\ fetchRip' = core.inst[FirstUop(q)].pc
  /\ crack' = TRUE
  /\ UNCHANGED <<prog, sim, remote, outcome>>

(* DynamicInst::complete of a branch and Processor::resolveBranch. *)
ExecuteBranch(q) ==
  /\ Executing(q)
  /\ core.inst[q].uop.op = "br"
  /\ LET actual == IF Cond(SourceValue(core, q)) THEN core.inst[q].uop.target
                   ELSE core.inst[q].pc + 1
         done == [core EXCEPT !.inst[q].stage = "COMPLETE"]
     IN  \/ /\ q + 1 < qHead /\ actual # core.inst[q].pred
            /\ core' = Flush(done, q + 1)
            /\ FlushPointers(q + 1, {})
            /\ fetchRip' = actual
         \/ /\ q + 1 < qHead /\ actual = core.inst[q].pred
            /\ core' = done
            /\ UNCHANGED <<pointers, fetchRip>>
         \/ /\ q + 1 >= qHead
            /\ core' = [done EXCEPT !.bad = IF @ = qHead THEN NoBad ELSE @]
            /\ fetchRip' = actual
            /\ UNCHANGED pointers
  /\ UNCHANGED <<prog, crack, sim, remote, outcome>>

(* DynamicInst::complete of a check uop and Processor::checkException: a   *)
(* failed check ends its x86 instruction and drops the rest of it, unless  *)
(* an earlier execution already did.                                       *)
ExecuteCheck(q) ==
  /\ Executing(q)
  /\ core.inst[q].uop.op = "chk"
  /\ LET fails == ~Cond(SourceValue(core, q))
         done == [core EXCEPT !.inst[q].stage = "COMPLETE", !.inst[q].check = fails]
     IN  IF fails /\ q \notin ends
         THEN /\ core' = Flush(done, q + 1)
              /\ FlushPointers(q + 1, {q})
              /\ fetchRip' = core.inst[q].pc + 1
         ELSE core' = done /\ UNCHANGED <<pointers, fetchRip>>
  /\ UNCHANGED <<prog, crack, sim, remote, outcome>>

-----------------------------------------------------------------------------
(* Processor::retire.                                                      *)

(* Processor::replay: rename everything from there on again. *)
Replay(c, from) ==
  [Squash(c, from .. (qRename - 1)) EXCEPT !.bad = IF @ >= from THEN NoBad ELSE @]

ReplayPointers(from) ==
  /\ qRename' = from
  /\ qExecute' = Min({qExecute, from})
  /\ qRetire' = Min({qRetire, from})
  /\ UNCHANGED <<qTail, qHead, first, ends>>

(* Processor::resetUopBuf and resetPyriteState, after Simics' step s.      *)
Reset(c, s) ==
  LET clean == Squash(c, DOMAIN c.inst)
  IN  [clean EXCEPT !.inst = [q \in {} |-> 0], !.lsq = {}, !.bad = NoBad,
                    !.lines = [l \in Lines |-> [@[l] EXCEPT !.wait = <<>>]],
                    !.mem = s.mem, !.old = s.r]

ResetPointers ==
  /\ qHead' = qTail /\ qRename' = qTail /\ qExecute' = qTail /\ qRetire' = qTail
  /\ first' = [q \in {} |-> 0] /\ ends' = {}
  /\ UNCHANGED qTail

(* The oldest instruction cannot be executed here: Simics does it alone.   *)
RetireBad ==
  /\ core.bad = qRetire
  /\ core' = Reset(core, SimStep)
  /\ ResetPointers
  /\ sim' = [r |-> SimStep.r, pc |-> SimStep.pc]
  /\ fetchRip' = SimStep.pc
  /\ crack' = FALSE
  /\ outcome' = "bad"
  /\ UNCHANGED <<prog, remote>>

(* The instruction at m_q_retire; a store makes its request only now. *)
AtHead ==
  IF /\ core.inst[qRetire].uop.op = "st"
     /\ core.inst[qRetire].stage = "MEMORY"
     /\ Detached(core, qRetire)
  THEN DemandStore(core, qRetire)
  ELSE core

MayRetire == core.bad # qRetire /\ qRetire < qExecute

RetireStoreMiss ==
  /\ MayRetire
  /\ AtHead # core
  /\ AtHead.inst[qRetire].stage = "MEMORY"
  /\ core' = AtHead
  /\ UNCHANGED <<prog, pointers, fetchRip, crack, sim, remote, outcome>>

RetireReady == MayRetire /\ AtHead.inst[qRetire].stage = "COMPLETE"

(* A load that read too early is replayed with all that follows. *)
RetireReplay ==
  /\ RetireReady
  /\ core.inst[qRetire].ordering
  /\ core' = Replay(AtHead, qRetire)
  /\ ReplayPointers(qRetire)
  /\ UNCHANGED <<prog, fetchRip, crack, sim, remote, outcome>>

(* A replayed check that no longer fails, yet ends its x86 instruction. *)
StrayEnd ==
  /\ core.inst[qRetire].uop.op = "chk"
  /\ ~core.inst[qRetire].check
  /\ qRetire \in ends

RetireRefetch ==
  /\ RetireReady
  /\ ~core.inst[qRetire].ordering
  /\ StrayEnd
  /\ FirstUop(qRetire) # 0
  /\ core' = Flush(core, FirstUop(qRetire))
  /\ FlushPointers(FirstUop(qRetire), {})
  /\ fetchRip' = core.inst[FirstUop(qRetire)].pc
  /\ UNCHANGED <<prog, crack, sim, remote, outcome>>

RetireUop ==
  /\ RetireReady
  /\ ~core.inst[qRetire].ordering
  /\ ~StrayEnd

(* After a load that another processor invalidated, everything younger is  *)
(* replayed; the load itself goes on.                                      *)
AfterViolation ==
  IF core.inst[qRetire].consistency THEN Replay(AtHead, qRetire + 1) ELSE AtHead

YoungerPointers ==
  IF core.inst[qRetire].consistency
  THEN qRename' = qRetire + 1 /\ qExecute' = Min({qExecute, qRetire + 1})
  ELSE UNCHANGED <<qRename, qExecute>>

RetireMiddle ==
  /\ RetireUop
  /\ qRetire \notin ends
  /\ core' = AfterViolation
  /\ YoungerPointers
  /\ qRetire' = qRetire + 1
  /\ UNCHANGED <<prog, qTail, qHead, first, ends, fetchRip, crack, sim, remote, outcome>>

-----------------------------------------------------------------------------
(* The last uop of an x86 instruction retires: DynamicInst::commit of all  *)
(* of them, a step of Simics, and validation.                              *)

Committing == qTail .. qRetire

(* m_retire_rip *)
RetireRip == IF qHead > qRetire + 1 THEN core.inst[qRetire + 1].pc ELSE fetchRip

(* The retire map's r after DynamicInst::commit of the instruction. *)
RetireRegister ==
  LET loads == {q \in Committing : core.inst[q].uop.op = "ld"}
  IN  IF loads = {} THEN core.old ELSE core.inst[Max(loads)].reg

(* validatePyriteState and validateStore *)
Validated ==
  /\ RetireRip = SimStep.pc
  /\ RetireRegister = SimStep.r
  /\ \A q \in Committing : core.inst[q].uop.op = "st" =>
       \A b \in DOMAIN core.inst[q].val : core.inst[q].val[b] = SimStep.mem[b]

Commit ==
  /\ RetireUop
  /\ qRetire \in ends
  /\ Validated
  /\ LET c == AfterViolation
     IN  core' = [c EXCEPT !.inst = Restrict(@, {q \in DOMAIN @ : q > qRetire}),
                           !.lsq = @ \ Committing,
                           !.mem = SimStep.mem, !.old = RetireRegister]
  /\ YoungerPointers
  /\ qTail' = qRetire + 1
  /\ qRetire' = qRetire + 1
  /\ first' = Restrict(first, {q \in DOMAIN first : q > qRetire})
  /\ ends' = {q \in ends : q > qRetire}
  /\ sim' = [r |-> SimStep.r, pc |-> SimStep.pc]
  /\ outcome' = "ok"
  /\ UNCHANGED <<prog, qHead, fetchRip, crack, remote>>

CommitFails ==
  /\ RetireUop
  /\ qRetire \in ends
  /\ ~Validated
  /\ core' = Reset(AtHead, SimStep)
  /\ ResetPointers
  /\ sim' = [r |-> SimStep.r, pc |-> SimStep.pc]
  /\ fetchRip' = SimStep.pc
  /\ crack' = FALSE
  /\ outcome' = IF \E q \in Committing : core.inst[q].stale THEN "stale" ELSE "mismatch"
  /\ UNCHANGED <<prog, remote>>

-----------------------------------------------------------------------------
(* The memory system and the other processors (external: ruby).            *)

Fill(l) ==
  /\ core.lines[l].type # "none"
  /\ core' = FillRequest([core EXCEPT !.perm[l] =
       IF core.lines[l].type = "WRITE" \/ @ = "W" THEN "W" ELSE "R"], l)
  /\ UNCHANGED <<prog, pointers, fetchRip, crack, sim, remote, outcome>>

(* Processor::cachePermissionChangeNotification *)
Invalidate(l) ==
  /\ remote.taken < MaxRemote
  /\ core.perm[l] # "I"
  /\ LET load == InvalidationSearch(core.inst, core.lsq, l)
         lost == [core EXCEPT !.perm[l] = "I"]
     IN  core' = IF load = NoQ THEN lost
                 ELSE [lost EXCEPT !.inst[load].consistency = TRUE]
  /\ remote' = [remote EXCEPT !.taken = @ + 1]
  /\ UNCHANGED <<prog, pointers, fetchRip, crack, sim, outcome>>

(* Another processor commits a store to a byte whose line is not here; one *)
(* store for each line taken.                                              *)
(* The loads that hold the byte's old value are stale from now on.         *)
RemoteStore(b) ==
  /\ remote.stores < remote.taken
  /\ core.perm[LineOf[b]] = "I"
  /\ core' = [core EXCEPT
       !.mem[b] = 9,
       !.inst = [q \in DOMAIN @ |-> [@[q] EXCEPT !.stale =
                   core.inst[q].stale \/ (core.inst[q].uop.op = "ld" /\ b \in DOMAIN core.inst[q].val)]]]
  /\ remote' = [remote EXCEPT !.stores = @ + 1]
  /\ UNCHANGED <<prog, pointers, fetchRip, crack, sim, outcome>>

-----------------------------------------------------------------------------
Retire == \/ RetireBad \/ RetireStoreMiss \/ RetireReplay \/ RetireRefetch
          \/ RetireMiddle \/ Commit \/ CommitFails

Execute(q) == \/ ExecuteMemory(q) \/ ExecuteUnaligned(q)
              \/ ExecuteBranch(q) \/ ExecuteCheck(q)

(* Some part of the core, or the memory system, has something to do: the   *)
(* guards of every action but those of the other processors.               *)
CanStep ==
  \/ MayFetch
  \/ MayRename /\ (core.inst[qRename].uop.op = "illegal" => qRename < core.bad)
  \/ qExecute < qRename
  \/ core.bad = qRetire
  \/ MayRetire /\ AtHead # core
  \/ RetireReady /\ (StrayEnd => FirstUop(qRetire) # 0)
  \/ \E q \in qTail .. (qExecute - 1) :
       \/ core.inst[q].stage = "READY" /\ (IsMemory(core.inst[q].uop) => CacheReady(core))
       \/ Executing(q) /\ (core.inst[q].unaligned => FirstUop(q) # 0)
  \/ \E l \in Lines : core.lines[l].type # "none"

(* A cycle in which nothing happens: the program is over.              *)
EmptyCycle == ~CanStep /\ UNCHANGED vars

Next ==
  \/ Fetch \/ FetchFails \/ Rename \/ RenameIllegal \/ Queue \/ Retire
  \/ \E q \in qTail .. (qExecute - 1) : Select(q) \/ Execute(q)
  \/ \E l \in Lines : Fill(l) \/ Invalidate(l)
  \/ \E b \in DOMAIN WordOf : RemoteStore(b)
  \/ EmptyCycle

Spec == Init /\ [][Next]_vars

(* The simulator calls stepCycle for ever and the memory system answers    *)
(* every request, so while there is something to do, something is done (of *)
(* the steps of other processors there are only finitely many).  No part   *)
(* of the core needs a fairness of its own.                                *)
Fairness == []<>(~CanStep) \/ []<><<TRUE>>_vars

FairSpec == Spec /\ Fairness

-----------------------------------------------------------------------------
(* Properties.                                                             *)

Stages == {"FETCH", "DECODE", "WAIT_RA", "WAIT_RB", "WAIT_RC", "READY",
           "EXECUTE", "MEMORY", "COMPLETE"}

(* Type invariant: the window holds exactly the instructions between the   *)
(* tail and the head, the queue and the wait lists name only them.         *)
TypeOK ==
  /\ DOMAIN core.inst = qTail .. (qHead - 1)
  /\ core.lsq \subseteq DOMAIN core.inst
  /\ \A q \in DOMAIN core.inst :
       /\ core.inst[q].stage \in Stages
       /\ core.inst[q].src \in DOMAIN core.inst => core.inst[q].src < q
       /\ \A w \in Range(core.inst[q].storeWaiters) : w.q \in DOMAIN core.inst
  /\ \A l \in Lines : \A i \in DOMAIN core.lines[l].wait :
       core.lines[l].wait[i].q \in DOMAIN core.inst \cup {NoQ}
  /\ fetchRip \in 1 .. (Len(prog) + 1)

(* The pointers of the window (src/pyrite/Processor.cpp) keep their order  *)
(* through flush, replay and reset, rename stays inside the reorder        *)
(* buffer, and the ring of m_buf_size instructions is never overrun.  The  *)
(* window starts with a uop that starts its x86 instruction                *)
(* (assert(getDynamicInst(m_q_tail)->startsX86Op())), so that walking back *)
(* to the first uop of an instruction never leaves it.                     *)
WindowOrder ==
  /\ 0 <= qTail /\ qTail <= qRetire /\ qRetire <= qExecute
  /\ qExecute <= qRename /\ qRename <= qHead
  /\ qRename <= qTail + RobSize
  /\ qHead - qTail <= BufSize
  /\ \A q \in qTail .. (qHead - 1) : FirstUop(q) \in qTail .. q


(* A load in MEMORY_STAGE is on exactly one wait list, of a requested line *)
(* or of a store that is older, overlaps it and has not issued; so someone *)
(* will wake it, and DynamicInst::squash, youngest first, finds the store  *)
(* without waiters (assert(m_store_waiters.empty())).  And an instruction  *)
(* whose address has no translation, which nothing wakes, is doomed: it or *)
(* an older one is the oldest bad one, which retire will find.             *)
WaitersAreWoken ==
  /\ \A q \in DOMAIN core.inst :
       /\ core.inst[q].uop.op = "ld" /\ core.inst[q].stage = "MEMORY" =>
            OnLine(core, q) # OnStore(core, q)
       /\ \A w \in Range(core.inst[q].storeWaiters) : LET p == w.q IN
            /\ q < p /\ q \in core.lsq /\ ~MemoryIssued(core.inst[q])
            /\ Overlaps(Operand(core.inst[q]), Operand(core.inst[p]))
       /\ core.inst[q].stage = "WAIT_RB" => core.bad <= q
  /\ core.bad # NoBad => qRetire <= core.bad /\ core.bad <= qHead

(* Every program is executed to its end: no lost wakeup, no endless        *)
(* replay, no refetch loop.                                                *)
EverythingCommits == <>(sim.pc > Len(prog))

(* assert(isReady(request)) (src/pyrite/RubyMemoryInterface.cpp:71): a     *)
(* request is only made of a sequencer that has room for it.               *)
SequencerReady == ~core.full

=============================================================================
