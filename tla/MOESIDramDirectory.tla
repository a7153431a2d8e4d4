-------------------------- MODULE MOESIDramDirectory --------------------------
(* The protocol MOESI_DRAM_directory, which the sconstruct builds: the L1      *)
(* cache controllers of MOESI_directory with the directory that waits for      *)
(* DRAMSim2.                                                                   *)
EXTENDS L1CacheController, DramDirectoryController

CONSTANT Randomization   \* the parameter RANDOMIZATION

ASSUME RandomizationAssumption == Randomization \in BOOLEAN

vars == <<cache, latest, readRequestTable, writeRequestTable, requestQueue,
          dir, net, merged>>

Init == SequencerInit /\ CacheInit /\ DirectoryInit /\ NetworkInit

(* DirectoryMemory enqueues its answer with a delay of one cycle.  Without     *)
(* randomization nothing a cache sends can reach the directory before it: the  *)
(* directory may only handle what is already queued there, which it does       *)
(* first, the dram port being its last.  With randomization (the tester) every *)
(* message buffer ignores the delay it is given.                               *)
DramPending == \E m \in net : m.vnet = "dram"

Next ==
    \/ (Randomization \/ ~DramPending) /\ CacheNext /\ UNCHANGED dir
    \/ DramDirectoryNext /\ UNCHANGED <<cacheVars, sequencerVars>>

Spec == Init /\ [][Next]_vars
--------------------------------------------------------------------------------
(* The generated controllers' ERROR_MSG("Invalid transition") is never         *)
(* reached: a message, whenever delivered, has a transition in its receiver's  *)
(* state.  The DRAM directory breaks this: see the finding.                    *)
NoInvalidTransition ==
    /\ \A m \in net : m.to \in Proc => cache[m.to].state \in CacheExpects(m.to, m)
    /\ \A m \in net : m.to = Dir => dir.state \in DramDirectoryExpects(m)
    /\ \A p \in Proc : cache[p].trigger > 0 => cache[p].trigger = 1 /\ cache[p].state = "OM"
    /\ ~merged

(* DATA_EXCLUSIVE_CLEAN and DATA_EXCLUSIVE_DIRTY mean "no other processor has   *)
(* a copy".                                                                    *)
ExclusiveDataIsExclusive ==
    \A m \in net : m.type \in {"DATA_EXCLUSIVE_CLEAN", "DATA_EXCLUSIVE_DIRTY"} =>
        \A p \in Proc \ {m.to} : Permission(cache[p]) \in {"NotPresent", "Invalid"}

(* The same for what the caches receive: the extra requests the directory      *)
(* accepts while it waits for DRAM never reach a cache out of turn.            *)
NoInvalidCacheTransition ==
    /\ \A m \in net : m.to \in Proc => cache[m.to].state \in CacheExpects(m.to, m)
    /\ \A p \in Proc : cache[p].trigger > 0 => cache[p].trigger = 1 /\ cache[p].state = "OM"

(* The assertions of the directory's setState, writeDataToCacheVerify and      *)
(* ll_checkDataInMemory.                                                       *)
AssertionsHold ==
    /\ SetStateAsserts
    /\ \A m \in net : /\ m.vnet = "response"
                      /\ m.type \in {"DATA", "DATA_EXCLUSIVE_CLEAN"}
                      /\ cache[m.to].state = "SM"
                      => m.data = cache[m.to].data
    /\ \A m \in net : IsOwnerPut(m, "PUT_CLEAN") => m.data = dir.data

(* A processor never reads a stale value, even in a run in which the directory *)
(* has accepted two requests at once: it stops before it answers both.         *)
NoStaleRead ==
    \A p \in Proc :
        Permission(cache[p]) \in {"Read_Only", "Read_Write"} => cache[p].data = latest

(* Single writer, multiple readers, under the same circumstances.              *)
SingleWriter ==
    \A p, q \in Proc :
        /\ p # q
        /\ cache[p].state \in {"E", "M", "MM"}
        => Permission(cache[q]) \in {"NotPresent", "Invalid"}

(* Apart from the invalid transition of the directory that the finding is     *)
(* about, nothing else goes wrong in a cache or trips an assertion: a program  *)
(* that stops, stops there.                                                    *)
NoOtherFailure == NoInvalidCacheTransition /\ AssertionsHold

(* What the processors see is coherent up to the point where the directory     *)
(* stops, although it has accepted requests it cannot answer.                  *)
CachesCoherent == SingleWriter /\ NoStaleRead
================================================================================
