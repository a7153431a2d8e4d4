---------------------------- MODULE CoherentMemory ----------------------------
(* What a coherence protocol promises the processors about one block: the     *)
(* block has one value, every readable copy is that value, and a store takes  *)
(* place at an instant at which nobody else has a readable copy.              *)
EXTENDS Integers

CONSTANTS Proc, NoCopy

VARIABLES
    value,  \* the version of the block: how many stores have completed
    view    \* [Proc -> versions], what a processor would read, or NoCopy

TypeOK == value \in Nat /\ view \in [Proc -> {NoCopy, value}]

Init ==
    /\ value = 0
    /\ view = [p \in Proc |-> NoCopy]

Acquire(p) ==
    /\ view' = [view EXCEPT ![p] = value]
    /\ UNCHANGED value

Release(p) ==
    /\ view' = [view EXCEPT ![p] = NoCopy]
    /\ UNCHANGED value

Store(p) ==
    /\ value' = value + 1
    /\ view' = [q \in Proc |-> IF q = p THEN value + 1 ELSE NoCopy]

Next == \E p \in Proc : Acquire(p) \/ Release(p) \/ Store(p)

Spec == Init /\ [][Next]_<<value, view>>
===============================================================================
