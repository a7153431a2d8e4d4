---------------------------- MODULE PriorityQueue ----------------------------
(* What PrioHeap promises to the event queue and to the message buffers: a    *)
(* bag of keys, from which the least is taken.                                *)
EXTENDS Integers, Bags

CONSTANT Key   \* the keys that node_less_then_eq orders, as integers

VARIABLES
    content,   \* the bag of keys held
    last       \* the key returned by the last extractMin

vars == <<content, last>>

Init == content = EmptyBag /\ last = 0

Insert(key) ==
    /\ content' = content (+) SetToBag({key})
    /\ UNCHANGED last

ExtractMin ==
    \E key \in BagToSet(content) :
        /\ \A k \in BagToSet(content) : key <= k
        /\ last' = key
        /\ content' = content (-) SetToBag({key})

Next == (\E key \in Key : Insert(key)) \/ ExtractMin

Spec == Init /\ [][Next]_vars
==============================================================================
