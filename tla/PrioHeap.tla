------------------------------- MODULE PrioHeap -------------------------------
(* common/PrioHeap.h: the binary heap under EventQueue and MessageBuffer.  Keys *)
(* that node_less_then_eq holds equal (events of one time) are equal here.      *)
EXTENDS Integers, Sequences, FiniteSets

CONSTANTS
    Key,      \* the keys, integers
    MaxSize   \* bound on the size of the heap

ASSUME PrioHeapAssumption == Key \subseteq Int /\ MaxSize \in Nat

VARIABLES
    heap,     \* m_heap[1 .. m_current_size]
    last      \* what the last extractMin returned

vars == <<heap, last>>

Init == heap = <<>> /\ last = 0

get_parent(i) == i \div 2
get_left(i) == 2 * i
get_right(i) == 2 * i + 1

--------------------------------------------------------------------------------
(* The loop of insert: the hole at i rises past every parent not less than key. *)
RECURSIVE Rise(_, _, _)
Rise(h, key, i) ==
    IF i > 1 /\ key <= h[get_parent(i)]
    THEN Rise([h EXCEPT ![i] = h[get_parent(i)]], key, get_parent(i))
    ELSE [h EXCEPT ![i] = key]

insert(key) ==
    /\ Len(heap) < MaxSize
    /\ heap' = Rise(Append(heap, key), key, Len(heap) + 1)
    /\ UNCHANGED last

(* The smallest of a node and its children; of equals, a child.                 *)
Smallest(h, i) ==
    LET left  == get_left(i)
        right == get_right(i)
        s     == IF left <= Len(h) /\ h[left] <= h[i] THEN left ELSE i
    IN IF right <= Len(h) /\ h[right] <= h[s] THEN right ELSE s

(* The loop of heapify, from current_node i.                                    *)
RECURSIVE Heapify(_, _)
Heapify(h, i) ==
    LET s == Smallest(h, i)
    IN IF s = i THEN h
       ELSE Heapify([h EXCEPT ![i] = h[s], ![s] = h[i]], s)

(* Faulty variant: the last key is not moved to the root.                       *)
extractMin_dropsLast ==
    /\ heap # <<>>
    /\ last' = heap[1]
    /\ heap' = Heapify(SubSeq(heap, 1, Len(heap) - 1), 1)

extractMin ==
    /\ heap # <<>>
    /\ last' = heap[1]
    /\ heap' = LET h == [heap EXCEPT ![1] = heap[Len(heap)]]
               IN Heapify(SubSeq(h, 1, Len(h) - 1), 1)

Next == (\E key \in Key : insert(key)) \/ extractMin

Spec == Init /\ [][Next]_vars
--------------------------------------------------------------------------------
(* The heap is a priority queue: nothing is lost or duplicated when keys move,  *)
(* and what comes out is least among all that is held, ties included.           *)
Positions(key) == {i \in 1 .. Len(heap) : heap[i] = key}

Content ==
    [key \in {heap[i] : i \in 1 .. Len(heap)} |-> Cardinality(Positions(key))]

Queue == INSTANCE PriorityQueue WITH content <- Content

ImplementsPriorityQueue == Queue!Spec
================================================================================
