----------------------------- MODULE MessageBuffer -----------------------------
(* ruby/buffers/MessageBuffer.C: the queues between the consumers.  A message   *)
(* becomes ready at its arrival time, and enqueueing it schedules a wakeup of   *)
(* the buffer's consumer for that time.  Nothing sets a maximum size.           *)
EXTENDS EventQueue

CONSTANTS
    Buffer,
    consumer,       \* [Buffer -> Consumer], setConsumer
    strictFifo,     \* [Buffer -> BOOLEAN], setOrdering
    Latency,        \* [Buffer -> SUBSET Nat], the delays the controllers pass
    RandomTimes,    \* the values of random_time()
    Randomization,  \* [Buffer -> BOOLEAN], RANDOMIZATION and m_randomization
    RecycleLatency  \* RECYCLE_LATENCY

(* An ordered buffer is always given the same delay.                            *)
ASSUME MessageBufferAssumption ==
    /\ consumer \in [Buffer -> Consumer]
    /\ strictFifo \in [Buffer -> BOOLEAN]
    /\ Latency \in [Buffer -> SUBSET (Nat \ {0})]
    /\ \A b \in Buffer : strictFifo[b] => \A d, e \in Latency[b] : d = e
    /\ RandomTimes \subseteq Nat \ {0}
    /\ Randomization \in [Buffer -> BOOLEAN]
    /\ RecycleLatency \in Nat \ {0}

VARIABLES
    heap,             \* [Buffer -> SUBSET Node], m_prio_heap
    msgCounter,       \* [Buffer -> Nat], m_msg_counter
    lastArrivalTime,  \* [Buffer -> Nat], m_last_arrival_time
    delivered         \* [Buffer -> Nat], counter of the last message popped

bufferVars == <<heap, msgCounter, lastArrivalTime, delivered>>

Node == [time : Nat, counter : Nat]

BufferInit ==
    /\ heap = [b \in Buffer |-> {}]
    /\ msgCounter = [b \in Buffer |-> 0]
    /\ lastArrivalTime = [b \in Buffer |-> 0]
    /\ delivered = [b \in Buffer |-> 0]

BufferTypeOK ==
    /\ heap \in [Buffer -> SUBSET Node]
    /\ msgCounter \in [Buffer -> Nat]
    /\ lastArrivalTime \in [Buffer -> Nat]
    /\ delivered \in [Buffer -> Nat]

--------------------------------------------------------------------------------
(* Faulty variant: messages of one time in any order but the one of arrival.   *)
Precedes_latestFirst(m, n) ==
    m.time < n.time \/ (m.time = n.time /\ m.counter >= n.counter)

(* node_less_then_eq: by time, then by counter.                                 *)
Precedes(m, n) == m.time < n.time \/ (m.time = n.time /\ m.counter <= n.counter)

IsHead(b, n) == n \in heap[b] /\ \A m \in heap[b] : Precedes(n, m)

isReady(b) == \E n \in heap[b] : n.time <= globalTime

Delays(b) == IF Randomization[b] THEN RandomTimes ELSE Latency[b]

(* Faulty variant: the random delay of an ordered buffer starts from now.      *)
ArrivalTime_fromNow(b, d) == globalTime + d

ArrivalTime(b, d) ==
    IF Randomization[b] /\ strictFifo[b] /\ lastArrivalTime[b] >= globalTime
    THEN lastArrivalTime[b] + d
    ELSE globalTime + d

enqueue(b, d) ==
    LET t == ArrivalTime(b, d)
        n == [time |-> t, counter |-> msgCounter[b] + 1]
    IN /\ heap' = [heap EXCEPT ![b] = @ \cup {n}]
       /\ msgCounter' = [msgCounter EXCEPT ![b] = @ + 1]
       /\ lastArrivalTime' = [lastArrivalTime EXCEPT ![b] = t]
       /\ scheduleEventAbsolute(consumer[b], t)
       /\ UNCHANGED <<delivered, globalTime, lastWakeup, target, running>>

pop(b, n) ==
    /\ isReady(b) /\ IsHead(b, n)
    /\ heap' = [heap EXCEPT ![b] = @ \ {n}]
    /\ delivered' = [delivered EXCEPT ![b] = n.counter]
    /\ UNCHANGED <<msgCounter, lastArrivalTime, globalTime, events,
                   lastScheduledWakeup, lastWakeup, target, running>>

(* The head goes back into the heap, to be ready in RECYCLE_LATENCY cycles.     *)
recycle(b, n) ==
    /\ isReady(b) /\ IsHead(b, n)
    /\ heap' = [heap EXCEPT ![b] = (@ \ {n}) \cup {[n EXCEPT !.time = globalTime + RecycleLatency]}]
    /\ scheduleEventAbsolute(consumer[b], globalTime + RecycleLatency)
    /\ UNCHANGED <<msgCounter, lastArrivalTime, delivered, globalTime, lastWakeup,
                   target, running>>
================================================================================
