------------------------ MODULE ControllerWakeup_proofs ------------------------
(* Wakeups, time and the order of messages for every set of consumers and         *)
(* buffers, every latency, randomized or not, and every bound.                    *)
EXTENDS ControllerWakeup, FiniteSetTheorems, TLAPS

(* The strengthening.  No event is in the past, and none is in the present        *)
(* outside triggerEvents.                                                         *)
EventsAhead ==
    /\ \A e \in events : e.time >= globalTime
    /\ target = 0 => \A e \in events : e.time > globalTime
    /\ target \notin {0, All} => globalTime <= target

(* The event that makes a later request of the same wakeup redundant exists.      *)
LastScheduledExists ==
    \A c \in Consumer :
        lastScheduledWakeup[c] > globalTime => IsScheduled(c, lastScheduledWakeup[c])

(* A consumer waits for an event of the present only if it has not been woken in  *)
(* this cycle, since that event would then be dropped.                            *)
WakeupPending(c) ==
    \/ running = c
    \/ IsScheduled(c, globalTime) /\ lastWakeup[c] # globalTime
    \/ IsScheduled(c, globalTime + 1)

MessagesAwaited ==
    \A b \in Buffer : \A n \in heap[b] :
        IF n.time > globalTime THEN IsScheduled(consumer[b], n.time)
                               ELSE WakeupPending(consumer[b])

IInv ==
    /\ TypeOK
    /\ EventsAhead
    /\ LastScheduledExists
    /\ \A c \in Consumer : lastWakeup[c] <= globalTime
    /\ MessagesAwaited

--------------------------------------------------------------------------------
(* The strengthening implies what the runs check.                                 *)
LEMMA IInvImpliesNoLostWakeup == IInv => NoLostWakeup
  BY DEF IInv, NoLostWakeup, MessagesAwaited, WakeupPending

(* Init: there are no events and no messages.                                     *)
LEMMA InitIInv == Init => IInv
<1> SUFFICES ASSUME Init PROVE IInv
  OBVIOUS
<1> USE DEF Init, EventQueueInit, BufferInit
<1>1. TypeOK
  <2>1. IsFiniteSet(events)
    BY FS_EmptySet
  <2> QED
    BY <2>1 DEF TypeOK, EventQueueTypeOK, BufferTypeOK, All
<1>2. EventsAhead
  BY DEF EventsAhead
<1>3. LastScheduledExists
  BY DEF LastScheduledExists
<1>4. MessagesAwaited
  BY DEF MessagesAwaited
<1> QED
  BY <1>1, <1>2, <1>3, <1>4 DEF IInv

(* scheduleEventAbsolute keeps the types and every event, adds events of the one  *)
(* consumer and time only, and an event of that consumer at that time exists      *)
(* afterwards: the wakeups it filters out were redundant.                         *)
LEMMA ScheduleEvent ==
  ASSUME TypeOK, LastScheduledExists,
         NEW c \in Consumer, NEW t \in Nat, t > globalTime,
         scheduleEventAbsolute(c, t)
  PROVE  /\ events' \in SUBSET Event /\ IsFiniteSet(events')
         /\ lastScheduledWakeup' \in [Consumer -> Nat]
         /\ events \subseteq events'
         /\ \A e \in events' \ events : e.time = t
         /\ \E e \in events' : e.consumer = c /\ e.time = t
         /\ \A k \in Consumer : lastScheduledWakeup'[k] > globalTime =>
               \E e \in events' : e.consumer = k /\ e.time = lastScheduledWakeup'[k]
<1> USE DEF TypeOK, EventQueueTypeOK
<1>1. Cardinality(Scheduled(c, t)) \in Nat
  <2>1. Scheduled(c, t) \subseteq events
    BY DEF Scheduled
  <2>2. IsFiniteSet(Scheduled(c, t))
    BY <2>1, FS_Subset
  <2> QED
    BY <2>2, FS_CardinalityType
<1>2. NewEvent(c, t) \in Event /\ NewEvent(c, t).time = t /\ NewEvent(c, t).consumer = c
  BY <1>1 DEF NewEvent, Event
<1>3. /\ events' = IF lastScheduledWakeup[c] # t THEN events \cup {NewEvent(c, t)} ELSE events
      /\ lastScheduledWakeup' = [lastScheduledWakeup EXCEPT ![c] = t]
  BY DEF scheduleEventAbsolute
<1>4. events' \in SUBSET Event /\ events \subseteq events' /\ \A e \in events' \ events : e.time = t
  BY <1>2, <1>3
<1>5. IsFiniteSet(events')
  BY <1>3, FS_AddElement
<1>6. \E e \in events' : e.consumer = c /\ e.time = t
  BY <1>2, <1>3 DEF LastScheduledExists, IsScheduled
<1>7. \A k \in Consumer : lastScheduledWakeup'[k] > globalTime =>
         \E e \in events' : e.consumer = k /\ e.time = lastScheduledWakeup'[k]
  BY <1>3, <1>4, <1>6 DEF LastScheduledExists, IsScheduled
<1> QED
  BY <1>3, <1>4, <1>5, <1>6, <1>7
--------------------------------------------------------------------------------
(* A step that leaves time and the running consumer alone, drops no event, adds   *)
(* only future ones and announces every message it adds keeps the promises.       *)
LEMMA KeepsAwaited ==
  ASSUME IInv, NEW b \in Buffer, NEW t \in Nat, t > globalTime,
         scheduleEventAbsolute(consumer[b], t),
         UNCHANGED <<globalTime, lastWakeup, target, running>>,
         \A k \in Buffer \ {b} : heap'[k] = heap[k],
         \A n \in heap'[b] : n \in heap[b] \/ n.time = t
  PROVE  EventsAhead' /\ LastScheduledExists' /\ MessagesAwaited'
<1> USE DEF IInv
<1>0. consumer[b] \in Consumer
  BY MessageBufferAssumption
<1>1. /\ events \subseteq events'
      /\ \A e \in events' \ events : e.time = t
      /\ \E e \in events' : e.consumer = consumer[b] /\ e.time = t
      /\ \A k \in Consumer : lastScheduledWakeup'[k] > globalTime =>
            \E e \in events' : e.consumer = k /\ e.time = lastScheduledWakeup'[k]
  BY <1>0, ScheduleEvent
<1>2. EventsAhead'
  BY <1>1 DEF EventsAhead, TypeOK, EventQueueTypeOK
<1>3. LastScheduledExists'
  BY <1>1 DEF LastScheduledExists, IsScheduled
<1>4. MessagesAwaited'
  <2> SUFFICES ASSUME NEW k \in Buffer, NEW n \in heap'[k]
               PROVE  IF n.time > globalTime THEN IsScheduled(consumer[k], n.time)'
                      ELSE WakeupPending(consumer[k])'
    BY DEF MessagesAwaited
  <2>1. CASE n \in heap[k]
    BY <2>1, <1>1 DEF MessagesAwaited, WakeupPending, IsScheduled
  <2>2. CASE n \notin heap[k]
    <3>1. k = b /\ n.time = t
      BY <2>2
    <3> QED
      BY <3>1, <1>1 DEF IsScheduled
  <2> QED
    BY <2>1, <2>2
<1> QED
  BY <1>2, <1>3, <1>4

(* The driver's calls and the end of the loop.                                    *)
LEMMA DriverKeepsIInv == IInv /\ (TriggerEvents \/ EndTriggerEvents) => IInv'
<1> USE DEF IInv, bufferVars
<1>1. ASSUME IInv, TriggerEvents PROVE IInv'
  <2>1. PICK t \in (1 .. MaxTime) \cup {All} : CallTriggerEvents(t)
    BY <1>1 DEF TriggerEvents
  <2>2. UNCHANGED <<globalTime, events, lastScheduledWakeup, lastWakeup, running,
                    heap, msgCounter, lastArrivalTime, delivered, counter>>
    BY <1>1, <2>1 DEF TriggerEvents, CallTriggerEvents
  <2>3. t \in Nat \cup {All} /\ t # 0
    BY EventQueueAssumption DEF All
  <2>4. TypeOK'
    BY <1>1, <2>1, <2>2, <2>3 DEF TypeOK, EventQueueTypeOK, BufferTypeOK, CallTriggerEvents
  <2>5. EventsAhead'
    BY <1>1, <2>1, <2>2, <2>3 DEF EventsAhead, CallTriggerEvents, TypeOK, EventQueueTypeOK
  <2>6. LastScheduledExists' /\ MessagesAwaited'
    BY <1>1, <2>2 DEF LastScheduledExists, MessagesAwaited, WakeupPending, IsScheduled
  <2> QED
    BY <1>1, <2>2, <2>4, <2>5, <2>6
<1>2. ASSUME IInv, EndTriggerEvents PROVE IInv'
  <2>1. /\ target # 0 /\ running = None
        /\ \A e \in events : ~Due(e)
        /\ globalTime' = IF target = All THEN globalTime ELSE target
        /\ target' = 0
        /\ UNCHANGED <<events, lastScheduledWakeup, lastWakeup, running,
                       heap, msgCounter, lastArrivalTime, delivered, counter>>
    BY <1>2 DEF EndTriggerEvents, FinishTriggerEvents
  <2>2. TypeOK'
    BY <1>2, <2>1 DEF TypeOK, EventQueueTypeOK, BufferTypeOK
  <2>3. globalTime' \in Nat /\ globalTime \in Nat /\ globalTime' >= globalTime
    BY <1>2, <2>1 DEF EventsAhead, TypeOK, EventQueueTypeOK
  <2>4. \A e \in events : e.time > globalTime' /\ e.time \in Nat
    BY <1>2, <2>1 DEF Due, TypeOK, EventQueueTypeOK, Event
  <2>5. EventsAhead'
    BY <2>1, <2>3, <2>4 DEF EventsAhead
  <2>6. LastScheduledExists'
    BY <1>2, <2>1, <2>3 DEF LastScheduledExists, IsScheduled, TypeOK, EventQueueTypeOK
  <2>7. \A c \in Consumer : lastWakeup'[c] <= globalTime'
    BY <1>2, <2>1, <2>3 DEF TypeOK, EventQueueTypeOK
  <2>8. MessagesAwaited'
    <3> SUFFICES ASSUME NEW b \in Buffer, NEW n \in heap[b]
                 PROVE  IF n.time > globalTime' THEN IsScheduled(consumer[b], n.time)
                        ELSE WakeupPending(consumer[b])'
      BY <2>1 DEF MessagesAwaited, IsScheduled
    <3>0. n.time \in Nat /\ consumer[b] \in Consumer
      BY <1>2, MessageBufferAssumption DEF TypeOK, BufferTypeOK, Node
    <3>1. CASE n.time > globalTime
      BY <1>2, <2>3, <2>4, <3>0, <3>1 DEF MessagesAwaited, IsScheduled
    <3>2. CASE ~(n.time > globalTime)
      <4>1. IsScheduled(consumer[b], globalTime) \/ IsScheduled(consumer[b], globalTime + 1)
        BY <1>2, <2>1, <3>0, <3>2, EventQueueAssumption DEF MessagesAwaited, WakeupPending
      <4>2. globalTime' = globalTime /\ IsScheduled(consumer[b], globalTime + 1)
        BY <2>3, <2>4, <4>1 DEF IsScheduled
      <4> QED
        BY <2>1, <2>3, <3>0, <3>2, <4>2 DEF WakeupPending, IsScheduled
    <3> QED
      BY <3>1, <3>2
  <2> QED
    BY <2>2, <2>5, <2>6, <2>7, <2>8
<1> QED
  BY <1>1, <1>2
(* Extracting an event: if it is a later one, every message that has arrived by   *)
(* then is waiting for an event of exactly that time.                             *)
LEMMA WakeKeepsIInv == IInv /\ Wake => IInv'
<1> SUFFICES ASSUME IInv, Wake PROVE IInv'
  OBVIOUS
<1> USE DEF IInv
<1>1. PICK e \in events : ExtractMin(e)
  BY DEF Wake
<1>2. /\ target # 0 /\ running = None
      /\ \A f \in events : e.time <= f.time
      /\ Due(e)
      /\ globalTime' = e.time
      /\ events' = events \ {e}
      /\ running' = IF lastWakeup[e.consumer] # e.time THEN e.consumer ELSE None
      /\ counter' = 0
      /\ UNCHANGED <<lastScheduledWakeup, lastWakeup, target, heap, msgCounter,
                     lastArrivalTime, delivered>>
  BY <1>1 DEF ExtractMin, IsMin, Wake, bufferVars
<1>3. /\ e.time \in Nat /\ e.consumer \in Consumer /\ globalTime \in Nat
      /\ \A f \in events : f.time \in Nat
      /\ e.time >= globalTime
  BY <1>1 DEF TypeOK, EventQueueTypeOK, Event, EventsAhead
<1>4. TypeOK'
  <2>1. IsFiniteSet(events')
    BY <1>2, FS_RemoveElement DEF TypeOK, EventQueueTypeOK
  <2> QED
    BY <1>2, <1>3, <2>1 DEF TypeOK, EventQueueTypeOK, BufferTypeOK
<1>5. EventsAhead'
  BY <1>2, <1>3 DEF EventsAhead, Due
<1>6. LastScheduledExists'
  BY <1>2, <1>3 DEF LastScheduledExists, IsScheduled, TypeOK, EventQueueTypeOK
<1>7. \A c \in Consumer : lastWakeup'[c] <= globalTime'
  BY <1>2, <1>3 DEF TypeOK, EventQueueTypeOK
<1>8. MessagesAwaited'
  <2> SUFFICES ASSUME NEW b \in Buffer, NEW n \in heap[b]
               PROVE  IF n.time > e.time THEN IsScheduled(consumer[b], n.time)'
                      ELSE WakeupPending(consumer[b])'
    BY <1>2 DEF MessagesAwaited
  <2>0. n.time \in Nat /\ consumer[b] \in Consumer
    BY MessageBufferAssumption DEF TypeOK, BufferTypeOK, Node
  <2>1. CASE n.time > e.time
    BY <1>2, <1>3, <2>0, <2>1 DEF MessagesAwaited, IsScheduled
  <2>2. CASE ~(n.time > e.time) /\ e.time = globalTime
    <3>1. WakeupPending(consumer[b]) /\ running # consumer[b]
      BY <1>2, <2>0, <2>2, EventQueueAssumption DEF MessagesAwaited
    <3>2. CASE IsScheduled(consumer[b], globalTime + 1)
      BY <1>2, <1>3, <2>2, <3>2 DEF WakeupPending, IsScheduled
    <3>3. CASE IsScheduled(consumer[b], globalTime) /\ lastWakeup[consumer[b]] # globalTime
      BY <1>2, <1>3, <2>2, <3>3 DEF WakeupPending, IsScheduled
    <3> QED
      BY <3>1, <3>2, <3>3 DEF WakeupPending
  <2>3. CASE ~(n.time > e.time) /\ e.time # globalTime
    <3>1. IsScheduled(consumer[b], e.time)
      <4>1. CASE n.time > globalTime
        <5>1. PICK f \in events : f.consumer = consumer[b] /\ f.time = n.time
          BY <4>1 DEF MessagesAwaited, IsScheduled
        <5> QED
          BY <1>2, <1>3, <2>0, <2>3, <5>1 DEF IsScheduled
      <4>2. CASE ~(n.time > globalTime)
        <5>1. IsScheduled(consumer[b], globalTime) \/ IsScheduled(consumer[b], globalTime + 1)
          BY <1>2, <2>0, <4>2, EventQueueAssumption DEF MessagesAwaited, WakeupPending
        <5> QED
          BY <1>2, <1>3, <2>3, <5>1 DEF IsScheduled
      <4> QED
        BY <4>1, <4>2
    <3>2. lastWakeup[consumer[b]] # e.time
      BY <1>3, <2>0, <2>3 DEF TypeOK, EventQueueTypeOK
    <3> QED
      BY <1>2, <1>3, <2>3, <3>1, <3>2 DEF WakeupPending, IsScheduled
  <2> QED
    BY <2>1, <2>2, <2>3
<1> QED
  BY <1>4, <1>5, <1>6, <1>7, <1>8

(* Sending a message.                                                             *)
LEMMA SendKeepsIInv ==
  ASSUME IInv, NEW b \in Buffer, NEW d \in Delays(b), Send(b, d)
  PROVE  IInv'
<1> USE DEF IInv
<1> DEFINE t == ArrivalTime(b, d)
           n == [time |-> t, counter |-> msgCounter[b] + 1]
<1>1. /\ heap' = [heap EXCEPT ![b] = @ \cup {n}]
      /\ msgCounter' = [msgCounter EXCEPT ![b] = @ + 1]
      /\ lastArrivalTime' = [lastArrivalTime EXCEPT ![b] = t]
      /\ scheduleEventAbsolute(consumer[b], t)
      /\ UNCHANGED <<delivered, globalTime, lastWakeup, target, running, counter>>
  BY DEF Send, enqueue
<1>2. d \in Nat /\ d > 0
  BY MessageBufferAssumption DEF Delays
<1>3. t \in Nat /\ t > globalTime
  BY <1>2 DEF ArrivalTime, TypeOK, EventQueueTypeOK, BufferTypeOK
<1>4. n \in Node /\ n.time = t
  BY <1>3 DEF Node, TypeOK, BufferTypeOK
<1> HIDE DEF t, n
<1>5. TypeOK'
  <2>1. /\ events' \in SUBSET Event /\ IsFiniteSet(events')
        /\ lastScheduledWakeup' \in [Consumer -> Nat]
    BY <1>1, <1>3, ScheduleEvent, MessageBufferAssumption
  <2>2. heap' \in [Buffer -> SUBSET Node]
    BY <1>1, <1>4 DEF TypeOK, BufferTypeOK
  <2>3. msgCounter' \in [Buffer -> Nat] /\ lastArrivalTime' \in [Buffer -> Nat]
    BY <1>1, <1>3 DEF TypeOK, BufferTypeOK
  <2> QED
    BY <1>1, <2>1, <2>2, <2>3 DEF TypeOK, EventQueueTypeOK, BufferTypeOK
<1>6. /\ \A k \in Buffer \ {b} : heap'[k] = heap[k]
      /\ \A m \in heap'[b] : m \in heap[b] \/ m.time = t
  BY <1>1, <1>4 DEF TypeOK, BufferTypeOK
<1>7. EventsAhead' /\ LastScheduledExists' /\ MessagesAwaited'
  BY <1>1, <1>3, <1>6, KeepsAwaited
<1> QED
  BY <1>1, <1>5, <1>7

(* A transition that pops or recycles a message.                                  *)
LEMMA TransitionKeepsIInv ==
  ASSUME IInv, NEW b \in Buffer, Transition(b)
  PROVE  IInv'
<1> USE DEF IInv
<1>1. PICK n \in heap[b] : pop(b, n) \/ recycle(b, n)
  BY DEF Transition
<1>2. counter' \in Nat
  BY DEF Transition, TypeOK
<1>3. CASE pop(b, n)
  <2>1. /\ heap' = [heap EXCEPT ![b] = @ \ {n}]
        /\ delivered' = [delivered EXCEPT ![b] = n.counter]
        /\ UNCHANGED <<msgCounter, lastArrivalTime, globalTime, events,
                       lastScheduledWakeup, lastWakeup, target, running>>
    BY <1>3 DEF pop
  <2>2. TypeOK'
    <3>1. n.counter \in Nat
      BY DEF TypeOK, BufferTypeOK, Node
    <3>2. delivered' \in [Buffer -> Nat] /\ heap' \in [Buffer -> SUBSET Node]
      BY <2>1, <3>1 DEF TypeOK, BufferTypeOK
    <3> QED
      BY <1>2, <2>1, <3>2 DEF TypeOK, EventQueueTypeOK, BufferTypeOK
  <2>3. \A k \in Buffer : heap'[k] \subseteq heap[k]
    BY <2>1 DEF TypeOK, BufferTypeOK
  <2>4. EventsAhead' /\ LastScheduledExists' /\ MessagesAwaited'
    BY <2>1, <2>3 DEF EventsAhead, LastScheduledExists, MessagesAwaited, WakeupPending, IsScheduled
  <2> QED
    BY <2>1, <2>2, <2>4
<1>4. CASE recycle(b, n)
  <2> DEFINE t == globalTime + RecycleLatency
             m == [n EXCEPT !.time = t]
  <2>1. /\ heap' = [heap EXCEPT ![b] = (@ \ {n}) \cup {m}]
        /\ scheduleEventAbsolute(consumer[b], t)
        /\ UNCHANGED <<msgCounter, lastArrivalTime, delivered, globalTime, lastWakeup,
                       target, running>>
    BY <1>4 DEF recycle
  <2>2. t \in Nat /\ t > globalTime
    BY MessageBufferAssumption DEF TypeOK, EventQueueTypeOK
  <2>3. m \in Node /\ m.time = t
    BY <2>2 DEF Node, TypeOK, BufferTypeOK
  <2> HIDE DEF t, m
  <2>4. TypeOK'
    <3>1. /\ events' \in SUBSET Event /\ IsFiniteSet(events')
          /\ lastScheduledWakeup' \in [Consumer -> Nat]
      BY <2>1, <2>2, ScheduleEvent, MessageBufferAssumption
    <3>2. heap' \in [Buffer -> SUBSET Node]
      BY <2>1, <2>3 DEF TypeOK, BufferTypeOK
    <3> QED
      BY <1>2, <2>1, <3>1, <3>2 DEF TypeOK, EventQueueTypeOK, BufferTypeOK
  <2>5. /\ \A k \in Buffer \ {b} : heap'[k] = heap[k]
        /\ \A p \in heap'[b] : p \in heap[b] \/ p.time = t
    BY <2>1, <2>3 DEF TypeOK, BufferTypeOK
  <2>6. EventsAhead' /\ LastScheduledExists' /\ MessagesAwaited'
    BY <2>1, <2>2, <2>5, KeepsAwaited
  <2> QED
    BY <2>1, <2>4, <2>6
<1> QED
  BY <1>1, <1>3, <1>4
(* wakeup() returns: with TRANSITIONS_PER_RUBY_CYCLE spent it has scheduled       *)
(* itself for the next cycle, else nothing of its buffers is ready.               *)
LEMMA ReturnKeepsIInv == IInv /\ (CycleFull \/ NothingReady) => IInv'
<1> SUFFICES ASSUME IInv, CycleFull \/ NothingReady PROVE IInv'
  OBVIOUS
<1> USE DEF IInv
<1> DEFINE c == running
<1>0. c \in Consumer /\ globalTime \in Nat
  BY DEF CycleFull, NothingReady, TypeOK, EventQueueTypeOK
<1>1. /\ running' = None
      /\ lastWakeup' = [lastWakeup EXCEPT ![c] = globalTime]
      /\ UNCHANGED <<globalTime, target, heap, msgCounter, lastArrivalTime, delivered, counter>>
  BY DEF CycleFull, NothingReady, ReturnFromWakeup, bufferVars
<1>2. /\ events' \in SUBSET Event /\ IsFiniteSet(events')
      /\ lastScheduledWakeup' \in [Consumer -> Nat]
      /\ events \subseteq events'
      /\ \A e \in events' \ events : e.time = globalTime + 1
      /\ \A k \in Consumer : lastScheduledWakeup'[k] > globalTime =>
            \E e \in events' : e.consumer = k /\ e.time = lastScheduledWakeup'[k]
      /\ \/ \A b \in Buffer : consumer[b] = c => ~isReady(b)
         \/ \E e \in events' : e.consumer = c /\ e.time = globalTime + 1
  <2>1. CASE CycleFull
    BY <2>1, <1>0, ScheduleEvent DEF CycleFull
  <2>2. CASE NothingReady
    BY <2>2 DEF NothingReady, TypeOK, EventQueueTypeOK, LastScheduledExists, IsScheduled
  <2> QED
    BY <2>1, <2>2
<1>3. TypeOK'
  BY <1>0, <1>1, <1>2 DEF TypeOK, EventQueueTypeOK, BufferTypeOK
<1>4. EventsAhead'
  BY <1>0, <1>1, <1>2 DEF EventsAhead
<1>5. LastScheduledExists'
  BY <1>1, <1>2 DEF LastScheduledExists, IsScheduled
<1>6. \A k \in Consumer : lastWakeup'[k] <= globalTime'
  BY <1>0, <1>1 DEF TypeOK, EventQueueTypeOK
<1>7. MessagesAwaited'
  <2> SUFFICES ASSUME NEW b \in Buffer, NEW n \in heap[b]
               PROVE  IF n.time > globalTime THEN IsScheduled(consumer[b], n.time)'
                      ELSE WakeupPending(consumer[b])'
    BY <1>1 DEF MessagesAwaited
  <2>0. n.time \in Nat /\ consumer[b] \in Consumer
    BY MessageBufferAssumption DEF TypeOK, BufferTypeOK, Node
  <2>1. CASE n.time > globalTime
    BY <1>2, <2>1 DEF MessagesAwaited, IsScheduled
  <2>2. CASE ~(n.time > globalTime) /\ consumer[b] = c
    <3>1. isReady(b)
      BY <1>0, <2>0, <2>2 DEF isReady
    <3> QED
      BY <1>1, <1>2, <2>2, <3>1 DEF WakeupPending, IsScheduled
  <2>3. CASE ~(n.time > globalTime) /\ consumer[b] # c
    <3>1. WakeupPending(consumer[b]) /\ lastWakeup'[consumer[b]] = lastWakeup[consumer[b]]
      BY <1>1, <2>0, <2>3 DEF MessagesAwaited, TypeOK, EventQueueTypeOK
    <3> QED
      BY <1>1, <1>2, <2>3, <3>1 DEF WakeupPending, IsScheduled
  <2> QED
    BY <2>1, <2>2, <2>3
<1> QED
  BY <1>3, <1>4, <1>5, <1>6, <1>7

--------------------------------------------------------------------------------
(* Every step keeps the strengthening.                                            *)
LEMMA NextKeepsIInv == IInv /\ [Next]_vars => IInv'
<1> SUFFICES ASSUME IInv, [Next]_vars PROVE IInv'
  OBVIOUS
<1>1. CASE UNCHANGED vars
  BY <1>1 DEF vars, IInv, TypeOK, EventQueueTypeOK, BufferTypeOK, EventsAhead,
              LastScheduledExists, MessagesAwaited, WakeupPending, IsScheduled
<1>2. CASE Next
  BY <1>2, DriverKeepsIInv, WakeKeepsIInv, SendKeepsIInv, TransitionKeepsIInv,
     ReturnKeepsIInv DEF Next
<1> QED
  BY <1>1, <1>2

(* The event kernel and the generated wakeup() loops lose no wakeup: a message in *)
(* any MessageBuffer is looked at in the cycle it arrives, or, while its          *)
(* controller is saturated, in the next.                                          *)
THEOREM WakeupsAreNotLost == Spec => []NoLostWakeup
<1>1. IInv => NoLostWakeup
  BY IInvImpliesNoLostWakeup
<1> QED
  BY <1>1, InitIInv, NextKeepsIInv, PTL DEF Spec

(* The types of the kernel's, the buffers' and the controllers' state.            *)
THEOREM TypesAreCorrect == Spec => []TypeOK
<1>1. IInv => TypeOK
  BY DEF IInv
<1> QED
  BY <1>1, InitIInv, NextKeepsIInv, PTL DEF Spec

(* No step takes the clock back.                                                  *)
LEMMA NextKeepsTime == IInv /\ [Next]_vars => globalTime' >= globalTime
<1> SUFFICES ASSUME IInv, [Next]_vars PROVE globalTime' >= globalTime
  OBVIOUS
<1> USE DEF IInv
<1>0. globalTime \in Nat
  BY DEF TypeOK, EventQueueTypeOK
<1>1. CASE Wake
  <2>1. PICK e \in events : globalTime' = e.time
    BY <1>1 DEF Wake, ExtractMin
  <2> QED
    BY <2>1 DEF EventsAhead
<1>2. CASE EndTriggerEvents
  BY <1>0, <1>2 DEF EndTriggerEvents, FinishTriggerEvents, EventsAhead
<1>3. CASE ~Wake /\ ~EndTriggerEvents
  <2>1. globalTime' = globalTime
    BY <1>3 DEF Next, TriggerEvents, CallTriggerEvents, Send, enqueue, Transition, pop,
                recycle, CycleFull, NothingReady, ReturnFromWakeup, vars
  <2> QED
    BY <1>0, <2>1
<1> QED
  BY <1>1, <1>2, <1>3

(* EventQueue::getTime() never decreases.                                         *)
THEOREM TimeIsMonotonic == Spec => TimeNeverRegresses
<1>1. IInv /\ [Next]_vars => [globalTime' >= globalTime]_vars
  BY NextKeepsTime
<1> QED
  BY <1>1, InitIInv, NextKeepsIInv, PTL DEF Spec, TimeNeverRegresses

--------------------------------------------------------------------------------
(* The order of messages on ordered buffers.                                      *)

(* No delay the controllers may pass leads to an arrival before the last one.     *)
ArrivalsAhead ==
    \A b \in Buffer : strictFifo[b] =>
        \A d \in Delays(b) : ArrivalTime(b, d) >= lastArrivalTime[b]

(* The heap of an ordered buffer holds the messages enqueued and not yet          *)
(* delivered, one for each counter, and arrival times grow with the counter.      *)
InOrder(b) ==
    /\ delivered[b] <= msgCounter[b]
    /\ \A n \in heap[b] : /\ delivered[b] < n.counter /\ n.counter <= msgCounter[b]
                          /\ n.time <= lastArrivalTime[b]
    /\ \A k \in Nat : delivered[b] < k /\ k <= msgCounter[b]
                          => \E n \in heap[b] : n.counter = k
    /\ \A m, n \in heap[b] : m.counter <= n.counter => m.time <= n.time
    /\ \A m, n \in heap[b] : m.counter = n.counter => m = n

OrderInv ==
    /\ IInv
    /\ ArrivalsAhead
    /\ \A b \in Buffer : strictFifo[b] => InOrder(b)

(* A buffer whose state a step leaves alone stays in order.                       *)
LEMMA InOrderUnchanged ==
  ASSUME NEW b \in Buffer, InOrder(b), heap'[b] = heap[b], delivered'[b] = delivered[b],
         msgCounter'[b] = msgCounter[b], lastArrivalTime'[b] = lastArrivalTime[b]
  PROVE  InOrder(b)'
BY DEF InOrder

(* Time only moves on, and a fixed delay always moves an arrival as far.          *)
LEMMA ArrivalsStayAhead ==
  ASSUME TypeOK, TypeOK', ArrivalsAhead, globalTime' >= globalTime,
         \/ UNCHANGED lastArrivalTime
         \/ /\ UNCHANGED globalTime
            /\ \E b \in Buffer : \E d \in Delays(b) :
                  lastArrivalTime' = [lastArrivalTime EXCEPT ![b] = ArrivalTime(b, d)]
  PROVE  ArrivalsAhead'
<1> SUFFICES ASSUME NEW k \in Buffer, strictFifo[k], NEW e \in Delays(k)
             PROVE  ArrivalTime(k, e)' >= lastArrivalTime'[k]
  BY DEF ArrivalsAhead, Delays
<1>1. /\ globalTime \in Nat /\ globalTime' \in Nat
      /\ lastArrivalTime[k] \in Nat /\ lastArrivalTime'[k] \in Nat
  BY DEF TypeOK, EventQueueTypeOK, BufferTypeOK
<1>2. e \in Nat /\ e > 0
  BY MessageBufferAssumption DEF Delays
<1>3. CASE Randomization[k]
  BY <1>1, <1>2, <1>3 DEF ArrivalTime
<1>4. CASE ~Randomization[k]
  <2>1. ArrivalTime(k, e) = globalTime + e /\ ArrivalTime(k, e)' = globalTime' + e
    BY <1>4 DEF ArrivalTime
  <2>2. globalTime + e >= lastArrivalTime[k]
    BY <2>1 DEF ArrivalsAhead
  <2>3. CASE lastArrivalTime'[k] = lastArrivalTime[k]
    BY <1>1, <1>2, <2>1, <2>2, <2>3
  <2>4. CASE lastArrivalTime'[k] # lastArrivalTime[k]
    <3>0. PICK b \in Buffer : \E d \in Delays(b) :
             lastArrivalTime' = [lastArrivalTime EXCEPT ![b] = ArrivalTime(b, d)]
      BY <2>4
    <3>1. PICK d \in Delays(b) :
             lastArrivalTime' = [lastArrivalTime EXCEPT ![b] = ArrivalTime(b, d)]
      BY <3>0
    <3>2. b = k /\ lastArrivalTime'[k] = ArrivalTime(k, d)
      BY <2>4, <3>1 DEF TypeOK, BufferTypeOK
    <3>3. d = e
      BY <1>4, <3>2, MessageBufferAssumption DEF Delays
    <3> QED
      BY <1>1, <1>2, <2>1, <2>4, <3>2, <3>3
  <2> QED
    BY <2>3, <2>4
<1> QED
  BY <1>3, <1>4

(* Enqueueing gives the message the next counter and no earlier a time.           *)
LEMMA SendKeepsOrder ==
  ASSUME OrderInv, NEW b \in Buffer, NEW d \in Delays(b), Send(b, d),
         NEW k \in Buffer, strictFifo[k]
  PROVE  InOrder(k)' /\ delivered' = delivered
<1> DEFINE n == [time |-> ArrivalTime(b, d), counter |-> msgCounter[b] + 1]
<1>1. /\ heap' = [heap EXCEPT ![b] = @ \cup {n}]
      /\ msgCounter' = [msgCounter EXCEPT ![b] = @ + 1]
      /\ lastArrivalTime' = [lastArrivalTime EXCEPT ![b] = n.time]
      /\ delivered' = delivered
  BY DEF Send, enqueue
<1>2. d \in Nat /\ d > 0
  BY MessageBufferAssumption DEF Delays
<1>3. n.time \in Nat /\ n.counter = msgCounter[b] + 1
  BY <1>2 DEF ArrivalTime, OrderInv, IInv, TypeOK, EventQueueTypeOK, BufferTypeOK
<1>4. CASE k # b
  BY <1>1, <1>4, InOrderUnchanged DEF OrderInv, IInv, TypeOK, BufferTypeOK
<1>5. CASE k = b
  <2>1. n.time >= lastArrivalTime[b]
    BY <1>5 DEF OrderInv, ArrivalsAhead
  <2>2. InOrder(b)
    BY <1>5 DEF OrderInv
  <2> HIDE DEF n
  <2>3. /\ heap'[b] = heap[b] \cup {n}
        /\ msgCounter'[b] = msgCounter[b] + 1
        /\ lastArrivalTime'[b] = n.time
    BY <1>1 DEF OrderInv, IInv, TypeOK, BufferTypeOK
  <2>4. /\ delivered[b] \in Nat /\ msgCounter[b] \in Nat /\ lastArrivalTime[b] \in Nat
        /\ \A m \in heap[b] : m.time \in Nat /\ m.counter \in Nat
    BY DEF OrderInv, IInv, TypeOK, BufferTypeOK, Node
  <2> QED
    BY <1>1, <1>3, <1>5, <2>1, <2>2, <2>3, <2>4 DEF InOrder
<1> QED
  BY <1>1, <1>4, <1>5

(* The head of the heap is the message whose turn it is.                          *)
LEMMA TransitionKeepsOrder ==
  ASSUME OrderInv, NEW b \in Buffer, Transition(b), NEW k \in Buffer, strictFifo[k]
  PROVE  InOrder(k)' /\ delivered'[k] \in {delivered[k], delivered[k] + 1}
<1>1. PICK n \in heap[b] : pop(b, n) \/ (~strictFifo[b] /\ recycle(b, n))
  BY DEF Transition
<1>2. CASE k # b
  <2>1. /\ heap'[k] = heap[k] /\ delivered'[k] = delivered[k]
        /\ msgCounter' = msgCounter /\ lastArrivalTime' = lastArrivalTime
    BY <1>1, <1>2 DEF pop, recycle, OrderInv, IInv, TypeOK, BufferTypeOK
  <2> QED
    BY <2>1, InOrderUnchanged DEF OrderInv
<1>3. CASE k = b
  <2>1. /\ IsHead(b, n)
        /\ heap'[b] = heap[b] \ {n} /\ delivered'[b] = n.counter
        /\ msgCounter' = msgCounter /\ lastArrivalTime' = lastArrivalTime
    BY <1>1, <1>3 DEF pop, OrderInv, IInv, TypeOK, BufferTypeOK
  <2>2. InOrder(b)
    BY <1>3 DEF OrderInv
  <2>3. /\ delivered[b] \in Nat /\ msgCounter[b] \in Nat
        /\ \A m \in heap[b] : m.time \in Nat /\ m.counter \in Nat
    BY DEF OrderInv, IInv, TypeOK, BufferTypeOK, Node
  <2>4. n.counter = delivered[b] + 1
    <3>1. delivered[b] < n.counter /\ n.counter <= msgCounter[b]
      BY <2>2 DEF InOrder
    <3>2. PICK m \in heap[b] : m.counter = delivered[b] + 1
      BY <2>2, <2>3, <3>1 DEF InOrder
    <3>3. m.time <= n.time
      BY <2>2, <2>3, <3>1, <3>2 DEF InOrder
    <3> QED
      BY <2>1, <2>3, <3>1, <3>2, <3>3 DEF IsHead, Precedes
  <2> QED
    BY <1>3, <2>1, <2>2, <2>3, <2>4 DEF InOrder
<1> QED
  BY <1>2, <1>3

(* Every step keeps the order, and delivers the next message or none.             *)
LEMMA NextKeepsOrder ==
  ASSUME OrderInv, [Next]_vars
  PROVE  /\ OrderInv'
         /\ \A b \in Buffer : strictFifo[b] =>
               delivered'[b] \in {delivered[b], delivered[b] + 1}
<1>1. IInv'
  BY NextKeepsIInv DEF OrderInv
<1>2. globalTime' >= globalTime
  BY NextKeepsTime DEF OrderInv
<1>3. CASE \E b \in Buffer : \E d \in Delays(b) : Send(b, d)
  <2>0. PICK b \in Buffer : \E d \in Delays(b) : Send(b, d)
    BY <1>3
  <2>1. PICK d \in Delays(b) : Send(b, d)
    BY <2>0
  <2>2. ArrivalsAhead'
    BY <1>1, <1>2, <2>1, ArrivalsStayAhead DEF OrderInv, IInv, Send, enqueue
  <2> QED
    BY <1>1, <2>1, <2>2, SendKeepsOrder DEF OrderInv
<1>4. CASE \E b \in Buffer : Transition(b)
  <2>1. PICK b \in Buffer : Transition(b)
    BY <1>4
  <2>2. ArrivalsAhead'
    BY <1>1, <1>2, <2>1, ArrivalsStayAhead DEF OrderInv, IInv, Transition, pop, recycle
  <2> QED
    BY <1>1, <2>1, <2>2, TransitionKeepsOrder DEF OrderInv
<1>5. CASE UNCHANGED bufferVars
  <2>1. UNCHANGED <<heap, msgCounter, lastArrivalTime, delivered>>
    BY <1>5 DEF bufferVars
  <2>2. ArrivalsAhead'
    BY <1>1, <1>2, <2>1, ArrivalsStayAhead DEF OrderInv, IInv
  <2>3. \A b \in Buffer : strictFifo[b] => InOrder(b)'
    BY <2>1, InOrderUnchanged DEF OrderInv
  <2> QED
    BY <1>1, <2>1, <2>2, <2>3 DEF OrderInv
<1> QED
  BY <1>3, <1>4, <1>5 DEF Next, vars, TriggerEvents, Wake, EndTriggerEvents, CycleFull,
     NothingReady, bufferVars

(* Initially the buffers are empty.                                               *)
LEMMA InitOrder == Init => OrderInv
<1> SUFFICES ASSUME Init PROVE OrderInv
  OBVIOUS
<1>1. IInv
  BY InitIInv
<1>2. ArrivalsAhead
  <2> SUFFICES ASSUME NEW b \in Buffer, NEW d \in Delays(b)
               PROVE  ArrivalTime(b, d) >= lastArrivalTime[b]
    BY DEF ArrivalsAhead
  <2>1. d \in Nat
    BY MessageBufferAssumption DEF Delays
  <2> QED
    BY <2>1 DEF ArrivalTime, Init, EventQueueInit, BufferInit
<1>3. \A b \in Buffer : InOrder(b)
  BY DEF InOrder, Init, BufferInit
<1> QED
  BY <1>1, <1>2, <1>3 DEF OrderInv

(* MessageBuffer::enqueue never reaches its "FIFO ordering violated": on an       *)
(* ordered buffer no message can be made to arrive before its predecessor,        *)
(* randomized or not.                                                             *)
THEOREM ArrivalsAreInOrder == Spec => []NoFifoViolation
<1>1. OrderInv => NoFifoViolation
  BY DEF OrderInv, ArrivalsAhead, NoFifoViolation
<1>2. OrderInv /\ [Next]_vars => OrderInv'
  BY NextKeepsOrder
<1> QED
  BY <1>1, <1>2, InitOrder, PTL DEF Spec

(* An ordered MessageBuffer hands over every message once, in the order of        *)
(* enqueue, although its heap sorts by arrival time.                              *)
THEOREM DeliveryIsOrdered == Spec => OrderedDelivery
<1>1. OrderInv /\ [Next]_vars => OrderInv'
  BY NextKeepsOrder
<1>2. OrderInv /\ [Next]_vars =>
        [\A b \in Buffer : strictFifo[b] =>
            delivered'[b] \in {delivered[b], delivered[b] + 1}]_vars
  BY NextKeepsOrder
<1> QED
  BY <1>1, <1>2, InitOrder, PTL DEF Spec, OrderedDelivery
================================================================================
