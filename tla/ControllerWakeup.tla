---------------------------- MODULE ControllerWakeup ----------------------------
(* The controllers SLICC generates, on the event queue and the message buffers:  *)
(* wakeup() handles ready messages, one transition after another, until none of  *)
(* its in_ports is ready or TRANSITIONS_PER_RUBY_CYCLE is reached.               *)
EXTENDS MessageBuffer

CONSTANTS
    TransitionsPerRubyCycle,  \* TRANSITIONS_PER_RUBY_CYCLE
    MaxMessages               \* bound on the messages enqueued in a buffer

ASSUME ControllerAssumption ==
    /\ TransitionsPerRubyCycle \in Nat \ {0}
    /\ MaxMessages \in Nat

VARIABLE counter   \* transitions run by the wakeup() in progress

vars == <<globalTime, events, lastScheduledWakeup, lastWakeup, target, running,
          heap, msgCounter, lastArrivalTime, delivered, counter>>

Init == EventQueueInit /\ BufferInit /\ counter = 0

(* The driver advances time.                                                     *)
TriggerEvents ==
    /\ \E t \in (1 .. MaxTime) \cup {All} : CallTriggerEvents(t)
    /\ UNCHANGED <<bufferVars, counter>>

Wake ==
    /\ \E e \in events : ExtractMin(e)
    /\ counter' = 0
    /\ UNCHANGED bufferVars

EndTriggerEvents ==
    /\ FinishTriggerEvents
    /\ UNCHANGED <<bufferVars, counter>>

(* A message is sent by a transition of the running controller, or from outside  *)
(* (a processor's request) while no events are being triggered.                  *)
CanSend == running # None \/ target = 0

Send(b, d) ==
    /\ CanSend
    /\ msgCounter[b] < MaxMessages
    /\ enqueue(b, d)
    /\ UNCHANGED counter

(* A transition of the running controller for the head of a ready in_port: it    *)
(* pops the message or recycles it (recycling is for unordered ports only).      *)
Transition(b) ==
    /\ running = consumer[b]
    /\ counter < TransitionsPerRubyCycle
    /\ counter' = counter + 1
    /\ \E n \in heap[b] :
          \/ pop(b, n)
          \/ ~strictFifo[b] /\ recycle(b, n)

(* "Wakeup in another cycle and try again".                                      *)
CycleFull ==
    /\ running # None
    /\ counter = TransitionsPerRubyCycle
    /\ scheduleEventAbsolute(running, globalTime + 1)
    /\ ReturnFromWakeup
    /\ UNCHANGED <<bufferVars, counter>>

(* "If we got this far, we have nothing left todo".                              *)
NothingReady ==
    /\ running # None
    /\ counter < TransitionsPerRubyCycle
    /\ \A b \in Buffer : consumer[b] = running => ~isReady(b)
    /\ ReturnFromWakeup
    /\ UNCHANGED <<events, lastScheduledWakeup, bufferVars, counter>>

Next ==
    \/ TriggerEvents
    \/ Wake
    \/ EndTriggerEvents
    \/ \E b \in Buffer : \E d \in Delays(b) : Send(b, d)
    \/ \E b \in Buffer : Transition(b)
    \/ CycleFull
    \/ NothingReady

Spec == Init /\ [][Next]_vars
--------------------------------------------------------------------------------
(* Types of every variable.                                                      *)
TypeOK == EventQueueTypeOK /\ BufferTypeOK /\ counter \in Nat

(* No wakeup is lost, whichever consumer, buffer and cycle: a message still on    *)
(* its way has an event of its consumer at exactly its arrival time; one that has *)
(* arrived is being looked at by its running consumer, or will be in this cycle   *)
(* or in the next.  Consumer's two filters (a wakeup equal to the last scheduled  *)
(* one is not inserted, a second wakeup in a cycle is not run) must drop only     *)
(* wakeups nobody needs.                                                          *)
NoLostWakeup ==
    \A b \in Buffer : \A n \in heap[b] :
        IF n.time > globalTime
        THEN IsScheduled(consumer[b], n.time)
        ELSE \/ running = consumer[b]
             \/ IsScheduled(consumer[b], globalTime)
             \/ IsScheduled(consumer[b], globalTime + 1)

(* enqueue's "FIFO ordering violated" is unreachable: on an ordered buffer no     *)
(* message may be sent to arrive before the one sent before it.                   *)
NoFifoViolation ==
    CanSend => \A b \in Buffer : strictFifo[b] =>
        \A d \in Delays(b) : ArrivalTime(b, d) >= lastArrivalTime[b]

(* An ordered buffer hands its messages over in the order they were enqueued,     *)
(* each exactly once, though the heap sorts them by arrival time.                 *)
OrderedDelivery ==
    [][\A b \in Buffer : strictFifo[b] =>
          delivered'[b] \in {delivered[b], delivered[b] + 1}]_vars

(* getTime() never goes back, although triggerEvents assigns it the time of       *)
(* whatever event it extracts and triggerAllEvents leaves it at the last one.     *)
TimeNeverRegresses == [][globalTime' >= globalTime]_vars
================================================================================
