------------------------------ MODULE EventQueue ------------------------------
(* ruby/eventqueue/EventQueue.C and ruby/common/Consumer.h: the discrete-event *)
(* kernel.  A heap of (time, consumer) events; triggerEvents(t) runs the       *)
(* wakeup of every consumer with an event up to t, in time order.              *)
EXTENDS Integers, FiniteSets

CONSTANTS
    Consumer,
    None,      \* no consumer
    MaxTime    \* bound: time does not go beyond it

ASSUME EventQueueAssumption == None \notin Consumer /\ MaxTime \in Nat

VARIABLES
    globalTime,           \* m_globalTime
    events,               \* the heap: a set of Event
    lastScheduledWakeup,  \* [Consumer -> Time], m_last_scheduled_wakeup
    lastWakeup,           \* [Consumer -> Time], m_last_wakeup
    target,               \* argument of the triggerEvents call in progress, All in
                          \* triggerAllEvents, 0 outside
    running               \* the consumer whose wakeup() is running, or None

All == -1

(* The heap may hold several events of a consumer for one time; copy tells     *)
(* them apart.                                                                 *)
Event == [time : Nat, consumer : Consumer, copy : Nat]

EventQueueInit ==
    /\ globalTime = 1
    /\ events = {}
    /\ lastScheduledWakeup = [c \in Consumer |-> 0]
    /\ lastWakeup = [c \in Consumer |-> 0]
    /\ target = 0
    /\ running = None

EventQueueTypeOK ==
    /\ globalTime \in Nat
    /\ events \in SUBSET Event /\ IsFiniteSet(events)
    /\ lastScheduledWakeup \in [Consumer -> Nat]
    /\ lastWakeup \in [Consumer -> Nat]
    /\ target \in Nat \cup {All}
    /\ running \in Consumer \cup {None}

-------------------------------------------------------------------------------
Scheduled(c, t) == {e \in events : e.consumer = c /\ e.time = t}

IsScheduled(c, t) == \E e \in events : e.consumer = c /\ e.time = t

NewEvent(c, t) == [time |-> t, consumer |-> c, copy |-> Cardinality(Scheduled(c, t))]

(* Faulty variant: a wakeup before the last scheduled one counts as redundant. *)
scheduleEventAbsolute_keepsLater(c, t) ==
    IF lastScheduledWakeup[c] < t
    THEN /\ events' = events \cup {NewEvent(c, t)}
         /\ lastScheduledWakeup' = [lastScheduledWakeup EXCEPT ![c] = t]
    ELSE UNCHANGED <<events, lastScheduledWakeup>>

(* Only a wakeup equal to the consumer's last scheduled one is redundant.      *)
scheduleEventAbsolute(c, t) ==
    /\ events' = IF lastScheduledWakeup[c] # t THEN events \cup {NewEvent(c, t)} ELSE events
    /\ lastScheduledWakeup' = [lastScheduledWakeup EXCEPT ![c] = t]

(* The driver calls triggerEvents(t), for a later t, or triggerAllEvents().    *)
CallTriggerEvents(t) ==
    /\ target = 0
    /\ t = All \/ t > globalTime
    /\ target' = t
    /\ UNCHANGED <<globalTime, events, lastScheduledWakeup, lastWakeup, running>>

Due(e) == target = All \/ e.time <= target

(* Faulty variant: any event that is due.                                      *)
IsMin_any(e) == \A f \in Scheduled(e.consumer, e.time) : f.copy <= e.copy

(* peekMin and extractMin: nothing orders the events of one time, but of the   *)
(* copies of one event the last goes first.                                    *)
IsMin(e) ==
    /\ \A f \in events : e.time <= f.time
    /\ \A f \in Scheduled(e.consumer, e.time) : f.copy <= e.copy

(* One round of the loop: triggerWakeup, whose wakeup() then runs, unless the  *)
(* consumer has already been woken at this time.                               *)
ExtractMin(e) ==
    /\ target # 0 /\ running = None
    /\ IsMin(e) /\ Due(e) /\ e.time <= MaxTime
    /\ globalTime' = e.time
    /\ events' = events \ {e}
    /\ running' = IF lastWakeup[e.consumer] # e.time THEN e.consumer ELSE None
    /\ UNCHANGED <<lastScheduledWakeup, lastWakeup, target>>

(* wakeup() returns to triggerWakeup.                                          *)
ReturnFromWakeup ==
    /\ running' = None
    /\ lastWakeup' = [lastWakeup EXCEPT ![running] = globalTime]
    /\ UNCHANGED <<globalTime, target>>

(* The loop ends: no event is due.  Only triggerEvents sets the clock to its   *)
(* argument.                                                                   *)
FinishTriggerEvents ==
    /\ target # 0 /\ running = None
    /\ \A e \in events : ~Due(e)
    /\ globalTime' = IF target = All THEN globalTime ELSE target
    /\ target' = 0
    /\ UNCHANGED <<events, lastScheduledWakeup, lastWakeup, running>>
===============================================================================
