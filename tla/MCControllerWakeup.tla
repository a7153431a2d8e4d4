-------------------------- MODULE MCControllerWakeup --------------------------
(* Two controllers: a cache with an ordered in_port (its trigger queue) and an  *)
(* unordered one (from the network), and a directory with an ordered one.       *)
(* Randomized and fixed delays are mixed, as random="false" of a buffer does,   *)
(* so that one instance has every kind of arrival time.                         *)
EXTENDS ControllerWakeup

CONSTANTS cache, directory, triggerQueue, forwardToCache, requestToDir

MCConsumer == [b \in Buffer |-> IF b = requestToDir THEN directory ELSE cache]

MCStrictFifo == [b \in Buffer |-> b # forwardToCache]

MCRandomization == [b \in Buffer |-> b = requestToDir]

MCLatency == [b \in Buffer |-> IF b = forwardToCache THEN {1, 3} ELSE {1}]
================================================================================
