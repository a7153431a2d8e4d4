---------------------------- MODULE MCCacheArrays ----------------------------
(* Three blocks that compete for one way in each array.                      *)
EXTENDS CacheArrays

MCSetOf == [array \in Array |-> [a \in Address |-> 0]]

MCAssoc == [array \in Array |-> 1]
==============================================================================
