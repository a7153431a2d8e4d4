-------------------------------- MODULE NodeID --------------------------------
(* ruby/system/NodeID.h: the nodes of the machine, seen from one block.       *)
CONSTANTS
    Proc,   \* the processors; each has a sequencer and an L1 cache controller
    Dir     \* the home directory of the block

ASSUME DirAssumption == Dir \notin Proc
===============================================================================
