---------------------------- MODULE MCSimpleNetwork ----------------------------
(* A torus of three by three nodes, where two shortest paths lead from node 0 to  *)
(* node 8, a tree of switches of uneven height for six nodes of two kinds, and a  *)
(* single switch.                                                                 *)
EXTENDS SimpleNetwork

Topo == INSTANCE Topology

MCNetworks ==
    [torus |-> Topo!CreateLinks(9, Topo!InitLinks("TORUS_2D", 9, 3, 2, 4)),
     tree |-> Topo!CreateLinks(6, Topo!InitLinks("HIERARCHICAL_SWITCH", 6, 2, 2, 4)),
     single |-> Topo!CreateLinks(2, Topo!InitLinks("CROSSBAR", 2, 2, 2, 4))]

MCSenders == [torus |-> {0}, tree |-> {0}, single |-> {0, 1}]
MCDestinations ==
    [torus |-> {{8}, {2, 8}}, tree |-> {{5}}, single |-> {{1}, {0, 1}}]
MCMaxMessages == [torus |-> 2, tree |-> 1, single |-> 2]

(* Rings of three in both dimensions; up to the root and down again, two levels.  *)
MCHops(name, from, to) ==
    LET ring(a, b) == IF a = b THEN 0 ELSE 1
    IN CASE name = "torus" -> 1 + ring(from % 3, to % 3) + ring(from \div 3, to \div 3)
         [] name = "tree" -> 5
         [] name = "single" -> 1
================================================================================
