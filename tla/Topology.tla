------------------------------ MODULE Topology ------------------------------
(***************************************************************************)
(* The links of the network and their routing tables                       *)
(* (src/ruby/network/simple/Topology.C).  The n nodes are the identifiers  *)
(* 0 .. n-1 where they feed the network and n .. 2n-1 where they are fed;  *)
(* switches are numbered from 2n on.  "weights" of the code is a function  *)
(* from pairs of identifiers, so a link added twice is there once.         *)
(***************************************************************************)
EXTENDS Integers, Sequences, FiniteSets, FiniteSetsExt, SequencesExt

InfiniteLatency == 10000

(* Topology::addLink, one entry of the four vectors; the multiplier is 10  *)
(* for the links from a switch to its node.                                *)
AddLink(src, dest, latency, multiplier) ==
  [src |-> src, dest |-> dest, latency |-> latency, multiplier |-> multiplier]

Across(src, dest, latency) == AddLink(src, dest, latency, 1)
OnChip(src, dest) == AddLink(src, dest, 1, 10)

-----------------------------------------------------------------------------
(* One node of each kind: a single switch (Topology::init).                *)
OneSwitch(n, latency) ==
  {Across(i, 2 * n, latency) : i \in 0 .. (n - 1)}
    \cup {Across(2 * n, n + i, latency) : i \in 0 .. (n - 1)}

(* Mutant: the link to the left goes where the one to the right goes.      *)
Torus2D_noLeft(n, latency) ==
  LET side == Max({k \in 1 .. n : k * k <= n})
      right(s) == IF (s + 1) % side = 0 THEN s + 1 - side ELSE s + 1
      top(s) == IF s - side < 2 * n THEN s - side + side * side ELSE s - side
      bottom(s) == IF s + side >= 3 * n THEN s + side - side * side ELSE s + side
  IN  UNION {LET s == 2 * n + i
             IN  {Across(i, s, latency), OnChip(s, n + i)}
                   \cup {Across(s, t, latency) : t \in {right(s), top(s), bottom(s)}}
             : i \in 0 .. (n - 1)}

(* Topology::make2DTorus *)
Torus2D(n, latency) ==
  LET side == Max({k \in 1 .. n : k * k <= n})
      left(s) == IF s % side = 0 THEN s - 1 + side ELSE s - 1
      right(s) == IF (s + 1) % side = 0 THEN s + 1 - side ELSE s + 1
      top(s) == IF s - side < 2 * n THEN s - side + side * side ELSE s - side
      bottom(s) == IF s + side >= 3 * n THEN s + side - side * side ELSE s + side
  IN  UNION {LET s == 2 * n + i
             IN  {Across(i, s, latency), OnChip(s, n + i)}
                   \cup {Across(s, t, latency) : t \in {left(s), right(s), top(s), bottom(s)}}
             : i \in 0 .. (n - 1)}

(* Topology::makeHierarchicalSwitch for more than one group of "machines"  *)
(* nodes: a tree of switches up to the root and another one down from it.  *)
Hierarchical(n, machines, fan, latency) ==
  LET groups == n \div machines
      up(x) == (x + fan - 1) \div fan
      size[l \in 0 .. groups] == IF l = 0 THEN groups ELSE up(size[l - 1])
      height == Min({l \in 0 .. groups : size[l] = 1})
      \* the first identifier of each level: upwards, then downwards without the root
      rise[l \in 0 .. (height + 1)] == IF l = 0 THEN 2 * n ELSE rise[l - 1] + size[l - 1]
      fall[l \in 0 .. height] == IF l = 0 THEN rise[height + 1] ELSE fall[l - 1] + size[l - 1]
      down(l, i) == IF l = height THEN rise[height] ELSE fall[l] + i
  IN  {Across(i, rise[0] + i \div machines, latency) : i \in 0 .. (n - 1)}
      \cup {OnChip(fall[0] + i \div machines, n + i) : i \in 0 .. (n - 1)}
      \cup UNION {{Across(rise[l] + i, rise[l + 1] + i \div fan, latency) :
                     i \in 0 .. (size[l] - 1)} : l \in 0 .. (height - 1)}
      \cup UNION {{Across(down(l + 1, i \div fan), down(l, i), latency) :
                     i \in 0 .. (size[l] - 1)} : l \in 0 .. (height - 1)}

(* Topology::init: the links for n nodes of so many kinds of machines.     *)
InitLinks(type, n, machines, fan, latency) ==
  CASE n = machines -> OneSwitch(n, latency)
    [] n # machines /\ type = "TORUS_2D" -> Torus2D(n, latency)
    [] n # machines /\ type = "HIERARCHICAL_SWITCH" -> Hierarchical(n, machines, fan, latency)
    [] n # machines /\ type = "CROSSBAR" -> Hierarchical(n, machines, 1024, latency)

-----------------------------------------------------------------------------
(* The weights of createLinks. *)
LinkBetween(links, p) == {l \in links : <<l.src, l.dest>> = p}

Weights(links) ==
  LET ids == 0 .. Max({l.src : l \in links} \cup {l.dest : l \in links})
  IN  [p \in ids \X ids |->
         CASE p[1] = p[2] -> 0
           [] p[1] # p[2] /\ LinkBetween(links, p) # {} ->
                (CHOOSE l \in LinkBetween(links, p) : TRUE).latency
           [] OTHER -> InfiniteLatency]

(* extend_shortest_path: sweeps over all pairs, row by row, that improve   *)
(* the distances in place until one changes nothing.  A row that nothing   *)
(* leads out of cannot change.                                             *)
ShortestPath(w) ==
  LET n == Max({p[1] : p \in DOMAIN w}) + 1
      all == [i \in 1 .. n |-> i - 1]
      least(d, i, j) == Min({d[<<i, k>>] + d[<<k, j>>] : k \in 0 .. (n - 1)})
      row(d, i) ==
        IF \A k \in 0 .. (n - 1) : k = i \/ d[<<i, k>>] = InfiniteLatency THEN d
        ELSE FoldLeft(LAMBDA e, j : [e EXCEPT ![<<i, j>>] = least(e, i, j)], d, all)
      loop(s, k) == IF s.change THEN LET d == FoldLeft(row, s.dist, all)
                                     IN  [dist |-> d, change |-> d # s.dist]
                    ELSE s
  IN  FoldLeft(loop, [dist |-> w, change |-> TRUE], all).dist

LinkIsShortestPathToNode(src, next, final, w, dist) ==
  w[<<src, next>>] + dist[<<next, final>>] = dist[<<src, final>>]

(* shortest_path_to_node: the nodes a link leads to on a shortest path. *)
ShortestPathToNode(n, src, next, w, dist) ==
  {i \in 0 .. (n - 1) : LinkIsShortestPathToNode(src, next, n + i, w, dist)}

(* Topology::createLinks and makeLink: the links that are made, their      *)
(* ends, where a node is the same one feeding and being fed, their routing *)
(* table entries and bandwidth multipliers.  Links from switches have a    *)
(* throttle, the others are the in ports of their switch.  distance is     *)
(* what remains from the end of a link to a node.                          *)
CreateLinks(n, links) ==
  LET w == Weights(links)
      dist == ShortestPath(w)
      made == {p \in DOMAIN w : w[p] > 0 /\ w[p] # InfiniteLatency}
      end(x) == IF n <= x /\ x < 2 * n THEN x - n ELSE x
  IN  [nodes |-> 0 .. (n - 1),
       links |-> made,
       throttled |-> {p \in made : p[1] >= 2 * n},
       source |-> [p \in made |-> p[1]],
       target |-> [p \in made |-> end(p[2])],
       routing |-> [p \in made |-> ShortestPathToNode(n, p[1], p[2], w, dist)],
       distance |-> [p \in made |-> [i \in 0 .. (n - 1) |-> dist[<<p[2], n + i>>]]],
       multiplier |-> [p \in made |-> (CHOOSE l \in LinkBetween(links, p) : TRUE).multiplier]]

=============================================================================
