-------------------------- MODULE SimpleNetwork_proofs --------------------------
(* The network keeps every message, once for each of its destinations, and the  *)
(* order of the ordered virtual networks: for every well routed network, every  *)
(* bandwidth and size, adaptive routing or not, and every bound.                *)
(* Every step but Send moves messages from the heads of one place's queues to   *)
(* the ends of others' (Moves); the order follows because an ordered message    *)
(* has one way, along which a step moves it to the very next place.             *)
EXTENDS SimpleNetwork, FiniteSetTheorems, SequenceTheorems, TLAPS

----------------------------------------------------------------------------------
(* Throttle::wakeup's loops.                                                    *)

(* Induction on the natural numbers, for a set instead of a predicate.          *)
LEMMA InductionOverSet ==
  ASSUME NEW S, 0 \in S, \A i \in Nat : i \in S => i + 1 \in S
  PROVE  Nat \subseteq S
<1> SUFFICES ASSUME Nat \ S # {} PROVE FALSE
  OBVIOUS
<1>1. PICK x \in Nat \ S : \A y \in Nat \ S : <<y, x>> \notin OpToRel(<, Nat)
  <2>1. Nat \ S \subseteq Nat
    OBVIOUS
  <2> QED
    BY <2>1, WFMin, NatLessThanWellFounded
<1>2. x # 0 /\ x - 1 \in Nat
  OBVIOUS
<1>3. x - 1 \in S
  <2>1. x - 1 < x
    BY <1>2
  <2>2. <<x - 1, x>> \in OpToRel(<, Nat)
    BY <1>2, <2>1 DEF OpToRel
  <2> QED
    BY <1>1, <1>2, <2>2
<1>4. (x - 1) + 1 = x
  OBVIOUS
<1> QED
  BY <1>2, <1>3, <1>4

(* Counting up to m, either everything was in S or there is a first number that *)
(* was not.                                                                     *)
LEMMA FirstOutside ==
  ASSUME NEW S, NEW m \in Nat
  PROVE  \E k \in 0 .. m : (\A j \in 0 .. k - 1 : j \in S) /\ (k = m \/ k \notin S)
<1> DEFINE Ok(k) == (\A j \in 0 .. k - 1 : j \in S) /\ (k = m \/ k \notin S)
           T == {i \in Nat : (\E k \in 0 .. m : Ok(k)) \/ i > m \/ \A j \in 0 .. i - 1 : j \in S}
<1>1. 0 \in T
  OBVIOUS
<1>2. ASSUME NEW i \in Nat, i \in T PROVE i + 1 \in T
  <2>1. CASE \A j \in 0 .. i - 1 : j \in S
    <3>1. CASE i \in S
      BY <2>1, <3>1
    <3>2. CASE i \notin S /\ i <= m
      <4>1. i \in 0 .. m /\ Ok(i)
        BY <2>1, <3>2
      <4> QED
        BY <4>1
    <3>3. CASE i > m
      BY <3>3
    <3> QED
      BY <3>1, <3>2, <3>3
  <2> QED
    BY <1>2, <2>1
<1> HIDE DEF T
<1>3. m \in T
  BY <1>1, <1>2, InductionOverSet
<1> QED
  <2>1. CASE \E k \in 0 .. m : Ok(k)
    BY <2>1
  <2>2. CASE \A j \in 0 .. m - 1 : j \in S
    BY <2>2
  <2> QED
    BY <1>3, <2>1, <2>2 DEF T

(* Throttle::wakeup's while loop moves a definite number of the messages that   *)
(* wait: the CHOOSE of Moved has its value.                                     *)
LEMMA MovedWithin ==
  ASSUME NEW u, NEW bw, NEW waiting \in Nat
  PROVE  Moved(u, bw, waiting) \in 0 .. waiting
<1> DEFINE S == {j \in 0 .. waiting : Continues(u, bw, j)}
<1> HIDE DEF S
<1>1. PICK k \in 0 .. waiting : (\A j \in 0 .. k - 1 : j \in S) /\ (k = waiting \/ k \notin S)
  BY FirstOutside
<1> QED
  BY <1>1 DEF S, Moved

(* The recursive function of Turns exists.                                      *)
LEMMA RoundsExist ==
  ASSUME NEW a, NEW waiting, NEW m \in Nat
  PROVE  \E w : w = [i \in 0 .. m |-> IF i = 0 THEN a ELSE VisitVnet(w[i - 1], waiting)]
<1> DEFINE Rounds(n, w) == w = [i \in 0 .. n |-> IF i = 0 THEN a ELSE VisitVnet(w[i - 1], waiting)]
           T == {n \in Nat : \E w : Rounds(n, w)}
<1>1. 0 \in T
  <2>1. Rounds(0, [i \in 0 .. 0 |-> a])
    OBVIOUS
  <2> QED
    BY <2>1
<1>2. ASSUME NEW n \in Nat, n \in T PROVE n + 1 \in T
  <2>1. PICK w : Rounds(n, w)
    BY <1>2
  <2> DEFINE x == [i \in 0 .. n + 1 |-> IF i <= n THEN w[i] ELSE VisitVnet(w[n], waiting)]
  <2>2. \A i \in 0 .. n : x[i] = w[i]
    OBVIOUS
  <2>3. \A i \in 0 .. n + 1 : x[i] = IF i = 0 THEN a ELSE VisitVnet(x[i - 1], waiting)
    <3> SUFFICES ASSUME NEW i \in 0 .. n + 1
                 PROVE  x[i] = IF i = 0 THEN a ELSE VisitVnet(x[i - 1], waiting)
      OBVIOUS
    <3>1. CASE i <= n
      <4>1. x[i] = IF i = 0 THEN a ELSE VisitVnet(w[i - 1], waiting)
        BY <2>1, <3>1
      <4>2. i # 0 => x[i - 1] = w[i - 1]
        BY <3>1
      <4> QED
        BY <4>1, <4>2
    <3>2. CASE i = n + 1
      <4>1. x[i] = VisitVnet(w[n], waiting) /\ x[i - 1] = w[n] /\ i # 0
        BY <3>2
      <4> QED
        BY <4>1
    <3> QED
      BY <3>1, <3>2
  <2>4. Rounds(n + 1, x)
    BY <2>3
  <2> HIDE DEF x, Rounds
  <2> QED
    BY <2>4
<1> HIDE DEF T
<1>3. m \in T
  BY <1>1, <1>2, InductionOverSet
<1> QED
  BY <1>3 DEF T

(* The for loop of Throttle::wakeup never moves more messages of a virtual      *)
(* network than wait.                                                           *)
LEMMA TurnsMove ==
  ASSUME NEW l, inter[l] \in [VNet -> Seq(NetworkMessage)]
  PROVE  /\ Turns(l).moved \in [VNet -> Nat]
         /\ \A v \in VNet : Turns(l).moved[v] <= Len(inter[l][v])
<1> DEFINE waiting == [v \in VNet |-> Len(inter[l][v])]
           a == [bw |-> Bandwidth(l), units |-> units[l], last |-> lastVnet[l],
                 moved |-> [v \in VNet |-> 0]]
           N == Cardinality(VNet)
           w == CHOOSE w : w = [i \in 0 .. N |-> IF i = 0 THEN a ELSE VisitVnet(w[i - 1], waiting)]
           Ok(x) == /\ x.moved \in [VNet -> Nat]
                    /\ \A v \in VNet : x.moved[v] <= waiting[v]
           T == {i \in Nat : i <= N => Ok(w[i])}
<1>1. N \in Nat
  BY NetworkAssumption, FS_CardinalityType
<1>2. Turns(l) = w[N]
  BY DEF Turns
<1>3. waiting \in [VNet -> Nat]
  OBVIOUS
<1>4. Ok(a)
  BY <1>3
<1>5. ASSUME NEW x, Ok(x) PROVE Ok(VisitVnet(x, waiting))
  <2> DEFINE v == x.last
             u == x.units[v]
             k == Moved(u, x.bw, waiting[v] - x.moved[v])
  <2>1. VisitVnet(x, waiting).moved = IF x.bw = 0 THEN x.moved ELSE [x.moved EXCEPT ![v] = @ + k]
    BY DEF VisitVnet
  <2>2. ASSUME v \in VNet PROVE k \in 0 .. (waiting[v] - x.moved[v])
    <3>1. waiting[v] - x.moved[v] \in Nat
      BY <1>3, <1>5, <2>2
    <3> QED
      BY <3>1, MovedWithin
  <2> HIDE DEF v, u, k, waiting
  <2> DEFINE y == VisitVnet(x, waiting).moved
  <2> HIDE DEF y
  <2>3. CASE y = x.moved
    BY <1>5, <2>3 DEF y
  <2>4. CASE y = [x.moved EXCEPT ![v] = @ + k] /\ v \in VNet
    <3>1. k \in Nat /\ x.moved[v] \in Nat /\ x.moved[v] + k <= waiting[v]
      BY <1>3, <1>5, <2>2, <2>4
    <3>2. y \in [VNet -> Nat] /\ \A q \in VNet : y[q] <= waiting[q]
      BY <1>5, <2>4, <3>1
    <3> QED
      BY <3>2 DEF y
  <2>5. v \notin VNet => [x.moved EXCEPT ![v] = @ + k] = x.moved
    BY <1>5
  <2> QED
    BY <2>1, <2>3, <2>4, <2>5 DEF y
<1> HIDE DEF a, waiting
<1>6. w = [i \in 0 .. N |-> IF i = 0 THEN a ELSE VisitVnet(w[i - 1], waiting)]
  BY <1>1, RoundsExist
<1> HIDE DEF w, N
<1>7. 0 \in T
  BY <1>1, <1>4, <1>6
<1>8. ASSUME NEW i \in Nat, i \in T PROVE i + 1 \in T
  <2>1. CASE i + 1 <= N
    <3>1. w[i + 1] = VisitVnet(w[i], waiting)
      BY <1>1, <1>6, <2>1
    <3>2. Ok(w[i])
      BY <1>1, <1>8, <2>1
    <3>3. Ok(w[i + 1])
      BY <1>5, <3>1, <3>2
    <3> QED
      BY <3>3
  <2> QED
    BY <2>1
<1> HIDE DEF T
<1>9. N \in T
  BY <1>1, <1>7, <1>8, InductionOverSet
<1>10. Ok(w[N])
  BY <1>1, <1>9 DEF T
<1> QED
  BY <1>2, <1>10 DEF waiting

----------------------------------------------------------------------------------
(* The invariant.                                                               *)

(* Destinations a copy at a place can still reach: those of the link's routing  *)
(* table entry, or the node itself.                                             *)
Leads(x) == IF x[1] = "node" THEN {x[2]} ELSE Routing[x[2]]

(* The types of the variables the proofs are about.                             *)
NetTypeOK ==
    /\ topology \in DOMAIN Networks /\ net = Networks[topology]
    /\ sent \in Seq(NetworkMessage)
    /\ queue \in [Link -> [VNet -> Seq(NetworkMessage)]]
    /\ inter \in [Throttled -> [VNet -> Seq(NetworkMessage)]]
    /\ delivered \in [Node -> [VNet -> Seq(NetworkMessage)]]

(* A copy is of a message that was sent, for destinations its place leads to.   *)
MessageOK(m, x, v) ==
    /\ m.id \in DOMAIN sent
    /\ m.vnet = v
    /\ m.from = sent[m.id].from /\ m.vnet = sent[m.id].vnet /\ m.dest \subseteq sent[m.id].dest
    /\ m.dest \subseteq Leads(x)
    /\ x[1] # "queue" => m.dest # {}

CopiesOK == \A c \in Copies : MessageOK(Copy(c), c[1], c[2])

(* What a throttle gives to a node is in the node at once.                      *)
NoneAtNodes == \A l \in Link, v \in VNet : Target[l] \in Node => queue[l][v] = <<>>

Holds(c, id, n) == Copy(c).id = id /\ n \in Copy(c).dest

(* Each destination of each message has one copy.                               *)
OnceOK ==
    \A id \in DOMAIN sent : \A n \in sent[id].dest :
        /\ \E c \in Copies : Holds(c, id, n)
        /\ \A c, d \in Copies : Holds(c, id, n) /\ Holds(d, id, n) => c = d

(* The way of ordered messages from a node to node n: the link out of the node, *)
(* and then at every switch the first link that leads to n.                     *)
IsNext(k, l, n) ==
    /\ Target[l] \notin Node
    /\ Source[k] = Target[l] /\ n \in Routing[k]
    /\ \A j \in Link : Source[j] = Source[k] /\ n \in Routing[j] => k[2] <= j[2]

NextClosed(S, n) == \A l \in S : \A k \in Link : IsNext(k, l, n) => k \in S

Path(f, n) ==
    {l \in Link : \A S \in SUBSET Link :
        NextClosed(S, n) /\ (\A k \in Link : Source[k] = f => k \in S) => l \in S}

(* The places on that way.                                                      *)
OnWay(x, f, n) ==
    \/ x[1] = "queue" /\ x[2] \in Path(f, n) /\ Target[x[2]] \notin Node
    \/ x[1] = "inter" /\ x[2] \in Path(f, n)
    \/ x[1] = "node" /\ x[2] = n

(* Ordered messages are on their way.                                           *)
OnPath ==
    \A c \in Copies : c[2] \in OrderedVNet =>
        \A n \in Copy(c).dest : OnWay(c[1], Copy(c).from, n)

(* How far a place is from node n, the intermediate queue of a link behind the  *)
(* queue it leads to.                                                           *)
Rank(x, n) == CASE x[1] = "queue" -> 2 * net.distance[x[2]][n]
                [] x[1] = "inter" -> 2 * net.distance[x[2]][n] + 1
                [] x[1] = "node" -> -1

(* Copy c reaches node n before copy d.                                         *)
Ahead(c, d, n) ==
    \/ Rank(c[1], n) < Rank(d[1], n)
    \/ c[1] = d[1] /\ c[3] < d[3]

(* Of the messages from one node to another on an ordered virtual network the   *)
(* earlier ones are ahead.                                                      *)
OrderOK ==
    \A c, d \in Copies : \A n \in Node :
        /\ c[2] = d[2] /\ c[2] \in OrderedVNet
        /\ n \in Copy(c).dest /\ n \in Copy(d).dest
        /\ Copy(c).from = Copy(d).from /\ Copy(c).id < Copy(d).id
        => Ahead(c, d, n)

(* The routing facts of WellRouted, of the network in the state.                *)
Routed ==
    /\ IsFiniteSet(Link)
    /\ Throttled = {l \in Link : Source[l] \notin Node}
    /\ \A l \in Link : l[2] \in Nat /\ Routing[l] \subseteq Node
    /\ \A k, l \in Link :
          Source[k] = Source[l] /\ (Source[l] \in Node \/ k[2] = l[2]) => k = l
    /\ \A l \in Link : Source[l] \in Node => Target[l] \notin Node /\ Routing[l] = Node
    /\ \A l \in Link : Target[l] \in Node => Routing[l] \subseteq {Target[l]}
    /\ \A l \in Link : Target[l] \notin Node => \A i \in Routing[l] :
          /\ \E k \in Link : Source[k] = Target[l] /\ i \in Routing[k]
          /\ \A k \in Link : Source[k] = Target[l] /\ i \in Routing[k] =>
                net.distance[k][i] < net.distance[l][i]
    /\ \A l \in Link : \A i \in Node : net.distance[l][i] \in Nat

----------------------------------------------------------------------------------
(* Ways through the network.                                                    *)

(* The network in the state is one of those RoutingAssumption is about.         *)
LEMMA NetIsRouted == NetTypeOK => Routed
<1> SUFFICES ASSUME NetTypeOK PROVE Routed
  OBVIOUS
<1>1. WellRouted(net)
  BY RoutingAssumption DEF NetTypeOK
<1> QED
  BY <1>1 DEF WellRouted, Routed, Link, Throttled, Source, Target, Routing, Node

(* The next link of a way is unique, for links out of a switch have different   *)
(* numbers.                                                                     *)
LEMMA UniqueNext ==
  ASSUME Routed, NEW l \in Link, NEW n, NEW j \in Link, NEW k \in Link,
         IsNext(j, l, n), IsNext(k, l, n)
  PROVE  j = k
<1>1. j[2] <= k[2] /\ k[2] <= j[2] /\ j[2] \in Nat /\ k[2] \in Nat /\ Source[j] = Source[k]
  BY DEF IsNext, Routed
<1> QED
  BY <1>1 DEF Routed

(* What follows l on the way to n.                                              *)
Down(l, n) == {j \in Link : \A S \in SUBSET Link : l \in S /\ NextClosed(S, n) => j \in S}

(* What follows l is l, or follows the next link.                               *)
LEMMA DownFirst ==
  ASSUME NEW l \in Link, NEW n, NEW j \in Down(l, n)
  PROVE  j = l \/ \E k \in Link : IsNext(k, l, n) /\ j \in Down(k, n)
<1> DEFINE S == {l} \cup {i \in Link : \E k \in Link : IsNext(k, l, n) /\ i \in Down(k, n)}
<1>1. \A k \in Link : k \in Down(k, n)
  BY DEF Down
<1>2. \A k \in Link : NextClosed(Down(k, n), n)
  BY DEF Down, NextClosed
<1>3. NextClosed(S, n)
  <2> SUFFICES ASSUME NEW i \in S, NEW h \in Link, IsNext(h, i, n) PROVE h \in S
    BY DEF NextClosed
  <2>1. CASE i = l
    BY <1>1, <2>1
  <2>2. CASE i # l
    <3>1. PICK k \in Link : IsNext(k, l, n) /\ i \in Down(k, n)
      BY <2>2
    <3>2. h \in Down(k, n)
      BY <1>2, <3>1 DEF NextClosed
    <3> QED
      BY <3>1, <3>2
  <2> QED
    BY <2>1, <2>2
<1>4. S \in SUBSET Link /\ l \in S
  OBVIOUS
<1>5. j \in S
  <2> HIDE DEF S
  <2> QED
    BY <1>3, <1>4 DEF Down
<1> QED
  BY <1>5

(* Every link that follows l on the way to n is nearer to n.                    *)
LEMMA DownNearer ==
  ASSUME Routed, NEW l \in Link, NEW n \in Routing[l], NEW j \in Down(l, n)
  PROVE  j = l \/ net.distance[j][n] < net.distance[l][n]
<1> DEFINE S == {i \in Link : n \in Routing[i] /\ (i = l \/ net.distance[i][n] < net.distance[l][n])}
<1>1. NextClosed(S, n)
  <2> SUFFICES ASSUME NEW i \in S, NEW h \in Link, IsNext(h, i, n) PROVE h \in S
    BY DEF NextClosed
  <2>1. n \in Routing[h] /\ net.distance[h][n] < net.distance[i][n]
    BY DEF IsNext, Routed
  <2>2. n \in Node /\ net.distance[h][n] \in Nat /\ net.distance[i][n] \in Nat /\ net.distance[l][n] \in Nat
    BY DEF Routed
  <2> QED
    BY <2>1, <2>2
<1>2. S \in SUBSET Link /\ l \in S
  OBVIOUS
<1> HIDE DEF S
<1>3. j \in S
  BY <1>1, <1>2 DEF Down
<1> QED
  BY <1>3 DEF S

(* A way goes on with the next link.                                            *)
LEMMA PathNext ==
  ASSUME NEW f, NEW n, NEW l \in Path(f, n), NEW k \in Link, IsNext(k, l, n)
  PROVE  k \in Path(f, n)
BY DEF Path, NextClosed

(* A way starts with the link out of the sender.                                *)
LEMMA PathStart ==
  ASSUME NEW f, NEW n, NEW l \in Link, Source[l] = f
  PROVE  l \in Path(f, n)
BY DEF Path

(* A way is a line: what is not farther from n than one of its links follows    *)
(* that link.                                                                   *)
LEMMA PathIsDown ==
  ASSUME Routed, NEW f \in Node, NEW n \in Node, NEW l \in Path(f, n)
  PROVE  /\ n \in Routing[l]
         /\ \A j \in Path(f, n) : j \in Down(l, n) \/ net.distance[j][n] > net.distance[l][n]
<1> DEFINE Good(i) == \A j \in Path(f, n) : j \in Down(i, n) \/ net.distance[j][n] > net.distance[i][n]
           S == {i \in Link : n \in Routing[i] /\ Good(i)}
<1>1. ASSUME NEW i \in Link, Source[i] = f PROVE i \in S
  <2>1. Path(f, n) \subseteq Down(i, n)
    <3>1. \A k \in Link : Source[k] = f => k = i
      BY <1>1 DEF Routed
    <3>2. i \in Down(i, n) /\ NextClosed(Down(i, n), n) /\ Down(i, n) \in SUBSET Link
      BY DEF Down, NextClosed
    <3> QED
      BY <3>1, <3>2 DEF Path
  <2>2. n \in Routing[i]
    BY <1>1 DEF Routed
  <2> QED
    BY <2>1, <2>2
<1>2. NextClosed(S, n)
  <2> SUFFICES ASSUME NEW i \in S, NEW h \in Link, IsNext(h, i, n) PROVE h \in S
    BY DEF NextClosed
  <2>1. n \in Routing[h] /\ net.distance[h][n] < net.distance[i][n]
    BY DEF IsNext, Routed
  <2>2. ASSUME NEW j \in Path(f, n) PROVE j \in Down(h, n) \/ net.distance[j][n] > net.distance[h][n]
    <3>0. /\ j \in Link /\ net.distance[j][n] \in Nat
          /\ net.distance[h][n] \in Nat /\ net.distance[i][n] \in Nat
      BY DEF Path, Routed
    <3>1. CASE net.distance[j][n] > net.distance[i][n]
      BY <2>1, <3>0, <3>1
    <3>2. CASE j \in Down(i, n)
      <4>1. CASE j = i
        BY <2>1, <4>1, <3>0
      <4>2. CASE j # i
        <5>1. PICK k \in Link : IsNext(k, i, n) /\ j \in Down(k, n)
          BY <3>2, <4>2, DownFirst
        <5>2. k = h
          BY <5>1, UniqueNext
        <5> QED
          BY <5>1, <5>2
      <4> QED
        BY <4>1, <4>2
    <3> QED
      BY <3>1, <3>2
  <2> QED
    BY <2>1, <2>2
<1>3. S \in SUBSET Link
  OBVIOUS
<1>4. l \in S
  <2> HIDE DEF S
  <2> QED
    BY <1>1, <1>2, <1>3 DEF Path
<1> QED
  BY <1>4

(* Of two links on one way the nearer one is the other one or comes after it.   *)
LEMMA Downstream ==
  ASSUME Routed, NEW f \in Node, NEW n \in Node, NEW l \in Path(f, n), NEW j \in Path(f, n),
         net.distance[j][n] <= net.distance[l][n]
  PROVE  j = l \/ \E k \in Link : IsNext(k, l, n) /\ (j = k \/ net.distance[j][n] < net.distance[k][n])
<1>0. l \in Link /\ j \in Link /\ net.distance[j][n] \in Nat /\ net.distance[l][n] \in Nat
  BY DEF Path, Routed
<1>1. j \in Down(l, n)
  BY <1>0, PathIsDown
<1>2. CASE j # l
  <2>1. PICK k \in Link : IsNext(k, l, n) /\ j \in Down(k, n)
    BY <1>0, <1>1, <1>2, DownFirst
  <2>2. n \in Routing[k]
    BY <2>1 DEF IsNext
  <2>3. j = k \/ net.distance[j][n] < net.distance[k][n]
    BY <2>1, <2>2, DownNearer
  <2> QED
    BY <2>1, <2>3
<1> QED
  BY <1>2

----------------------------------------------------------------------------------
(* Links and their shares of the destinations.                                  *)

(* A sequence that SetToSeqs gives has every element once.                      *)
LEMMA OrderHasAll ==
  ASSUME NEW S, IsFiniteSet(S), NEW order \in SetToSeqs(S)
  PROVE  /\ Cardinality(S) \in Nat
         /\ order \in [1 .. Cardinality(S) -> S]
         /\ \A i, j \in DOMAIN order : order[i] = order[j] => i = j
         /\ \A x \in S : \E i \in DOMAIN order : order[i] = x
<1> DEFINE N == Cardinality(S)
<1>1. N \in Nat
  BY FS_CardinalityType
<1>2. order \in [1 .. N -> S] /\ \A i, j \in 1 .. N : i # j => order[i] # order[j]
  BY DEF SetToSeqs
<1> HIDE DEF N
<1>3. order \in Injection(1 .. N, S)
  BY <1>2 DEF Injection, IsInjective
<1>4. IsFiniteSet(1 .. N) /\ Cardinality(1 .. N) = Cardinality(S)
  BY <1>1, FS_Interval DEF N
<1>5. order \in Surjection(1 .. N, S)
  BY <1>3, <1>4, FS_Injection
<1> QED
  BY <1>1, <1>2, <1>5 DEF Surjection, N

(* A destination gets its share on the first link of the order that leads to    *)
(* it.                                                                          *)
LEMMA ShareOfOne ==
  ASSUME NEW links, IsFiniteSet(links), NEW order \in SetToSeqs(links), NEW dest, NEW n \in dest,
         \E k \in links : n \in Routing[k]
  PROVE  \E i \in DOMAIN order :
            /\ n \in Share(order, i, dest)
            /\ \A j \in DOMAIN order : n \in Share(order, j, dest) => j = i
            /\ n \in Routing[order[i]]
            /\ \A j \in DOMAIN order : n \in Routing[order[j]] => i <= j
<1> DEFINE N == Cardinality(links)
           S == {j \in Nat : j + 1 \in 1 .. N => n \notin Routing[order[j + 1]]}
<1>1. N \in Nat /\ order \in [1 .. N -> links] /\ \A x \in links : \E i \in 1 .. N : order[i] = x
  BY OrderHasAll
<1>2. PICK h \in 1 .. N : n \in Routing[order[h]]
  BY <1>1
<1> HIDE DEF S
<1>0. h \in Nat
  BY <1>1
<1>3. PICK k \in 0 .. h : (\A j \in 0 .. k - 1 : j \in S) /\ (k = h \/ k \notin S)
  BY <1>0, FirstOutside
<1>4. h - 1 \notin S /\ h - 1 \in Nat
  BY <1>1, <1>2 DEF S
<1>5. k # h
  BY <1>1, <1>3, <1>4
<1> DEFINE i == k + 1
<1>6. i \in 1 .. N /\ n \in Routing[order[i]]
  BY <1>1, <1>3, <1>5 DEF S
<1>7. \A j \in 1 .. N : j < i => n \notin Routing[order[j]]
  <2> SUFFICES ASSUME NEW j \in 1 .. N, j < i PROVE n \notin Routing[order[j]]
    OBVIOUS
  <2>1. j - 1 \in 0 .. k - 1 /\ j - 1 \in Nat /\ (j - 1) + 1 = j
    BY <1>1
  <2>2. j - 1 \in S
    BY <1>3, <2>1
  <2>3. (j - 1) + 1 \in 1 .. N => n \notin Routing[order[(j - 1) + 1]]
    BY <2>2 DEF S
  <2> QED
    BY <2>1, <2>3
<1>8. n \in Share(order, i, dest)
  BY <1>1, <1>6, <1>7 DEF Share
<1>9. \A j \in 1 .. N : n \in Share(order, j, dest) => j = i
  <2> SUFFICES ASSUME NEW j \in 1 .. N, n \in Share(order, j, dest) PROVE j = i
    OBVIOUS
  <2>1. n \in Routing[order[j]] /\ \A g \in 1 .. j - 1 : n \notin Routing[order[g]]
    BY DEF Share
  <2>2. ~(j < i)
    BY <1>7, <2>1
  <2>3. ~(i < j)
    <3>1. i < j => i \in 1 .. j - 1
      BY <1>1, <1>6
    <3> QED
      BY <1>6, <2>1, <3>1
  <2> QED
    BY <1>1, <1>6, <2>2, <2>3
<1>10. \A j \in 1 .. N : n \in Routing[order[j]] => i <= j
  BY <1>1, <1>6, <1>7
<1> HIDE DEF i, N
<1>11. DOMAIN order = 1 .. N
  BY <1>1 DEF N
<1> QED
  BY <1>6, <1>8, <1>9, <1>10, <1>11

----------------------------------------------------------------------------------
(* Copies of messages.                                                          *)

(* The places and what they hold.                                               *)
LEMMA PlaceContents ==
  /\ \A l \in Link : <<"queue", l>> \in Place
  /\ \A l \in Throttled : <<"inter", l>> \in Place
  /\ \A n \in Node : <<"node", n>> \in Place
  /\ \A l : \A v : Contents(<<"queue", l>>, v) = queue[l][v]
  /\ \A l : \A v : Contents(<<"inter", l>>, v) = inter[l][v]
  /\ \A n : \A v : Contents(<<"node", n>>, v) = delivered[n][v]
  /\ \A x \in Place :
        \/ \E l \in Link : x = <<"queue", l>>
        \/ \E l \in Throttled : x = <<"inter", l>>
        \/ \E n \in Node : x = <<"node", n>>
BY DEF Place, Contents

(* Every place holds sequences of messages.                                     *)
LEMMA ContentsType ==
  NetTypeOK => \A x \in Place, v \in VNet : Contents(x, v) \in Seq(NetworkMessage)
<1> SUFFICES ASSUME NetTypeOK, NEW x \in Place, NEW v \in VNet
             PROVE  Contents(x, v) \in Seq(NetworkMessage)
  OBVIOUS
<1>1. /\ \A l \in Link : queue[l][v] \in Seq(NetworkMessage)
      /\ \A l \in Throttled : inter[l][v] \in Seq(NetworkMessage)
      /\ \A n \in Node : delivered[n][v] \in Seq(NetworkMessage)
  BY DEF NetTypeOK
<1> QED
  BY <1>1, PlaceContents

(* A copy is a position in a queue of a place.                                  *)
LEMMA CopiesDef ==
  ASSUME NetTypeOK, NEW c
  PROVE  c \in Copies <=> \E x \in Place, v \in VNet : \E i \in 1 .. Len(Contents(x, v)) : c = <<x, v, i>>
<1> DEFINE F(x, v) == {<<x, v, i>> : i \in DOMAIN Contents(x, v)}
<1>1. ASSUME NEW x \in Place, NEW v \in VNet
      PROVE  DOMAIN Contents(x, v) = 1 .. Len(Contents(x, v))
  <2>1. Contents(x, v) \in Seq(NetworkMessage)
    BY ContentsType
  <2> QED
    BY <2>1
<1>2. \A x, v : c \in F(x, v) <=> \E i \in DOMAIN Contents(x, v) : c = <<x, v, i>>
  OBVIOUS
<1>3. Copies = UNION {F(x, v) : x \in Place, v \in VNet}
  BY DEF Copies
<1> HIDE DEF F
<1>4. c \in Copies <=> \E x \in Place, v \in VNet : c \in F(x, v)
  BY <1>3
<1> QED
  BY <1>1, <1>2, <1>4

(* Every such position is a copy.                                               *)
LEMMA CopiesHave ==
  NetTypeOK =>
    \A x \in Place, v \in VNet : \A i \in 1 .. Len(Contents(x, v)) : \A c :
        c = <<x, v, i>> => c \in Copies /\ Copy(c) = Contents(x, v)[i]
<1> SUFFICES ASSUME NetTypeOK, NEW x \in Place, NEW v \in VNet, NEW i \in 1 .. Len(Contents(x, v)),
                    NEW c, c = <<x, v, i>>
             PROVE  c \in Copies /\ Copy(c) = Contents(x, v)[i]
  OBVIOUS
<1>1. c \in Copies
  BY CopiesDef
<1>2. c[1] = x /\ c[2] = v /\ c[3] = i
  OBVIOUS
<1>3. Copy(c) = Contents(x, v)[i]
  BY <1>2 DEF Copy
<1> QED
  BY <1>1, <1>3

(* Every copy is such a position.                                               *)
LEMMA CopiesAre ==
  NetTypeOK =>
    \A c \in Copies :
        /\ c[1] \in Place /\ c[2] \in VNet /\ c[3] \in 1 .. Len(Contents(c[1], c[2]))
        /\ c = <<c[1], c[2], c[3]>> /\ Copy(c) = Contents(c[1], c[2])[c[3]]
<1> SUFFICES ASSUME NetTypeOK, NEW c \in Copies
             PROVE  /\ c[1] \in Place /\ c[2] \in VNet /\ c[3] \in 1 .. Len(Contents(c[1], c[2]))
                    /\ c = <<c[1], c[2], c[3]>> /\ Copy(c) = Contents(c[1], c[2])[c[3]]
  OBVIOUS
<1>1. PICK x \in Place, v \in VNet, i \in Int : i \in 1 .. Len(Contents(x, v)) /\ c = <<x, v, i>>
  BY CopiesDef
<1>2. c[1] = x /\ c[2] = v /\ c[3] = i
  BY <1>1
<1>3. Copy(c) = Contents(c[1], c[2])[c[3]]
  BY DEF Copy
<1> QED
  BY <1>1, <1>2, <1>3

(* CopiesHave after a step.                                                     *)
LEMMA CopiesHavePrime ==
  NetTypeOK' =>
    \A x \in Place', v \in VNet : \A i \in 1 .. Len(Contents(x, v)') : \A c :
        c = <<x, v, i>> => c \in Copies' /\ Copy(c)' = Contents(x, v)'[i]
<1>1. (NetTypeOK =>
        \A x \in Place, v \in VNet : \A i \in 1 .. Len(Contents(x, v)) : \A c :
            c = <<x, v, i>> => c \in Copies /\ Copy(c) = Contents(x, v)[i])'
  BY CopiesHave, PTL
<1> QED
  BY <1>1, Zenon

(* CopiesAre after a step.                                                      *)
LEMMA CopiesArePrime ==
  NetTypeOK' =>
    \A c \in Copies' :
        /\ c[1] \in Place' /\ c[2] \in VNet /\ c[3] \in 1 .. Len(Contents(c[1], c[2])')
        /\ c = <<c[1], c[2], c[3]>> /\ Copy(c)' = Contents(c[1], c[2])'[c[3]]
<1>1. (NetTypeOK =>
        \A c \in Copies :
            /\ c[1] \in Place /\ c[2] \in VNet /\ c[3] \in 1 .. Len(Contents(c[1], c[2]))
            /\ c = <<c[1], c[2], c[3]>> /\ Copy(c) = Contents(c[1], c[2])[c[3]])'
  BY CopiesAre, PTL
<1> QED
  BY <1>1, Zenon

----------------------------------------------------------------------------------
(* Steps that move messages.                                                    *)

(* Place y comes after place x on the way from node f to node n, and before all *)
(* other places after x.                                                        *)
NextPlace(y, x, f, n) ==
    /\ OnWay(y, f, n)
    /\ Rank(y, n) < Rank(x, n)
    /\ \A z \in Place : OnWay(z, f, n) /\ Rank(z, n) < Rank(x, n)
                        => z = y \/ Rank(z, n) < Rank(y, n)

(* Message m passes from place x to place y as copy k.                          *)
Passed(k, y, m, x, v) ==
    /\ k.id = m.id /\ k.from = m.from /\ k.vnet = m.vnet
    /\ k.dest # {} /\ k.dest \subseteq m.dest /\ k.dest \subseteq Leads(y)
    /\ v \in OrderedVNet => \A n \in k.dest : NextPlace(y, x, m.from, n)

(* A step that takes the first num[v] messages of network v from place x and    *)
(* adds copies of them, for each destination one, behind the messages at places *)
(* T.                                                                           *)
Leave(x, num) == \A v \in VNet :
    /\ num[v] <= Len(Contents(x, v))
    /\ Len(Contents(x, v)') = Len(Contents(x, v)) - num[v]
    /\ \A i \in 1 .. Len(Contents(x, v)') : Contents(x, v)'[i] = Contents(x, v)[i + num[v]]

Arrive(x, num, T) == \A y \in T : \A v \in VNet :
    /\ Len(Contents(y, v)') = Len(Contents(y, v)) + num[v]
    /\ \A i \in 1 .. Len(Contents(y, v)) : Contents(y, v)'[i] = Contents(y, v)[i]
    /\ \A i \in 1 .. num[v] :
          Passed(Contents(y, v)'[Len(Contents(y, v)) + i], y, Contents(x, v)[i], x, v)

Remain(x, T) == \A y \in Place :
    y # x /\ y \notin T => \A v \in VNet : Contents(y, v)' = Contents(y, v)

(* Node n is a destination of the i-th message that is added at y.              *)
Gets(y, v, i, n) == n \in Contents(y, v)'[Len(Contents(y, v)) + i].dest

OneEach(x, num, T) == \A v \in VNet : \A i \in 1 .. num[v] : \A n \in Contents(x, v)[i].dest :
    /\ \E y \in T : Gets(y, v, i, n)
    /\ \A y, z \in T : Gets(y, v, i, n) /\ Gets(z, v, i, n) => y = z

Moves(x, num, T) ==
    /\ x \in Place /\ T \subseteq Place /\ x \notin T /\ num \in [VNet -> Nat]
    /\ Leave(x, num) /\ Arrive(x, num, T) /\ Remain(x, T) /\ OneEach(x, num, T)

(* How a copy after such a step comes from one before it: it stays in its       *)
(* place, or enters another one.                                                *)
Stays(c, d, x, num) ==
    /\ c[1] = d[1] /\ c[2] = d[2]
    /\ c[3] = IF d[1] = x THEN d[3] - num[d[2]] ELSE d[3]
    /\ Copy(c)' = Copy(d)

Enters(c, d, x, num, T) ==
    /\ d[1] = x /\ d[3] \in 1 .. num[d[2]]
    /\ c[1] \in T /\ c[2] = d[2] /\ c[3] = Len(Contents(c[1], c[2])) + d[3]
    /\ Passed(Copy(c)', c[1], Copy(d), x, d[2])

Was(c, d, x, num, T) == Stays(c, d, x, num) \/ Enters(c, d, x, num, T)

(* Every copy after such a step comes from one before it.                       *)
LEMMA EachWas ==
  ASSUME NetTypeOK, NetTypeOK', Place' = Place,
         NEW x, NEW num, NEW T, Moves(x, num, T), NEW c \in Copies'
  PROVE  \E d \in Copies : Was(c, d, x, num, T)
<1> DEFINE y == c[1]
           v == c[2]
           j == c[3]
<1>1. y \in Place /\ v \in VNet /\ j \in 1 .. Len(Contents(y, v)') /\ Copy(c)' = Contents(y, v)'[j]
  BY CopiesArePrime
<1>2. /\ x \in Place /\ Contents(x, v) \in Seq(NetworkMessage)
      /\ Contents(y, v) \in Seq(NetworkMessage)
  BY <1>1, ContentsType DEF Moves
<1>3. Len(Contents(x, v)) \in Nat /\ Len(Contents(y, v)) \in Nat
  BY <1>2
<1>4. num[v] \in Nat /\ num[v] <= Len(Contents(x, v))
  BY <1>1 DEF Moves, Leave
<1>5. CASE y = x
  <2> DEFINE d == <<x, v, j + num[v]>>
  <2>1. /\ Len(Contents(x, v)') = Len(Contents(x, v)) - num[v]
        /\ \A i \in 1 .. Len(Contents(x, v)') : Contents(x, v)'[i] = Contents(x, v)[i + num[v]]
    BY <1>1 DEF Moves, Leave
  <2>2. j \in Nat /\ j + num[v] \in 1 .. Len(Contents(x, v))
    BY <1>1, <1>3, <1>4, <1>5, <2>1
  <2>3. d \in Copies /\ Copy(d) = Contents(x, v)[j + num[v]]
    BY <1>1, <1>2, <2>2, CopiesHave
  <2>4. Contents(x, v)'[j] = Contents(x, v)[j + num[v]]
    BY <1>1, <1>5, <2>1
  <2>5. d[1] = x /\ d[2] = v /\ d[3] = j + num[v]
    OBVIOUS
  <2>6. Copy(c)' = Copy(d)
    BY <1>1, <1>5, <2>3, <2>4
  <2> HIDE DEF d, j
  <2>7. Stays(c, d, x, num)
    <3>1. j = d[3] - num[v]
      BY <2>2, <2>5, <1>4
    <3> QED
      BY <1>5, <2>5, <2>6, <3>1 DEF Stays, j
  <2> QED
    BY <2>3, <2>7 DEF Was
<1>6. CASE y \in T /\ j > Len(Contents(y, v))
  <2> DEFINE i == j - Len(Contents(y, v))
             d == <<x, v, i>>
  <2>1. Len(Contents(y, v)') = Len(Contents(y, v)) + num[v]
    BY <1>1, <1>6 DEF Moves, Arrive
  <2>2. i \in 1 .. num[v] /\ j = Len(Contents(y, v)) + i
    BY <1>1, <1>3, <1>4, <1>6, <2>1
  <2>3. i \in 1 .. Len(Contents(x, v))
    BY <2>2, <1>3, <1>4
  <2>4. d \in Copies /\ Copy(d) = Contents(x, v)[i]
    BY <1>1, <1>2, <2>3, CopiesHave
  <2>5. d[1] = x /\ d[2] = v /\ d[3] = i
    OBVIOUS
  <2> HIDE DEF i, d
  <2>6. Passed(Contents(y, v)'[Len(Contents(y, v)) + i], y, Contents(x, v)[i], x, v)
    BY <1>1, <1>6, <2>2 DEF Moves, Arrive
  <2>7. Passed(Copy(c)', y, Copy(d), x, v)
    BY <2>6, <2>4, <2>2, <1>1
  <2>8. Enters(c, d, x, num, T)
    BY <1>6, <2>2, <2>5, <2>7 DEF Enters
  <2> QED
    BY <2>4, <2>8 DEF Was
<1>7. CASE y # x /\ ~(y \in T /\ j > Len(Contents(y, v)))
  <2>1. j \in 1 .. Len(Contents(y, v)) /\ Contents(y, v)'[j] = Contents(y, v)[j]
    <3>1. CASE y \in T
      <4>1. j \in 1 .. Len(Contents(y, v))
        BY <1>1, <1>3, <1>7, <3>1
      <4> QED
        BY <1>1, <3>1, <4>1 DEF Moves, Arrive
    <3>2. CASE y \notin T
      <4>1. Contents(y, v)' = Contents(y, v)
        BY <1>1, <1>7, <3>2 DEF Moves, Remain
      <4> QED
        BY <1>1, <4>1
    <3> QED
      BY <3>1, <3>2
  <2>2. c = <<y, v, j>>
    BY CopiesArePrime
  <2>3. c \in Copies /\ Copy(c) = Contents(y, v)[j]
    BY <1>1, <2>1, <2>2, CopiesHave
  <2>4. Copy(c)' = Copy(c)
    BY <1>1, <2>1, <2>3
  <2>5. Stays(c, c, x, num)
    BY <1>7, <2>4 DEF Stays
  <2> QED
    BY <2>3, <2>5 DEF Was
<1> QED
  BY <1>5, <1>6, <1>7

(* For each of its destinations a copy before the step goes on as one after it. *)
LEMMA EachGoesOn ==
  ASSUME NetTypeOK, NetTypeOK', Place' = Place,
         NEW x, NEW num, NEW T, Moves(x, num, T), NEW d \in Copies, NEW n \in Copy(d).dest
  PROVE  \E c \in Copies' : Was(c, d, x, num, T) /\ n \in Copy(c)'.dest
<1> DEFINE y == d[1]
           v == d[2]
           i == d[3]
<1>1. y \in Place /\ v \in VNet /\ i \in 1 .. Len(Contents(y, v)) /\ Copy(d) = Contents(y, v)[i]
      /\ d = <<y, v, i>>
  BY CopiesAre
<1>2. /\ x \in Place /\ Contents(x, v) \in Seq(NetworkMessage)
      /\ Contents(y, v) \in Seq(NetworkMessage)
  BY <1>1, ContentsType DEF Moves
<1>3. Len(Contents(x, v)) \in Nat /\ Len(Contents(y, v)) \in Nat
  BY <1>2
<1>4. num[v] \in Nat /\ num[v] <= Len(Contents(x, v))
  BY <1>1 DEF Moves, Leave
<1>5. CASE y = x /\ i > num[v]
  <2> DEFINE c == <<x, v, i - num[v]>>
  <2>1. /\ Len(Contents(x, v)') = Len(Contents(x, v)) - num[v]
        /\ \A j \in 1 .. Len(Contents(x, v)') : Contents(x, v)'[j] = Contents(x, v)[j + num[v]]
    BY <1>1 DEF Moves, Leave
  <2>2. i \in Nat /\ i - num[v] \in 1 .. Len(Contents(x, v)') /\ (i - num[v]) + num[v] = i
    BY <1>1, <1>3, <1>4, <1>5, <2>1
  <2>3. c \in Copies' /\ Copy(c)' = Contents(x, v)'[i - num[v]]
    BY <1>1, <1>2, <2>2, CopiesHavePrime
  <2>4. c[1] = x /\ c[2] = v /\ c[3] = i - num[v]
    OBVIOUS
  <2> HIDE DEF c, i
  <2>5. Copy(c)' = Copy(d)
    BY <1>1, <1>5, <2>1, <2>2, <2>3
  <2>6. Stays(c, d, x, num)
    BY <1>5, <2>4, <2>5 DEF Stays, i
  <2> QED
    BY <2>3, <2>5, <2>6 DEF Was
<1>6. CASE y = x /\ i <= num[v]
  <2>1. i \in 1 .. num[v]
    BY <1>1, <1>4, <1>3, <1>6
  <2>2. PICK z \in T : Gets(z, v, i, n)
    BY <1>1, <1>6, <2>1 DEF Moves, OneEach
  <2>3. z \in Place /\ Contents(z, v) \in Seq(NetworkMessage)
    BY <1>1, ContentsType DEF Moves
  <2>4. Len(Contents(z, v)) \in Nat
    BY <2>3
  <2>5. Len(Contents(z, v)') = Len(Contents(z, v)) + num[v]
    BY <1>1 DEF Moves, Arrive
  <2>6. Len(Contents(z, v)) + i \in 1 .. Len(Contents(z, v)')
    BY <1>4, <2>1, <2>4, <2>5
  <2> PICK c : c = <<z, v, Len(Contents(z, v)) + i>>
    OBVIOUS
  <2>7. c \in Copies' /\ Copy(c)' = Contents(z, v)'[Len(Contents(z, v)) + i]
    BY <1>1, <2>3, <2>6, CopiesHavePrime
  <2>8. c[1] = z /\ c[2] = v /\ c[3] = Len(Contents(z, v)) + i
    OBVIOUS
  <2>9. Passed(Contents(z, v)'[Len(Contents(z, v)) + i], z, Contents(x, v)[i], x, v)
    BY <1>1, <2>1 DEF Moves, Arrive
  <2> HIDE DEF i, v
  <2>10. Passed(Copy(c)', z, Copy(d), x, v)
    BY <1>1, <1>6, <2>7, <2>9
  <2>11. Enters(c, d, x, num, T)
    BY <1>6, <2>1, <2>8, <2>10 DEF Enters, i, v
  <2>12. n \in Copy(c)'.dest
    BY <2>2, <2>7 DEF Gets
  <2> QED
    BY <2>7, <2>11, <2>12 DEF Was
<1>7. CASE y # x
  <2>1. i \in 1 .. Len(Contents(y, v)') /\ Contents(y, v)'[i] = Contents(y, v)[i]
    <3>1. CASE y \in T
      <4>1. Len(Contents(y, v)') = Len(Contents(y, v)) + num[v]
        BY <1>1, <3>1 DEF Moves, Arrive
      <4>2. i \in 1 .. Len(Contents(y, v)')
        BY <1>1, <1>3, <1>4, <4>1
      <4> QED
        BY <1>1, <3>1, <4>2 DEF Moves, Arrive
    <3>2. CASE y \notin T
      <4>1. Contents(y, v)' = Contents(y, v)
        BY <1>1, <1>7, <3>2 DEF Moves, Remain
      <4> QED
        BY <1>1, <4>1
    <3> QED
      BY <3>1, <3>2
  <2>2. d \in Copies' /\ Copy(d)' = Contents(y, v)'[i]
    BY <1>1, <2>1, CopiesHavePrime
  <2>3. Copy(d)' = Copy(d)
    BY <1>1, <2>1, <2>2
  <2>4. Stays(d, d, x, num)
    BY <1>7, <2>3 DEF Stays
  <2> QED
    BY <2>2, <2>3, <2>4 DEF Was
<1> QED
  BY <1>1, <1>3, <1>4, <1>5, <1>6, <1>7

(* For one destination it goes on as one copy only.                             *)
LEMMA OneGoesOn ==
  ASSUME NetTypeOK, NetTypeOK', Place' = Place,
         NEW x, NEW num, NEW T, Moves(x, num, T), NEW d \in Copies, NEW n,
         NEW b \in Copies', NEW c \in Copies',
         Was(b, d, x, num, T), Was(c, d, x, num, T), n \in Copy(b)'.dest, n \in Copy(c)'.dest
  PROVE  b = c
<1>1. b = <<b[1], b[2], b[3]>> /\ c = <<c[1], c[2], c[3]>> /\ b[3] \in Nat /\ c[3] \in Nat
  <2>1. ASSUME NEW a \in Copies' PROVE a = <<a[1], a[2], a[3]>> /\ a[3] \in Nat
    BY CopiesArePrime
  <2> QED
    BY <2>1
<1>2. d[2] \in VNet /\ num[d[2]] \in Nat /\ d[3] \in Nat
  <2>1. d[2] \in VNet /\ d[3] \in Nat
    BY CopiesAre
  <2> QED
    BY <2>1 DEF Moves
<1>3. CASE Stays(b, d, x, num) /\ Stays(c, d, x, num)
  BY <1>1, <1>3 DEF Stays
<1>4. ASSUME NEW h \in Copies', NEW g \in Copies', Stays(h, d, x, num), Enters(g, d, x, num, T)
      PROVE FALSE
  <2>1. h[3] = d[3] - num[d[2]] /\ d[3] <= num[d[2]]
    BY <1>2, <1>4 DEF Stays, Enters
  <2>2. h[3] \in Nat /\ h[3] > 0
    BY CopiesArePrime
  <2> QED
    BY <1>2, <2>1, <2>2
<1>5. CASE Enters(b, d, x, num, T) /\ Enters(c, d, x, num, T)
  <2>1. /\ d[3] \in 1 .. num[d[2]] /\ d[1] = x
        /\ b[1] \in T /\ b[2] = d[2] /\ b[3] = Len(Contents(b[1], b[2])) + d[3]
        /\ c[1] \in T /\ c[2] = d[2] /\ c[3] = Len(Contents(c[1], c[2])) + d[3]
    BY <1>5 DEF Enters
  <2>2. /\ Copy(b)' = Contents(b[1], d[2])'[Len(Contents(b[1], d[2])) + d[3]]
        /\ Copy(c)' = Contents(c[1], d[2])'[Len(Contents(c[1], d[2])) + d[3]]
    BY <2>1, CopiesArePrime
  <2>3. n \in Contents(x, d[2])[d[3]].dest
    <3>1. Copy(d) = Contents(x, d[2])[d[3]]
      BY <2>1, CopiesAre
    <3>2. Copy(b)'.dest \subseteq Copy(d).dest
      BY <1>5 DEF Enters, Passed
    <3> QED
      BY <3>1, <3>2
  <2>4. Gets(b[1], d[2], d[3], n) /\ Gets(c[1], d[2], d[3], n)
    BY <2>2 DEF Gets
  <2>5. b[1] = c[1]
    BY <1>2, <2>1, <2>3, <2>4 DEF Moves, OneEach
  <2> QED
    BY <1>1, <2>1, <2>5
<1> QED
  BY <1>3, <1>4, <1>5 DEF Was

(* What depends only on the network stays.                                      *)
LEMMA NetStays ==
  ASSUME net' = net
  PROVE  /\ Place' = Place /\ Node' = Node /\ Link' = Link /\ Throttled' = Throttled
         /\ Source' = Source /\ Target' = Target /\ Routing' = Routing
         /\ \A x : Leads(x)' = Leads(x)
         /\ \A x, f, n : OnWay(x, f, n)' <=> OnWay(x, f, n)
         /\ \A x, n : Rank(x, n)' = Rank(x, n)
<1>1. /\ Node' = Node /\ Link' = Link /\ Throttled' = Throttled
      /\ Source' = Source /\ Target' = Target /\ Routing' = Routing
  BY DEF Node, Link, Throttled, Source, Target, Routing
<1>2. Place' = Place
  BY <1>1 DEF Place
<1>3. \A x : Leads(x)' = Leads(x)
  BY <1>1 DEF Leads
<1>4. \A k, l, n : IsNext(k, l, n)' <=> IsNext(k, l, n)
  BY <1>1 DEF IsNext
<1>5. \A f, n : Path(f, n)' = Path(f, n)
  BY <1>1, <1>4 DEF Path, NextClosed
<1>6. \A x, f, n : OnWay(x, f, n)' <=> OnWay(x, f, n)
  BY <1>1, <1>5 DEF OnWay
<1>7. \A x, n : Rank(x, n)' = Rank(x, n)
  BY DEF Rank
<1> QED
  BY <1>1, <1>2, <1>3, <1>6, <1>7

(* After a step that moves messages, the copies are still of messages that were *)
(* sent, and in places that lead to their destinations.                         *)
LEMMA MovesKeepCopies ==
  ASSUME NetTypeOK, NetTypeOK', net' = net, sent' = sent, CopiesOK,
         NEW x, NEW num, NEW T, Moves(x, num, T)
  PROVE  CopiesOK'
<1> SUFFICES ASSUME NEW c \in Copies' PROVE MessageOK(Copy(c), c[1], c[2])'
  BY DEF CopiesOK
<1>1. Place' = Place /\ \A y : Leads(y)' = Leads(y)
  BY NetStays
<1>2. PICK d \in Copies : Was(c, d, x, num, T)
  BY <1>1, EachWas
<1>3. MessageOK(Copy(d), d[1], d[2])
  BY DEF CopiesOK
<1>4. (c[1] = d[1] /\ Copy(c)' = Copy(d)) \/ Passed(Copy(c)', c[1], Copy(d), x, d[2])
  BY <1>2 DEF Was, Stays, Enters
<1>5. c[2] = d[2]
  BY <1>2 DEF Was, Stays, Enters
<1> DEFINE k == Copy(c)'
           m == Copy(d)
<1>6. /\ k.id \in DOMAIN sent /\ k.vnet = c[2]
      /\ k.from = sent[k.id].from /\ k.vnet = sent[k.id].vnet /\ k.dest \subseteq sent[k.id].dest
      /\ k.dest \subseteq Leads(c[1])
      /\ c[1][1] # "queue" => k.dest # {}
  <2> HIDE DEF k, m
  <2>1. /\ m.id \in DOMAIN sent /\ m.vnet = d[2]
        /\ m.from = sent[m.id].from /\ m.vnet = sent[m.id].vnet /\ m.dest \subseteq sent[m.id].dest
        /\ m.dest \subseteq Leads(d[1])
        /\ d[1][1] # "queue" => m.dest # {}
    BY <1>3 DEF m, MessageOK
  <2>2. CASE c[1] = d[1] /\ k = m
    BY <1>5, <2>1, <2>2
  <2>3. CASE Passed(k, c[1], m, x, d[2])
    BY <1>5, <2>1, <2>3 DEF Passed
  <2> QED
    BY <1>4, <2>2, <2>3 DEF k, m
<1> QED
  BY <1>1, <1>6 DEF MessageOK

(* A step that moves messages neither loses nor duplicates a copy.              *)
LEMMA MovesKeepOnce ==
  ASSUME NetTypeOK, NetTypeOK', net' = net, sent' = sent, OnceOK,
         NEW x, NEW num, NEW T, Moves(x, num, T)
  PROVE  OnceOK'
<1>1. Place' = Place
  BY NetStays
<1>2. ASSUME NEW c, NEW d, NEW id, NEW n, Was(c, d, x, num, T), Holds(c, id, n)'
      PROVE  Holds(d, id, n)
  <2>1. Copy(c)'.id = id /\ n \in Copy(c)'.dest
    BY <1>2 DEF Holds
  <2>2. Copy(c)'.id = Copy(d).id /\ Copy(c)'.dest \subseteq Copy(d).dest
    BY <1>2 DEF Was, Stays, Enters, Passed
  <2> QED
    BY <2>1, <2>2 DEF Holds
<1>3. SUFFICES ASSUME NEW id \in DOMAIN sent, NEW n \in sent[id].dest
               PROVE  /\ \E c \in Copies' : Holds(c, id, n)'
                      /\ \A b, c \in Copies' : Holds(b, id, n)' /\ Holds(c, id, n)' => b = c
  BY DEF OnceOK
<1>4. \E c \in Copies' : Holds(c, id, n)'
  <2>1. PICK d \in Copies : Holds(d, id, n)
    BY DEF OnceOK
  <2>2. Copy(d).id = id /\ n \in Copy(d).dest
    BY <2>1 DEF Holds
  <2>3. PICK c \in Copies' : Was(c, d, x, num, T) /\ n \in Copy(c)'.dest
    BY <1>1, <2>2, EachGoesOn
  <2>4. Copy(c)'.id = Copy(d).id
    BY <2>3 DEF Was, Stays, Enters, Passed
  <2> QED
    BY <2>2, <2>3, <2>4 DEF Holds
<1>5. ASSUME NEW b \in Copies', NEW c \in Copies', Holds(b, id, n)', Holds(c, id, n)'
      PROVE  b = c
  <2>1. PICK d \in Copies : Was(b, d, x, num, T)
    BY <1>1, EachWas
  <2>2. PICK e \in Copies : Was(c, e, x, num, T)
    BY <1>1, EachWas
  <2>3. d = e
    BY <1>2, <1>5, <2>1, <2>2 DEF OnceOK
  <2>4. n \in Copy(b)'.dest /\ n \in Copy(c)'.dest
    BY <1>5 DEF Holds
  <2> QED
    BY <1>1, <2>1, <2>2, <2>3, <2>4, OneGoesOn
<1> QED
  BY <1>4, <1>5

(* Moved messages stay on the way of the ordered ones.                          *)
LEMMA MovesKeepPath ==
  ASSUME NetTypeOK, NetTypeOK', net' = net, OnPath,
         NEW x, NEW num, NEW T, Moves(x, num, T)
  PROVE  OnPath'
<1>1. Place' = Place /\ \A y, f, n : OnWay(y, f, n)' <=> OnWay(y, f, n)
  BY NetStays
<1> SUFFICES ASSUME NEW c \in Copies', c[2] \in OrderedVNet, NEW n \in Copy(c)'.dest
             PROVE  OnWay(c[1], Copy(c)'.from, n)
  BY <1>1 DEF OnPath
<1>2. PICK d \in Copies : Was(c, d, x, num, T)
  BY <1>1, EachWas
<1>3. CASE Stays(c, d, x, num)
  BY <1>3 DEF OnPath, Stays
<1>4. CASE Enters(c, d, x, num, T)
  BY <1>4 DEF Enters, Passed, NextPlace
<1> QED
  BY <1>2, <1>3, <1>4 DEF Was

(* Ranks are integers.                                                          *)
LEMMA RankIsInt ==
  ASSUME Routed, NEW x \in Place, NEW n \in Node
  PROVE  Rank(x, n) \in Int
<1>1. CASE \E l \in Link : x = <<"queue", l>>
  <2>1. PICK l \in Link : x = <<"queue", l>>
    BY <1>1
  <2>2. net.distance[l][n] \in Nat
    BY DEF Routed
  <2>3. x[1] = "queue" /\ x[2] = l
    BY <2>1
  <2> QED
    BY <2>2, <2>3 DEF Rank
<1>2. CASE \E l \in Throttled : x = <<"inter", l>>
  <2>1. PICK l \in Link : x = <<"inter", l>>
    BY <1>2 DEF Routed
  <2>2. net.distance[l][n] \in Nat
    BY DEF Routed
  <2>3. x[1] = "inter" /\ x[2] = l
    BY <2>1
  <2> QED
    BY <2>2, <2>3 DEF Rank
<1>3. CASE \E i \in Node : x = <<"node", i>>
  <2>1. x[1] = "node"
    BY <1>3
  <2> QED
    BY <2>1 DEF Rank
<1> QED
  BY <1>1, <1>2, <1>3, PlaceContents

(* Two messages of an ordered virtual network keep their order, whether the     *)
(* step moves one of them, both or none.                                        *)
LEMMA MovesKeepOrder ==
  ASSUME NetTypeOK, NetTypeOK', net' = net, OnPath, OrderOK,
         NEW x, NEW num, NEW T, Moves(x, num, T)
  PROVE  OrderOK'
<1>1. Place' = Place /\ Node' = Node /\ \A y, n : Rank(y, n)' = Rank(y, n)
  BY NetStays
<1> SUFFICES ASSUME NEW a \in Copies', NEW b \in Copies', NEW n \in Node,
                    a[2] = b[2], a[2] \in OrderedVNet, n \in Copy(a)'.dest, n \in Copy(b)'.dest,
                    Copy(a)'.from = Copy(b)'.from, Copy(a)'.id < Copy(b)'.id
             PROVE  Rank(a[1], n) < Rank(b[1], n) \/ (a[1] = b[1] /\ a[3] < b[3])
  BY <1>1 DEF OrderOK, Ahead
<1>2. PICK c \in Copies : Was(a, c, x, num, T)
  BY <1>1, EachWas
<1>3. PICK d \in Copies : Was(b, d, x, num, T)
  BY <1>1, EachWas
<1> DEFINE f == Copy(c).from
<1>4. /\ a[2] = c[2] /\ n \in Copy(c).dest /\ Copy(a)'.id = Copy(c).id /\ Copy(a)'.from = f
  BY <1>2 DEF Was, Stays, Enters, Passed
<1>5. /\ b[2] = d[2] /\ n \in Copy(d).dest /\ Copy(b)'.id = Copy(d).id
      /\ Copy(b)'.from = Copy(d).from
  BY <1>3 DEF Was, Stays, Enters, Passed
<1>6. Ahead(c, d, n)
  BY <1>4, <1>5 DEF OrderOK
<1>7. Copy(d).from = f /\ c[2] \in OrderedVNet /\ d[2] = c[2]
  BY <1>4, <1>5
<1> HIDE DEF f
<1>8. OnWay(c[1], f, n) /\ OnWay(d[1], f, n)
  BY <1>4, <1>5, <1>7 DEF OnPath, f
<1>9. /\ x \in Place /\ a[1] \in Place /\ b[1] \in Place /\ c[1] \in Place /\ d[1] \in Place
      /\ a[3] \in Nat /\ b[3] \in Nat /\ c[3] \in Nat /\ d[3] \in Nat /\ c[2] \in VNet
      /\ c[3] \in 1 .. Len(Contents(c[1], c[2]))
  <2>1. \A e \in Copies : e[1] \in Place /\ e[2] \in VNet /\ e[3] \in Nat
                          /\ e[3] \in 1 .. Len(Contents(e[1], e[2]))
    BY CopiesAre
  <2>2. \A e \in Copies' : e[1] \in Place /\ e[3] \in Nat
    BY <1>1, CopiesArePrime
  <2> QED
    BY <2>1, <2>2 DEF Moves
<1>10. /\ Rank(x, n) \in Int /\ Rank(a[1], n) \in Int /\ Rank(b[1], n) \in Int
       /\ Rank(c[1], n) \in Int /\ Rank(d[1], n) \in Int
  BY <1>9, NetIsRouted, RankIsInt
<1>11. num[c[2]] \in Nat
  BY <1>9 DEF Moves
<1>12. ASSUME NEW e, NEW g, Enters(e, g, x, num, T), n \in Copy(e)'.dest, Copy(g).from = f, g[2] = c[2]
       PROVE  NextPlace(e[1], x, f, n) /\ g[1] = x /\ g[3] <= num[c[2]]
              /\ e[3] = Len(Contents(e[1], c[2])) + g[3] /\ g[3] \in 1 .. num[c[2]]
  BY <1>7, <1>11, <1>12 DEF Enters, Passed
<1>13. CASE Stays(a, c, x, num) /\ Stays(b, d, x, num)
  BY <1>6, <1>7, <1>9, <1>11, <1>13 DEF Stays, Ahead
<1>14. CASE Enters(a, c, x, num, T) /\ Stays(b, d, x, num)
  <2>1. Rank(a[1], n) < Rank(x, n) /\ c[1] = x /\ b[1] = d[1]
    BY <1>12, <1>14, <1>7 DEF NextPlace, Stays, f
  <2> QED
    BY <1>6, <1>10, <2>1 DEF Ahead
<1>15. CASE Stays(a, c, x, num) /\ Enters(b, d, x, num, T)
  <2>1. NextPlace(b[1], x, f, n) /\ d[1] = x /\ d[3] <= num[c[2]]
        /\ b[3] = Len(Contents(b[1], c[2])) + d[3] /\ d[3] \in 1 .. num[c[2]]
    BY <1>12, <1>15, <1>7
  <2>2. a[1] = c[1] /\ (a[1] = x => a[3] = c[3] - num[c[2]]) /\ (a[1] # x => a[3] = c[3])
    BY <1>15 DEF Stays
  <2>3. a[1] # x
    <3>1. a[3] > 0
      BY <1>1, CopiesArePrime
    <3>2. SUFFICES ASSUME a[1] = x PROVE FALSE
      OBVIOUS
    <3>3. c[1] = x /\ a[3] = c[3] - num[c[2]]
      BY <2>2, <3>2
    <3>4. c[3] < d[3]
      BY <1>6, <1>10, <2>1, <3>3 DEF Ahead
    <3> QED
      BY <1>9, <1>11, <2>1, <3>1, <3>3, <3>4
  <2>4. Rank(c[1], n) < Rank(x, n)
    BY <1>6, <2>1, <2>2, <2>3 DEF Ahead
  <2>5. c[1] = b[1] \/ Rank(c[1], n) < Rank(b[1], n)
    BY <1>8, <1>9, <2>1, <2>4 DEF NextPlace
  <2>6. c[1] = b[1] => a[3] < b[3]
    <3>1. SUFFICES ASSUME c[1] = b[1] PROVE a[3] < b[3]
      OBVIOUS
    <3>2. Contents(c[1], c[2]) \in Seq(NetworkMessage)
      BY <1>9, ContentsType
    <3>3. Len(Contents(c[1], c[2])) \in Nat
      BY <3>2
    <3> QED
      BY <1>9, <2>1, <2>2, <2>3, <3>1, <3>3
  <2> QED
    BY <2>2, <2>5, <2>6
<1>16. CASE Enters(a, c, x, num, T) /\ Enters(b, d, x, num, T)
  <2>1. NextPlace(a[1], x, f, n) /\ c[1] = x /\ a[3] = Len(Contents(a[1], c[2])) + c[3]
    BY <1>12, <1>16, <1>7 DEF f
  <2>2. NextPlace(b[1], x, f, n) /\ d[1] = x /\ b[3] = Len(Contents(b[1], c[2])) + d[3]
    BY <1>12, <1>16, <1>7
  <2>3. a[1] = b[1]
    BY <1>9, <1>10, <2>1, <2>2 DEF NextPlace
  <2>4. c[3] < d[3]
    BY <1>6, <1>10, <2>1, <2>2 DEF Ahead
  <2>5. Contents(a[1], c[2]) \in Seq(NetworkMessage)
    BY <1>9, ContentsType
  <2>6. Len(Contents(a[1], c[2])) \in Nat
    BY <2>5
  <2> QED
    BY <1>9, <2>1, <2>2, <2>3, <2>4, <2>6
<1> QED
  BY <1>2, <1>3, <1>13, <1>14, <1>15, <1>16 DEF Was

----------------------------------------------------------------------------------
(* The next place for a message.                                                *)

(* Rank, routing table entry and way of each kind of place.                     *)
LEMMA PlaceIs ==
  ASSUME NEW l, NEW n, NEW f, NEW x
  PROVE  /\ x = <<"queue", l>> =>
              /\ x[1] = "queue" /\ Rank(x, n) = 2 * net.distance[l][n] /\ Leads(x) = Routing[l]
              /\ OnWay(x, f, n) <=> l \in Path(f, n) /\ Target[l] \notin Node
         /\ x = <<"inter", l>> =>
              /\ x[1] = "inter" /\ Rank(x, n) = 2 * net.distance[l][n] + 1 /\ Leads(x) = Routing[l]
              /\ OnWay(x, f, n) <=> l \in Path(f, n)
         /\ x = <<"node", l>> =>
              /\ x[1] = "node" /\ Rank(x, n) = -1 /\ Leads(x) = {l}
              /\ OnWay(x, f, n) <=> l = n
BY DEF Rank, OnWay, Leads

(* The places on a way, by their links.                                         *)
LEMMA OnWayIs ==
  ASSUME Routed, NEW f \in Node, NEW n \in Node, NEW z \in Place, OnWay(z, f, n)
  PROVE  \/ Rank(z, n) = -1 /\ z = <<"node", n>>
         \/ \E j \in Path(f, n) :
              /\ j \in Link /\ net.distance[j][n] \in Nat
              /\ \/ /\ z = <<"queue", j>> /\ Target[j] \notin Node
                    /\ Rank(z, n) = 2 * net.distance[j][n]
                 \/ /\ z = <<"inter", j>>
                    /\ Rank(z, n) = 2 * net.distance[j][n] + 1
<1>1. \A j \in Link : net.distance[j][n] \in Nat
  BY DEF Routed
<1>2. Throttled \subseteq Link
  BY DEF Routed
<1> QED
  BY <1>1, <1>2, PlaceContents, PlaceIs

(* Behind the queue that link l leads to, the intermediate queue of the next    *)
(* link comes next.                                                             *)
LEMMA RouteIsNext ==
  ASSUME Routed, NEW f \in Node, NEW n \in Node, NEW k \in Link, NEW l \in Link,
         l \in Path(f, n), IsNext(k, l, n), NEW x, x = <<"queue", l>>, NEW y, y = <<"inter", k>>
  PROVE  NextPlace(y, x, f, n)
<1>1. net.distance[k][n] \in Nat /\ net.distance[l][n] \in Nat
  BY DEF Routed
<1>2. net.distance[k][n] < net.distance[l][n]
  <2>1. n \in Routing[l]
    BY PathIsDown
  <2> QED
    BY <2>1 DEF Routed, IsNext
<1>3. OnWay(y, f, n) /\ Rank(y, n) = 2 * net.distance[k][n] + 1 /\ Rank(x, n) = 2 * net.distance[l][n]
  BY PathNext, PlaceIs
<1>4. ASSUME NEW z \in Place, OnWay(z, f, n), Rank(z, n) < Rank(x, n)
      PROVE  z = y \/ Rank(z, n) < Rank(y, n)
  <2>1. CASE Rank(z, n) = -1
    BY <1>1, <1>3, <2>1
  <2>2. ASSUME NEW j \in Path(f, n), j \in Link, net.distance[j][n] \in Nat,
               \/ z = <<"queue", j>> /\ Rank(z, n) = 2 * net.distance[j][n]
               \/ z = <<"inter", j>> /\ Rank(z, n) = 2 * net.distance[j][n] + 1
        PROVE  z = y \/ Rank(z, n) < Rank(y, n)
    <3>1. net.distance[j][n] < net.distance[l][n]
      BY <1>1, <1>3, <1>4, <2>2
    <3>2. j = k \/ net.distance[j][n] < net.distance[k][n]
      <4>1. PICK h \in Link : IsNext(h, l, n) /\ (j = h \/ net.distance[j][n] < net.distance[h][n])
        BY <1>1, <2>2, <3>1, Downstream
      <4>2. h = k
        BY <4>1, UniqueNext
      <4> QED
        BY <4>1, <4>2
    <3> QED
      BY <1>1, <1>3, <2>2, <3>2
  <2> QED
    BY <1>4, <2>1, <2>2, OnWayIs
<1> QED
  BY <1>1, <1>2, <1>3, <1>4 DEF NextPlace

(* Behind an intermediate queue, what its link leads to comes next.             *)
LEMMA ThrottleIsNext ==
  ASSUME Routed, NEW f \in Node, NEW n \in Node, NEW l \in Link, l \in Path(f, n),
         NEW x, x = <<"inter", l>>, NEW y,
         \/ y = <<"queue", l>> /\ Target[l] \notin Node
         \/ y = <<"node", n>> /\ Target[l] \in Node
  PROVE  NextPlace(y, x, f, n)
<1>1. net.distance[l][n] \in Nat
  BY DEF Routed
<1>2. Rank(x, n) = 2 * net.distance[l][n] + 1
  BY PlaceIs
<1>3. ASSUME NEW z \in Place, OnWay(z, f, n), Rank(z, n) < Rank(x, n)
      PROVE  \/ Rank(z, n) = -1 /\ z = <<"node", n>>
             \/ z = <<"queue", l>> /\ Target[l] \notin Node
             \/ Rank(z, n) < 2 * net.distance[l][n] /\ Target[l] \notin Node
  <2>1. ASSUME NEW j \in Path(f, n), j \in Link, net.distance[j][n] \in Nat,
               \/ z = <<"queue", j>> /\ Target[j] \notin Node /\ Rank(z, n) = 2 * net.distance[j][n]
               \/ z = <<"inter", j>> /\ Rank(z, n) = 2 * net.distance[j][n] + 1
        PROVE  \/ z = <<"queue", l>> /\ Target[l] \notin Node
               \/ Rank(z, n) < 2 * net.distance[l][n] /\ Target[l] \notin Node
    <3>1. net.distance[j][n] <= net.distance[l][n]
      BY <1>1, <1>2, <1>3, <2>1
    <3>2. CASE j = l
      BY <1>1, <1>2, <1>3, <2>1, <3>2
    <3>3. CASE j # l
      <4>1. PICK h \in Link : IsNext(h, l, n) /\ (j = h \/ net.distance[j][n] < net.distance[h][n])
        BY <1>1, <2>1, <3>1, <3>3, Downstream
      <4>2. Target[l] \notin Node /\ n \in Routing[l]
        BY <4>1, PathIsDown DEF IsNext
      <4>3. net.distance[h][n] < net.distance[l][n] /\ net.distance[h][n] \in Nat
        BY <4>1, <4>2 DEF IsNext, Routed
      <4>4. net.distance[j][n] < net.distance[l][n]
        BY <1>1, <2>1, <4>1, <4>3
      <4> QED
        BY <1>1, <2>1, <4>2, <4>4
    <3> QED
      BY <3>2, <3>3
  <2> QED
    BY <1>3, <2>1, OnWayIs
<1>4. CASE y = <<"queue", l>> /\ Target[l] \notin Node
  <2>1. OnWay(y, f, n) /\ Rank(y, n) = 2 * net.distance[l][n]
    BY <1>4, PlaceIs
  <2> QED
    BY <1>1, <1>2, <1>3, <1>4, <2>1 DEF NextPlace
<1>5. CASE y = <<"node", n>> /\ Target[l] \in Node
  <2>1. OnWay(y, f, n) /\ Rank(y, n) = -1
    BY <1>5, PlaceIs
  <2> QED
    BY <1>1, <1>2, <1>3, <1>5, <2>1 DEF NextPlace
<1> QED
  BY <1>4, <1>5

----------------------------------------------------------------------------------
(* The steps of the network.                                                    *)

(* The inductive invariant.                                                     *)
NetInv == NetTypeOK /\ CopiesOK /\ NoneAtNodes /\ OnceOK /\ OnPath /\ OrderOK

(* PlaceContents after a step.                                                  *)
LEMMA PlaceContentsPrime ==
  \A l, v, x :
     /\ x = <<"queue", l>> => Contents(x, v)' = queue'[l][v]
     /\ x = <<"inter", l>> => Contents(x, v)' = inter'[l][v]
     /\ x = <<"node", l>> => Contents(x, v)' = delivered'[l][v]
BY DEF Contents

(* The first messages of a queue and the rest of it.                            *)
LEMMA TakeFirst ==
  ASSUME NEW S, NEW s \in Seq(S), NEW k \in 0 .. Len(s)
  PROVE  /\ SubSeq(s, 1, k) \in Seq(S) /\ Len(SubSeq(s, 1, k)) = k
         /\ \A i \in 1 .. k : SubSeq(s, 1, k)[i] = s[i]
         /\ SubSeq(s, k + 1, Len(s)) \in Seq(S) /\ Len(SubSeq(s, k + 1, Len(s))) = Len(s) - k
         /\ \A i \in 1 .. Len(s) - k : SubSeq(s, k + 1, Len(s))[i] = s[i + k]
OBVIOUS

(* What Behind gives.                                                           *)
LEMMA BehindType ==
  ASSUME NEW S, NEW q \in [VNet -> Seq(S)], NEW r \in [VNet -> Seq(S)]
  PROVE  /\ Behind(q, r) \in [VNet -> Seq(S)]
         /\ \A v \in VNet :
              /\ Len(Behind(q, r)[v]) = Len(q[v]) + Len(r[v])
              /\ \A i \in 1 .. Len(q[v]) : Behind(q, r)[v][i] = q[v][i]
              /\ \A i \in 1 .. Len(r[v]) : Behind(q, r)[v][Len(q[v]) + i] = r[v][i]
<1>1. ASSUME NEW v \in VNet PROVE q[v] \in Seq(S) /\ r[v] \in Seq(S)
  OBVIOUS
<1> QED
  BY <1>1 DEF Behind

(* The types hold after a step if they hold of what it changes.                 *)
LEMMA NetTypeStep ==
  ASSUME NetTypeOK, UNCHANGED <<topology, net>>, sent' \in Seq(NetworkMessage),
         queue' \in [Link -> [VNet -> Seq(NetworkMessage)]],
         inter' \in [Throttled -> [VNet -> Seq(NetworkMessage)]],
         delivered' \in [Node -> [VNet -> Seq(NetworkMessage)]]
  PROVE  NetTypeOK'
<1>1. Node' = Node /\ Link' = Link /\ Throttled' = Throttled
  BY NetStays
<1>2. NetworkMessage' = NetworkMessage
  BY <1>1 DEF NetworkMessage
<1> QED
  BY <1>1, <1>2 DEF NetTypeOK

(* Throttle::wakeup, by the number num[v] of messages of each virtual network   *)
(* that it moves, w.                                                            *)
LEMMA WakeMoves ==
  ASSUME NetTypeOK, NEW l \in Throttled, WakeThrottle(l)
  PROVE  \E num \in [VNet -> Nat] : \E w \in [VNet -> Seq(NetworkMessage)] :
           /\ \A v \in VNet : num[v] \in 0 .. Len(inter[l][v])
           /\ w = [v \in VNet |-> SubSeq(inter[l][v], 1, num[v])]
           /\ inter' = [inter EXCEPT ![l] = [v \in VNet |-> SubSeq(@[v], num[v] + 1, Len(@[v]))]]
           /\ \/ /\ Target[l] \in Node
                 /\ delivered' = [delivered EXCEPT ![Target[l]] = Behind(@, w)]
                 /\ queue' = queue
              \/ /\ Target[l] \notin Node
                 /\ queue' = [queue EXCEPT ![l] = Behind(@, w)]
                 /\ delivered' = delivered
<1> DEFINE n == Turns(l).moved
           y == [v \in VNet |-> SubSeq(inter[l][v], 1, n[v])]
<1>1. inter[l] \in [VNet -> Seq(NetworkMessage)]
  BY DEF NetTypeOK
<1>2. n \in [VNet -> Nat] /\ \A v \in VNet : n[v] <= Len(inter[l][v])
  BY <1>1, TurnsMove
<1> HIDE DEF n
<1>3. ASSUME NEW v \in VNet PROVE n[v] \in 0 .. Len(inter[l][v]) /\ y[v] \in Seq(NetworkMessage)
  <2>1. inter[l][v] \in Seq(NetworkMessage)
    BY <1>1
  <2>2. n[v] \in 0 .. Len(inter[l][v])
    BY <1>2, <2>1
  <2> QED
    BY <2>1, <2>2, TakeFirst
<1>4. y \in [VNet -> Seq(NetworkMessage)]
  BY <1>3
<1>5. /\ inter' = [inter EXCEPT ![l] = [v \in VNet |-> SubSeq(@[v], n[v] + 1, Len(@[v]))]]
      /\ \/ /\ Target[l] \in Node
            /\ delivered' = [delivered EXCEPT ![Target[l]] = Behind(@, y)]
            /\ queue' = queue
         \/ /\ Target[l] \notin Node
            /\ queue' = [queue EXCEPT ![l] = Behind(@, y)]
            /\ delivered' = delivered
  BY DEF WakeThrottle, n
<1> QED
  BY <1>2, <1>3, <1>4, <1>5

(* Throttle::wakeup preserves the types.                                        *)
LEMMA WakeType ==
  ASSUME NetTypeOK, NEW l \in Throttled, WakeThrottle(l)
  PROVE  NetTypeOK'
<1>1. PICK num \in [VNet -> Nat], w \in [VNet -> Seq(NetworkMessage)] :
           /\ \A v \in VNet : num[v] \in 0 .. Len(inter[l][v])
           /\ w = [v \in VNet |-> SubSeq(inter[l][v], 1, num[v])]
           /\ inter' = [inter EXCEPT ![l] = [v \in VNet |-> SubSeq(@[v], num[v] + 1, Len(@[v]))]]
           /\ \/ /\ Target[l] \in Node
                 /\ delivered' = [delivered EXCEPT ![Target[l]] = Behind(@, w)]
                 /\ queue' = queue
              \/ /\ Target[l] \notin Node
                 /\ queue' = [queue EXCEPT ![l] = Behind(@, w)]
                 /\ delivered' = delivered
  BY WakeMoves
<1>2. /\ inter \in [Throttled -> [VNet -> Seq(NetworkMessage)]]
      /\ queue \in [Link -> [VNet -> Seq(NetworkMessage)]]
      /\ delivered \in [Node -> [VNet -> Seq(NetworkMessage)]]
      /\ sent \in Seq(NetworkMessage)
  BY DEF NetTypeOK
<1>3. l \in Link
  BY NetIsRouted DEF Routed
<1>4. inter' \in [Throttled -> [VNet -> Seq(NetworkMessage)]]
  <2> DEFINE q == [v \in VNet |-> SubSeq(inter[l][v], num[v] + 1, Len(inter[l][v]))]
  <2>1. ASSUME NEW v \in VNet PROVE q[v] \in Seq(NetworkMessage)
    <3>1. inter[l][v] \in Seq(NetworkMessage)
      BY <1>2
    <3> QED
      BY <1>1, <3>1, TakeFirst
  <2>2. q \in [VNet -> Seq(NetworkMessage)]
    BY <2>1
  <2>3. inter' = [inter EXCEPT ![l] = q]
    BY <1>1
  <2> HIDE DEF q
  <2> QED
    BY <1>2, <2>2, <2>3
<1>5. queue' \in [Link -> [VNet -> Seq(NetworkMessage)]]
  <2>1. Behind(queue[l], w) \in [VNet -> Seq(NetworkMessage)]
    BY <1>2, <1>3, BehindType
  <2>2. queue' = queue \/ queue' = [queue EXCEPT ![l] = Behind(queue[l], w)]
    BY <1>1
  <2> QED
    BY <1>2, <2>1, <2>2
<1>6. delivered' \in [Node -> [VNet -> Seq(NetworkMessage)]]
  <2>1. Target[l] \in Node => Behind(delivered[Target[l]], w) \in [VNet -> Seq(NetworkMessage)]
    BY <1>2, BehindType
  <2>2. \/ delivered' = delivered
        \/ Target[l] \in Node /\ delivered' = [delivered EXCEPT ![Target[l]] = Behind(delivered[Target[l]], w)]
    BY <1>1
  <2> QED
    BY <1>2, <2>1, <2>2
<1>7. UNCHANGED <<topology, net, sent>>
  BY DEF WakeThrottle
<1> QED
  BY <1>2, <1>4, <1>5, <1>6, <1>7, NetTypeStep

(* TakeFirst, for sequences with names.                                         *)
LEMMA Split ==
  ASSUME NEW s \in Seq(NetworkMessage), NEW k \in 0 .. Len(s),
         NEW t, t = SubSeq(s, k + 1, Len(s)), NEW u, u = SubSeq(s, 1, k)
  PROVE  /\ Len(t) = Len(s) - k
         /\ \A i \in 1 .. Len(s) - k : t[i] = s[i + k]
         /\ Len(u) = k /\ \A i \in 1 .. k : u[i] = s[i]
BY TakeFirst

(* What the invariant says of a message in a place.                             *)
LEMMA MessageFacts ==
  ASSUME NetTypeOK, CopiesOK, OnPath,
         NEW x \in Place, NEW v \in VNet, NEW i \in 1 .. Len(Contents(x, v))
  PROVE  /\ Contents(x, v)[i].from \in Node /\ Contents(x, v)[i].dest \subseteq Node
         /\ Contents(x, v)[i].dest \subseteq Leads(x)
         /\ x[1] # "queue" => Contents(x, v)[i].dest # {}
         /\ v \in OrderedVNet => \A n \in Contents(x, v)[i].dest : OnWay(x, Contents(x, v)[i].from, n)
<1> DEFINE m == Contents(x, v)[i]
           c == <<x, v, i>>
<1>1. m \in NetworkMessage
  <2>1. Contents(x, v) \in Seq(NetworkMessage)
    BY ContentsType
  <2> QED
    BY <2>1
<1>2. c \in Copies /\ Copy(c) = m
  BY CopiesHave
<1>3. c[1] = x /\ c[2] = v
  OBVIOUS
<1> HIDE DEF m, c
<1>4. MessageOK(m, x, v)
  BY <1>2, <1>3 DEF CopiesOK
<1>5. v \in OrderedVNet => \A n \in m.dest : OnWay(x, m.from, n)
  BY <1>2, <1>3 DEF OnPath
<1>6. m.from \in Node /\ m.dest \subseteq Node
  BY <1>1 DEF NetworkMessage
<1> QED
  BY <1>4, <1>5, <1>6 DEF MessageOK, m

(* Throttle::wakeup moves messages from the intermediate queues of a link to    *)
(* what the link leads to.                                                      *)
LEMMA WakeStep ==
  ASSUME NetTypeOK, CopiesOK, OnPath, NEW l \in Throttled, WakeThrottle(l)
  PROVE  \E x, num, T : Moves(x, num, T)
<1>1. PICK num \in [VNet -> Nat], w \in [VNet -> Seq(NetworkMessage)] :
           /\ \A v \in VNet : num[v] \in 0 .. Len(inter[l][v])
           /\ w = [v \in VNet |-> SubSeq(inter[l][v], 1, num[v])]
           /\ inter' = [inter EXCEPT ![l] = [v \in VNet |-> SubSeq(@[v], num[v] + 1, Len(@[v]))]]
           /\ \/ /\ Target[l] \in Node
                 /\ delivered' = [delivered EXCEPT ![Target[l]] = Behind(@, w)]
                 /\ queue' = queue
              \/ /\ Target[l] \notin Node
                 /\ queue' = [queue EXCEPT ![l] = Behind(@, w)]
                 /\ delivered' = delivered
  BY WakeMoves
<1>2. /\ inter \in [Throttled -> [VNet -> Seq(NetworkMessage)]]
      /\ queue \in [Link -> [VNet -> Seq(NetworkMessage)]]
      /\ delivered \in [Node -> [VNet -> Seq(NetworkMessage)]]
  BY DEF NetTypeOK
<1>3. Routed /\ l \in Link
  BY NetIsRouted DEF Routed
<1> PICK x : x = <<"inter", l>>
  OBVIOUS
<1> PICK y : y = IF Target[l] \in Node THEN <<"node", Target[l]>> ELSE <<"queue", l>>
  OBVIOUS
<1>4. x \in Place /\ y \in Place /\ x # y
  BY <1>3, PlaceContents
<1>5. ASSUME NEW v \in VNet
      PROVE  /\ Contents(x, v) = inter[l][v] /\ Contents(x, v)' = inter'[l][v]
             /\ Contents(y, v) = IF Target[l] \in Node THEN delivered[Target[l]][v] ELSE queue[l][v]
             /\ Target[l] \in Node => Contents(y, v)' = delivered'[Target[l]][v]
             /\ Target[l] \notin Node => Contents(y, v)' = queue'[l][v]
  <2>1. Contents(x, v) = inter[l][v] /\ Contents(x, v)' = inter'[l][v]
    BY PlaceContents, PlaceContentsPrime
  <2>2. CASE Target[l] \in Node
    <3>1. y = <<"node", Target[l]>>
      BY <2>2
    <3>2. PICK t : t = Target[l]
      OBVIOUS
    <3>3. Contents(y, v) = delivered[t][v] /\ Contents(y, v)' = delivered'[t][v]
      BY <3>1, <3>2, PlaceContents, PlaceContentsPrime
    <3> QED
      BY <2>1, <2>2, <3>2, <3>3
  <2>3. CASE Target[l] \notin Node
    BY <2>1, <2>3, PlaceContents, PlaceContentsPrime
  <2> QED
    BY <2>2, <2>3
<1>6. ASSUME NEW v \in VNet
      PROVE  /\ num[v] \in Nat /\ num[v] <= Len(Contents(x, v))
             /\ Len(Contents(x, v)') = Len(Contents(x, v)) - num[v]
             /\ \A i \in 1 .. Len(Contents(x, v)') : Contents(x, v)'[i] = Contents(x, v)[i + num[v]]
             /\ Len(w[v]) = num[v] /\ \A i \in 1 .. num[v] : w[v][i] = Contents(x, v)[i]
  <2> DEFINE s == inter[l][v]
             t == inter'[l][v]
             u == w[v]
             k == num[v]
  <2>1. s \in Seq(NetworkMessage) /\ k \in 0 .. Len(s)
    BY <1>1, <1>2
  <2>2. t = SubSeq(s, k + 1, Len(s))
    BY <1>1, <1>2
  <2>3. u = SubSeq(s, 1, k)
    BY <1>1
  <2>4. Contents(x, v) = s /\ Contents(x, v)' = t
    BY <1>5
  <2> HIDE DEF s, t, u, k
  <2>5. Len(s) \in Nat
    BY <2>1
  <2>6. /\ Len(t) = Len(s) - k
        /\ \A i \in 1 .. Len(s) - k : t[i] = s[i + k]
        /\ Len(u) = k /\ \A i \in 1 .. k : u[i] = s[i]
    BY <2>1, <2>2, <2>3, Split
  <2>7. /\ k \in Nat /\ k <= Len(s) /\ Len(t) = Len(s) - k
        /\ \A i \in 1 .. Len(t) : t[i] = s[i + k]
    BY <2>1, <2>5, <2>6
  <2> QED
    BY <2>4, <2>6, <2>7 DEF k, u
<1>7. ASSUME NEW v \in VNet
      PROVE  /\ Len(Contents(y, v)) \in Nat
             /\ Len(Contents(y, v)') = Len(Contents(y, v)) + num[v]
             /\ \A i \in 1 .. Len(Contents(y, v)) : Contents(y, v)'[i] = Contents(y, v)[i]
             /\ \A i \in 1 .. num[v] : Contents(y, v)'[Len(Contents(y, v)) + i] = Contents(x, v)[i]
  <2>1. PICK q \in [VNet -> Seq(NetworkMessage)] :
           Contents(y, v) = q[v] /\ Contents(y, v)' = Behind(q, w)[v]
    <3>1. CASE Target[l] \in Node
      <4>1. delivered[Target[l]] \in [VNet -> Seq(NetworkMessage)]
        BY <1>2, <3>1
      <4>2. delivered'[Target[l]] = Behind(delivered[Target[l]], w)
        BY <1>1, <1>2, <3>1
      <4> QED
        BY <1>5, <3>1, <4>1, <4>2
    <3>2. CASE Target[l] \notin Node
      <4>1. queue[l] \in [VNet -> Seq(NetworkMessage)]
        BY <1>2, <1>3
      <4>2. queue'[l] = Behind(queue[l], w)
        BY <1>1, <1>2, <1>3, <3>2
      <4> QED
        BY <1>5, <3>2, <4>1, <4>2
    <3> QED
      BY <3>1, <3>2
  <2>2. /\ Len(Behind(q, w)[v]) = Len(q[v]) + Len(w[v])
        /\ \A i \in 1 .. Len(q[v]) : Behind(q, w)[v][i] = q[v][i]
        /\ \A i \in 1 .. Len(w[v]) : Behind(q, w)[v][Len(q[v]) + i] = w[v][i]
    <3>1. Behind(q, w)[v] = q[v] \o w[v]
      BY DEF Behind
    <3>2. q[v] \in Seq(NetworkMessage) /\ w[v] \in Seq(NetworkMessage)
      OBVIOUS
    <3> QED
      BY <3>1, <3>2
  <2>3. q[v] \in Seq(NetworkMessage)
    OBVIOUS
  <2>4. Len(q[v]) \in Nat
    BY <2>3
  <2> QED
    BY <1>6, <2>1, <2>2, <2>4
<1>8. ASSUME NEW v \in VNet, NEW i \in 1 .. num[v]
      PROVE  Passed(Contents(x, v)[i], y, Contents(x, v)[i], x, v)
  <2>1. i \in 1 .. Len(Contents(x, v))
    <3>1. Contents(x, v) \in Seq(NetworkMessage)
      BY <1>4, ContentsType
    <3>2. Len(Contents(x, v)) \in Nat
      BY <3>1
    <3>3. num[v] \in Nat /\ num[v] <= Len(Contents(x, v))
      BY <1>6
    <3> QED
      BY <3>2, <3>3
  <2> DEFINE m == Contents(x, v)[i]
  <2>2. /\ m.from \in Node /\ m.dest \subseteq Node /\ m.dest \subseteq Leads(x)
        /\ x[1] # "queue" => m.dest # {}
        /\ v \in OrderedVNet => \A n \in m.dest : OnWay(x, m.from, n)
    BY <1>4, <2>1, MessageFacts
  <2> HIDE DEF m
  <2>3. x[1] = "inter" /\ Leads(x) = Routing[l] /\ \A f, n : OnWay(x, f, n) <=> l \in Path(f, n)
    BY PlaceIs
  <2>4. m.dest \subseteq Leads(y) /\ (Target[l] \in Node => m.dest \subseteq {Target[l]})
    <3>1. CASE Target[l] \in Node
      <4>1. Leads(y) = {Target[l]}
        BY <3>1 DEF Leads
      <4>2. Routing[l] \subseteq {Target[l]}
        BY <1>3, <3>1 DEF Routed
      <4> QED
        BY <2>2, <2>3, <4>1, <4>2
    <3>2. CASE Target[l] \notin Node
      <4>1. Leads(y) = Routing[l]
        BY <3>2, PlaceIs
      <4> QED
        BY <2>2, <2>3, <3>2, <4>1
    <3> QED
      BY <3>1, <3>2
  <2>5. ASSUME v \in OrderedVNet, NEW n \in m.dest PROVE NextPlace(y, x, m.from, n)
    <3>1. l \in Path(m.from, n) /\ n \in Node /\ m.from \in Node
      BY <2>2, <2>3, <2>5
    <3>2. \/ y = <<"queue", l>> /\ Target[l] \notin Node
          \/ y = <<"node", n>> /\ Target[l] \in Node
      BY <2>4, <2>5
    <3> QED
      BY <1>3, <3>1, <3>2, ThrottleIsNext
  <2>6. m.dest # {}
    BY <2>2, <2>3
  <2> QED
    BY <2>2, <2>4, <2>5, <2>6 DEF Passed, m
<1>9. Arrive(x, num, {y})
  <2> SUFFICES ASSUME NEW v \in VNet
               PROVE  /\ Len(Contents(y, v)') = Len(Contents(y, v)) + num[v]
                      /\ \A i \in 1 .. Len(Contents(y, v)) : Contents(y, v)'[i] = Contents(y, v)[i]
                      /\ \A i \in 1 .. num[v] :
                            Passed(Contents(y, v)'[Len(Contents(y, v)) + i], y, Contents(x, v)[i], x, v)
    BY DEF Arrive
  <2>1. ASSUME NEW i \in 1 .. num[v]
        PROVE  Passed(Contents(y, v)'[Len(Contents(y, v)) + i], y, Contents(x, v)[i], x, v)
    <3>1. Contents(y, v)'[Len(Contents(y, v)) + i] = Contents(x, v)[i]
      BY <1>7
    <3>2. Passed(Contents(x, v)[i], y, Contents(x, v)[i], x, v)
      BY <1>8
    <3> QED
      BY <3>1, <3>2
  <2> QED
    BY <1>7, <2>1
<1>10. Leave(x, num)
  BY <1>6 DEF Leave
<1>11. Remain(x, {y})
  <2> SUFFICES ASSUME NEW z \in Place, z # x, z # y, NEW v \in VNet PROVE Contents(z, v)' = Contents(z, v)
    BY DEF Remain
  <2>1. CASE \E k \in Link : z = <<"queue", k>>
    <3>1. PICK k \in Link : z = <<"queue", k>>
      BY <2>1
    <3>2. queue'[k] = queue[k]
      BY <1>1, <1>2, <3>1
    <3>3. Contents(z, v) = queue[k][v] /\ Contents(z, v)' = queue'[k][v]
      BY <3>1, PlaceContents, PlaceContentsPrime
    <3> QED
      BY <3>2, <3>3
  <2>2. CASE \E k \in Throttled : z = <<"inter", k>>
    <3>1. PICK k \in Throttled : z = <<"inter", k>>
      BY <2>2
    <3>2. inter'[k] = inter[k]
      BY <1>1, <1>2, <3>1
    <3>3. Contents(z, v) = inter[k][v] /\ Contents(z, v)' = inter'[k][v]
      BY <3>1, PlaceContents, PlaceContentsPrime
    <3> QED
      BY <3>2, <3>3
  <2>3. CASE \E k \in Node : z = <<"node", k>>
    <3>1. PICK k \in Node : z = <<"node", k>>
      BY <2>3
    <3>2. delivered'[k] = delivered[k]
      BY <1>1, <1>2, <3>1
    <3>3. Contents(z, v) = delivered[k][v] /\ Contents(z, v)' = delivered'[k][v]
      BY <3>1, PlaceContents, PlaceContentsPrime
    <3> QED
      BY <3>2, <3>3
  <2> QED
    BY <2>1, <2>2, <2>3, PlaceContents
<1>12. OneEach(x, num, {y})
  <2> SUFFICES ASSUME NEW v \in VNet, NEW i \in 1 .. num[v], NEW n \in Contents(x, v)[i].dest
               PROVE  Gets(y, v, i, n)
    BY DEF OneEach
  <2> QED
    BY <1>7 DEF Gets
<1>13. Moves(x, num, {y})
  BY <1>4, <1>9, <1>10, <1>11, <1>12 DEF Moves
<1> QED
  BY <1>13

(* PerfectSwitch::wakeup's treatment of the message at the head of a queue, its *)
(* hop counted.                                                                 *)
LEMMA RouteTakes ==
  ASSUME NetTypeOK, NEW l \in Link, NEW v \in VNet, Route(l, v)
  PROVE  \E m \in NetworkMessage, order \in LinkOrders(OutLinks(Target[l], Head(queue[l][v]).dest), v) :
           LET used == {i \in DOMAIN order : Share(order, i, m.dest) # {}}
               copy(i) == [m EXCEPT !.dest = Share(order, i, m.dest)]
           IN /\ Len(queue[l][v]) > 0
              /\ m = [Head(queue[l][v]) EXCEPT !.hops = @ + 1]
              /\ inter' = [k \in Throttled |->
                    IF \E i \in used : order[i] = k
                    THEN [inter[k] EXCEPT ![v] = Append(@, copy(CHOOSE i \in used : order[i] = k))]
                    ELSE inter[k]]
              /\ queue' = [queue EXCEPT ![l][v] = Tail(@)]
<1> DEFINE h == Head(queue[l][v])
           m == [h EXCEPT !.hops = @ + 1]
<1>1. queue[l][v] \in Seq(NetworkMessage) /\ queue[l][v] # <<>>
  <2>1. queue[l][v] \in Seq(NetworkMessage)
    BY DEF NetTypeOK
  <2>2. queue[l][v] # <<>>
    BY DEF Route
  <2> QED
    BY <2>1, <2>2
<1>2. h \in NetworkMessage /\ Len(queue[l][v]) > 0
  BY <1>1
<1>3. m \in NetworkMessage /\ m.dest = h.dest
  <2> HIDE DEF h
  <2> QED
    BY <1>2 DEF NetworkMessage
<1> HIDE DEF m
<1>4. PICK order \in LinkOrders(OutLinks(Target[l], m.dest), v) :
         LET used == {i \in DOMAIN order : Share(order, i, m.dest) # {}}
             copy(i) == [m EXCEPT !.dest = Share(order, i, m.dest)]
         IN inter' = [k \in Throttled |->
                    IF \E i \in used : order[i] = k
                    THEN [inter[k] EXCEPT ![v] = Append(@, copy(CHOOSE i \in used : order[i] = k))]
                    ELSE inter[k]]
  BY DEF Route, m
<1>5. queue' = [queue EXCEPT ![l][v] = Tail(@)]
  BY DEF Route
<1>6. order \in LinkOrders(OutLinks(Target[l], h.dest), v)
  BY <1>3, <1>4
<1> QED
  BY <1>2, <1>3, <1>4, <1>5, <1>6 DEF m

(* The same by the links K that are used: message m is the one at the head, and *)
(* to[k] the share of link k.                                                   *)
Shares(l, v, m, K, to) ==
    /\ Len(queue[l][v]) > 0 /\ queue' = [queue EXCEPT ![l][v] = Tail(@)]
    /\ m.id = queue[l][v][1].id /\ m.from = queue[l][v][1].from
    /\ m.vnet = queue[l][v][1].vnet /\ m.dest = queue[l][v][1].dest
    /\ \A k \in K : to[k] # {} /\ to[k] \subseteq m.dest /\ to[k] \subseteq Routing[k]
    /\ \A k \in K : inter'[k] = [inter[k] EXCEPT ![v] = Append(@, [m EXCEPT !.dest = to[k]])]
    /\ \A k \in Throttled : k \notin K => inter'[k] = inter[k]
    /\ inter' = [k \in Throttled |-> inter'[k]]
    /\ \A n \in m.dest : \E k \in K : n \in to[k] /\ \A j \in K : n \in to[j] => j = k
    /\ v \in OrderedVNet => \A k \in K : \A n \in to[k] : IsNext(k, l, n)

(* A routed message goes out by links of the switch, each destination on        *)
(* exactly one of them; the first one in number that leads to it on an ordered  *)
(* virtual network.                                                             *)
LEMMA RouteShares ==
  ASSUME NetTypeOK, CopiesOK, NoneAtNodes, NEW l \in Link, NEW v \in VNet, Route(l, v)
  PROVE  \E m \in NetworkMessage, K \in SUBSET Throttled : \E to : Shares(l, v, m, K, to)
<1> DEFINE h == Head(queue[l][v])
           links == OutLinks(Target[l], h.dest)
<1>1. PICK m \in NetworkMessage, order \in LinkOrders(links, v) :
         LET used == {i \in DOMAIN order : Share(order, i, m.dest) # {}}
             copy(i) == [m EXCEPT !.dest = Share(order, i, m.dest)]
         IN /\ Len(queue[l][v]) > 0
            /\ m = [h EXCEPT !.hops = @ + 1]
            /\ inter' = [k \in Throttled |->
                    IF \E i \in used : order[i] = k
                    THEN [inter[k] EXCEPT ![v] = Append(@, copy(CHOOSE i \in used : order[i] = k))]
                    ELSE inter[k]]
            /\ queue' = [queue EXCEPT ![l][v] = Tail(@)]
  BY RouteTakes
<1> DEFINE share(i) == Share(order, i, m.dest)
           used == {i \in DOMAIN order : share(i) # {}}
           K == {order[i] : i \in used}
           at(k) == CHOOSE i \in used : order[i] = k
           to == [k \in K |-> share(at(k))]
<1>0. Len(queue[l][v]) > 0 /\ queue' = [queue EXCEPT ![l][v] = Tail(@)]
  BY <1>1
<1>2. queue[l][v] \in Seq(NetworkMessage) /\ h \in NetworkMessage /\ h = queue[l][v][1]
  <2>1. queue[l][v] \in Seq(NetworkMessage)
    BY DEF NetTypeOK
  <2> QED
    BY <1>0, <2>1
<1>3. m.id = h.id /\ m.from = h.from /\ m.vnet = h.vnet /\ m.dest = h.dest
  <2> HIDE DEF h
  <2> QED
    BY <1>1, <1>2 DEF NetworkMessage
<1>4. Routed
  BY NetIsRouted
<1>5. Target[l] \notin Node /\ m.dest \subseteq Routing[l]
  <2> PICK x : x = <<"queue", l>>
    OBVIOUS
  <2> PICK c : c = <<x, v, 1>>
    OBVIOUS
  <2>1. x \in Place /\ Contents(x, v) = queue[l][v] /\ Leads(x) = Routing[l]
    BY PlaceContents, PlaceIs
  <2>2. 1 \in 1 .. Len(Contents(x, v))
    <3>1. Len(queue[l][v]) \in Nat
      BY <1>2
    <3> QED
      BY <1>0, <2>1, <3>1
  <2>3. c \in Copies /\ Copy(c) = h
    BY <1>2, <2>1, <2>2, CopiesHave
  <2>4. c[1] = x /\ c[2] = v
    OBVIOUS
  <2>5. h.dest \subseteq Leads(x)
    BY <2>3, <2>4 DEF CopiesOK, MessageOK
  <2>6. Target[l] \notin Node
    <3>1. queue[l][v] # <<>>
      BY <1>0, <1>2
    <3> QED
      BY <3>1 DEF NoneAtNodes
  <2> QED
    BY <1>3, <2>1, <2>5, <2>6
<1>6. /\ IsFiniteSet(links) /\ links \subseteq Throttled
      /\ \A k \in Link : Source[k] = Target[l] /\ Routing[k] \cap m.dest # {} => k \in links
      /\ \A k \in links : k \in Link /\ Source[k] = Target[l]
  <2>1. links \subseteq Link
    BY DEF OutLinks
  <2>2. IsFiniteSet(links)
    BY <1>4, <2>1, FS_Subset DEF Routed
  <2>3. /\ \A k \in Link : Source[k] = Target[l] /\ Routing[k] \cap m.dest # {} => k \in links
        /\ \A k \in links : k \in Link /\ Source[k] = Target[l]
    BY <1>3 DEF OutLinks
  <2>4. links \subseteq Throttled
    BY <1>4, <1>5, <2>3 DEF Routed
  <2> QED
    BY <2>2, <2>3, <2>4
<1>7. order \in SetToSeqs(links)
      /\ (v \in OrderedVNet => \A i, j \in DOMAIN order : i < j => order[i][2] < order[j][2])
  BY DEF LinkOrders, ByNumber
<1> HIDE DEF links, h
<1>8. /\ DOMAIN order \subseteq Nat /\ \A i \in DOMAIN order : order[i] \in links
      /\ \A i, j \in DOMAIN order : order[i] = order[j] => i = j
      /\ \A k \in links : \E i \in DOMAIN order : order[i] = k
  BY <1>6, <1>7, OrderHasAll
<1>9. /\ K \subseteq Throttled /\ \A i \in used : order[i] \in K /\ at(order[i]) = i
      /\ \A k \in K : at(k) \in used /\ order[at(k)] = k
  <2>1. \A i \in used : at(order[i]) = i
    BY <1>8
  <2> HIDE DEF at
  <2> QED
    BY <1>6, <1>8, <2>1
<1>10. \A i \in DOMAIN order : share(i) \subseteq m.dest /\ share(i) \subseteq Routing[order[i]]
  BY DEF Share
<1>11. \A k \in K : to[k] # {} /\ to[k] \subseteq m.dest /\ to[k] \subseteq Routing[k]
  <2> HIDE DEF at, share
  <2>1. ASSUME NEW k \in K PROVE to[k] = share(at(k)) /\ at(k) \in DOMAIN order /\ order[at(k)] = k
                                 /\ share(at(k)) # {}
    BY <1>9
  <2> QED
    BY <1>10, <2>1
<1>12. ASSUME NEW n \in m.dest
       PROVE  \E i \in used :
                 /\ n \in share(i)
                 /\ \A j \in DOMAIN order : n \in share(j) => j = i
                 /\ \A j \in DOMAIN order : n \in Routing[order[j]] => i <= j
  <2>1. \E k \in links : n \in Routing[k]
    BY <1>4, <1>5, <1>6 DEF Routed
  <2> QED
    BY <1>6, <1>7, <2>1, ShareOfOne
<1>13. ASSUME NEW n \in m.dest
       PROVE  \E k \in K : n \in to[k] /\ \A j \in K : n \in to[j] => j = k
  <2>1. PICK i \in used : n \in share(i) /\ \A j \in DOMAIN order : n \in share(j) => j = i
    BY <1>12
  <2> HIDE DEF share, at
  <2>2. order[i] \in K /\ to[order[i]] = share(i)
    BY <1>9
  <2>3. ASSUME NEW j \in K, n \in to[j] PROVE j = order[i]
    BY <1>9, <2>1, <2>3
  <2> QED
    BY <2>1, <2>2, <2>3
<1>14. ASSUME v \in OrderedVNet, NEW k \in K, NEW n \in to[k] PROVE IsNext(k, l, n)
  <2> DEFINE i == at(k)
  <2>1. i \in DOMAIN order /\ order[i] = k /\ n \in share(i) /\ n \in m.dest
    <3> HIDE DEF share, at
    <3> QED
      BY <1>9, <1>10, <1>14
  <2> HIDE DEF i
  <2>2. \A j \in DOMAIN order : n \in Routing[order[j]] => i <= j
    <3>1. PICK g \in used : n \in share(g) /\ (\A j \in DOMAIN order : n \in share(j) => j = g)
                            /\ \A j \in DOMAIN order : n \in Routing[order[j]] => g <= j
      BY <1>12, <2>1
    <3>2. i = g
      BY <2>1, <3>1
    <3> QED
      BY <3>1, <3>2
  <2>3. n \in Routing[k]
    BY <1>10, <2>1
  <2>4. ASSUME NEW j \in Link, Source[j] = Target[l], n \in Routing[j] PROVE k[2] <= j[2]
    <3>1. j \in links
      BY <1>6, <2>1, <2>4
    <3>2. PICK g \in DOMAIN order : order[g] = j
      BY <1>8, <3>1
    <3>3. i <= g /\ i \in Nat /\ g \in Nat
      BY <1>8, <2>1, <2>2, <2>4, <3>2
    <3>4. k[2] \in Nat /\ j[2] \in Nat
      BY <1>4, <1>6, <1>8, <2>1 DEF Routed
    <3>5. CASE i = g
      BY <2>1, <3>2, <3>4, <3>5
    <3>6. CASE i < g
      BY <1>7, <1>14, <2>1, <3>2, <3>4, <3>6
    <3> QED
      BY <3>3, <3>5, <3>6
  <2>5. k \in Link /\ Source[k] = Target[l]
    BY <1>6, <1>8, <2>1
  <2> QED
    BY <1>5, <2>3, <2>4, <2>5 DEF IsNext
<1>15. inter' = [k \in Throttled |->
                   IF k \in K
                   THEN [inter[k] EXCEPT ![v] = Append(@, [m EXCEPT !.dest = to[k]])]
                   ELSE inter[k]]
  <2>1. inter' = [k \in Throttled |->
                    IF \E i \in used : order[i] = k
                    THEN [inter[k] EXCEPT ![v] = Append(@, [m EXCEPT !.dest = share(at(k))])]
                    ELSE inter[k]]
    BY <1>1
  <2>2. \A k : k \in K <=> \E i \in used : order[i] = k
    OBVIOUS
  <2>3. \A k \in K : to[k] = share(at(k))
    OBVIOUS
  <2> HIDE DEF K, to, used, share, at
  <2> QED
    BY <2>1, <2>2, <2>3
<1> HIDE DEF K, to
<1>16. /\ \A k \in K : inter'[k] = [inter[k] EXCEPT ![v] = Append(@, [m EXCEPT !.dest = to[k]])]
       /\ \A k \in Throttled : k \notin K => inter'[k] = inter[k]
       /\ inter' = [k \in Throttled |-> inter'[k]]
  BY <1>9, <1>15
<1>17. K \in SUBSET Throttled
  BY <1>9
<1>18. /\ m.id = queue[l][v][1].id /\ m.from = queue[l][v][1].from
       /\ m.vnet = queue[l][v][1].vnet /\ m.dest = queue[l][v][1].dest
  BY <1>2, <1>3
<1>19. Shares(l, v, m, K, to)
  BY <1>0, <1>11, <1>13, <1>14, <1>16, <1>18 DEF Shares
<1> QED
  BY <1>17, <1>19

(* Routing preserves the types.                                                 *)
LEMMA RouteType ==
  ASSUME NetTypeOK, CopiesOK, NoneAtNodes, NEW l \in Link, NEW v \in VNet, Route(l, v)
  PROVE  NetTypeOK'
<1>1. PICK m \in NetworkMessage, K \in SUBSET Throttled : \E to : Shares(l, v, m, K, to)
  BY RouteShares
<1>2. PICK to : Shares(l, v, m, K, to)
  BY <1>1
<1>3. /\ inter \in [Throttled -> [VNet -> Seq(NetworkMessage)]]
      /\ queue \in [Link -> [VNet -> Seq(NetworkMessage)]]
      /\ delivered \in [Node -> [VNet -> Seq(NetworkMessage)]]
      /\ sent \in Seq(NetworkMessage)
  BY DEF NetTypeOK
<1>4. queue' \in [Link -> [VNet -> Seq(NetworkMessage)]]
  <2>1. queue[l][v] \in Seq(NetworkMessage) /\ queue[l][v] # <<>>
    <3>1. queue[l][v] \in Seq(NetworkMessage)
      BY <1>3
    <3>2. Len(queue[l][v]) > 0
      BY <1>2 DEF Shares
    <3> QED
      BY <3>1, <3>2
  <2>2. Tail(queue[l][v]) \in Seq(NetworkMessage)
    BY <2>1
  <2>3. queue' = [queue EXCEPT ![l][v] = Tail(@)]
    BY <1>2 DEF Shares
  <2> QED
    BY <1>3, <2>2, <2>3
<1>5. ASSUME NEW k \in Throttled PROVE inter'[k] \in [VNet -> Seq(NetworkMessage)]
  <2>1. inter[k] \in [VNet -> Seq(NetworkMessage)]
    BY <1>3
  <2>2. CASE k \in K
    <3>1. [m EXCEPT !.dest = to[k]] \in NetworkMessage
      <4>1. to[k] \subseteq m.dest
        BY <1>2, <2>2 DEF Shares
      <4> QED
        BY <4>1 DEF NetworkMessage
    <3>2. inter'[k] = [inter[k] EXCEPT ![v] = Append(@, [m EXCEPT !.dest = to[k]])]
      BY <1>2, <2>2 DEF Shares
    <3>3. Append(inter[k][v], [m EXCEPT !.dest = to[k]]) \in Seq(NetworkMessage)
      <4>1. inter[k][v] \in Seq(NetworkMessage)
        BY <2>1
      <4> QED
        BY <3>1, <4>1
    <3> QED
      BY <2>1, <3>2, <3>3
  <2>3. CASE k \notin K
    BY <1>2, <2>1, <2>3 DEF Shares
  <2> QED
    BY <2>2, <2>3
<1>6. inter' \in [Throttled -> [VNet -> Seq(NetworkMessage)]]
  <2>1. inter' = [k \in Throttled |-> inter'[k]]
    BY <1>2 DEF Shares
  <2> QED
    BY <1>5, <2>1
<1>7. UNCHANGED <<topology, net, sent, delivered>>
  BY DEF Route
<1> QED
  BY <1>3, <1>4, <1>6, <1>7, NetTypeStep

(* Routing moves the head of a queue to the intermediate queues of links out of *)
(* the switch.                                                                  *)
LEMMA RouteStep ==
  ASSUME NetTypeOK, CopiesOK, NoneAtNodes, OnPath, NEW l \in Link, NEW v \in VNet, Route(l, v)
  PROVE  \E x, num, T : Moves(x, num, T)
<1>1. PICK m \in NetworkMessage, K \in SUBSET Throttled : \E to : Shares(l, v, m, K, to)
  BY RouteShares
<1>2. PICK to : Shares(l, v, m, K, to)
  BY <1>1
<1>3. /\ inter \in [Throttled -> [VNet -> Seq(NetworkMessage)]]
      /\ queue \in [Link -> [VNet -> Seq(NetworkMessage)]]
  BY DEF NetTypeOK
<1>4. Routed /\ delivered' = delivered
  BY NetIsRouted DEF Route
<1> PICK x : x = <<"queue", l>>
  OBVIOUS
<1> DEFINE T == {<<"inter", k>> : k \in K}
           num == [w \in VNet |-> IF w = v THEN 1 ELSE 0]
           At(y, k) == y = <<"inter", k>>
           Adds(y, w, k) ==
              /\ Len(Contents(y, w)') = Len(Contents(y, w)) + num[w]
              /\ \A i \in 1 .. Len(Contents(y, w)) : Contents(y, w)'[i] = Contents(y, w)[i]
              /\ w = v => Contents(y, w)'[Len(Contents(y, w)) + 1] = [m EXCEPT !.dest = to[k]]
<1>5. x \in Place /\ T \subseteq Place /\ x \notin T /\ num \in [VNet -> Nat]
  BY PlaceContents
<1>6. ASSUME NEW w \in VNet
      PROVE  Contents(x, w) = queue[l][w] /\ Contents(x, w)' = queue'[l][w]
             /\ queue[l][w] \in Seq(NetworkMessage)
  BY <1>3, PlaceContents, PlaceContentsPrime
<1>7. ASSUME NEW k \in K, NEW y, At(y, k), NEW w \in VNet
      PROVE  Contents(y, w) = inter[k][w] /\ Contents(y, w)' = inter'[k][w]
             /\ inter[k][w] \in Seq(NetworkMessage)
  BY <1>3, <1>7, PlaceContents, PlaceContentsPrime
<1> HIDE DEF At
<1>8. Leave(x, num)
  <2> SUFFICES ASSUME NEW w \in VNet
               PROVE  /\ num[w] <= Len(Contents(x, w))
                      /\ Len(Contents(x, w)') = Len(Contents(x, w)) - num[w]
                      /\ \A i \in 1 .. Len(Contents(x, w)') :
                            Contents(x, w)'[i] = Contents(x, w)[i + num[w]]
    BY DEF Leave
  <2> DEFINE s == queue[l][w]
             t == queue'[l][w]
  <2>1. s \in Seq(NetworkMessage)
    BY <1>6
  <2>2. CASE w = v
    <3>1. t = Tail(s) /\ Len(s) > 0 /\ num[w] = 1
      BY <1>2, <1>3, <2>2 DEF Shares
    <3>2. Contents(x, w) = s /\ Contents(x, w)' = t
      BY <1>6
    <3> HIDE DEF s, t, num
    <3>3. 1 <= Len(s) /\ Len(t) = Len(s) - 1 /\ \A i \in 1 .. Len(t) : t[i] = s[i + 1]
      BY <2>1, <3>1
    <3> QED
      BY <3>1, <3>2, <3>3
  <2>3. CASE w # v
    <3>1. t = s /\ num[w] = 0
      BY <1>2, <1>3, <2>3 DEF Shares
    <3>2. Contents(x, w) = s /\ Contents(x, w)' = t
      BY <1>6
    <3> HIDE DEF s, t, num
    <3>3. Len(s) \in Nat
      BY <2>1
    <3> QED
      BY <3>1, <3>2, <3>3
  <2> QED
    BY <2>2, <2>3
<1>9. ASSUME NEW k \in K, NEW y, At(y, k), NEW w \in VNet
      PROVE  Adds(y, w, k)
  <2> DEFINE s == inter[k][w]
             t == inter'[k][w]
             copy == [m EXCEPT !.dest = to[k]]
  <2>1. s \in Seq(NetworkMessage) /\ Contents(y, w) = s /\ Contents(y, w)' = t
    BY <1>7, <1>9
  <2>2. inter'[k] = [inter[k] EXCEPT ![v] = Append(@, copy)]
    BY <1>2 DEF Shares
  <2> HIDE DEF copy
  <2>3. CASE w = v
    <3>1. t = Append(s, copy) /\ num[w] = 1
      BY <1>3, <2>2, <2>3
    <3> HIDE DEF s, t, num
    <3>2. Len(t) = Len(s) + 1 /\ (\A i \in 1 .. Len(s) : t[i] = s[i]) /\ t[Len(s) + 1] = copy
      BY <2>1, <3>1
    <3> QED
      BY <2>1, <3>1, <3>2 DEF copy
  <2>4. CASE w # v
    <3>1. t = s /\ num[w] = 0
      BY <1>3, <2>2, <2>4
    <3> HIDE DEF s, t, num
    <3>2. Len(s) \in Nat
      BY <2>1
    <3> QED
      BY <2>1, <2>4, <3>1, <3>2
  <2> QED
    BY <2>3, <2>4
<1> HIDE DEF Adds
<1>10. Contents(x, v)[1].id = m.id /\ Contents(x, v)[1].from = m.from
       /\ Contents(x, v)[1].vnet = m.vnet /\ Contents(x, v)[1].dest = m.dest
  BY <1>2, <1>6 DEF Shares
<1>11. m.from \in Node /\ m.dest \subseteq Node
       /\ (v \in OrderedVNet => \A n \in m.dest : l \in Path(m.from, n))
  <2>1. 1 \in 1 .. Len(Contents(x, v))
    <3>1. queue[l][v] \in Seq(NetworkMessage) /\ Contents(x, v) = queue[l][v]
      BY <1>6
    <3>2. Len(queue[l][v]) > 0
      BY <1>2 DEF Shares
    <3>3. Len(queue[l][v]) \in Nat
      BY <3>1
    <3> QED
      BY <3>1, <3>2, <3>3
  <2>2. v \in OrderedVNet => \A n \in m.dest : OnWay(x, m.from, n)
    <3>1. v \in OrderedVNet => \A n \in Contents(x, v)[1].dest : OnWay(x, Contents(x, v)[1].from, n)
      BY <1>5, <2>1, MessageFacts
    <3> QED
      BY <1>10, <3>1
  <2>3. \A f, n : OnWay(x, f, n) => l \in Path(f, n)
    BY PlaceIs
  <2> QED
    BY <2>2, <2>3 DEF NetworkMessage
<1>12. ASSUME NEW k \in K, NEW y, At(y, k)
       PROVE  Passed([m EXCEPT !.dest = to[k]], y, Contents(x, v)[1], x, v)
  <2>1. to[k] # {} /\ to[k] \subseteq m.dest /\ to[k] \subseteq Routing[k]
    BY <1>2 DEF Shares
  <2>2. Leads(y) = Routing[k]
    BY <1>12, PlaceIs DEF At
  <2>3. ASSUME v \in OrderedVNet, NEW n \in to[k] PROVE NextPlace(y, x, m.from, n)
    <3>1. IsNext(k, l, n)
      BY <1>2, <2>3 DEF Shares
    <3>2. l \in Path(m.from, n) /\ n \in Node /\ m.from \in Node
      BY <1>11, <2>1, <2>3
    <3>3. k \in Link
      BY <1>4 DEF Routed
    <3> QED
      BY <1>4, <1>12, <3>1, <3>2, <3>3, RouteIsNext DEF At
  <2> DEFINE copy == [m EXCEPT !.dest = to[k]]
  <2>4. copy.id = m.id /\ copy.from = m.from /\ copy.vnet = m.vnet /\ copy.dest = to[k]
    BY DEF NetworkMessage
  <2> HIDE DEF copy
  <2>5. Passed(copy, y, Contents(x, v)[1], x, v)
    BY <1>10, <2>1, <2>2, <2>3, <2>4 DEF Passed
  <2> QED
    BY <2>5 DEF copy
<1>13. \A w \in VNet : \A i \in 1 .. num[w] : w = v /\ i = 1
  OBVIOUS
<1> HIDE DEF num
<1>14. Arrive(x, num, T)
  <2> SUFFICES ASSUME NEW y \in T, NEW k \in K, At(y, k), NEW w \in VNet
               PROVE  /\ Len(Contents(y, w)') = Len(Contents(y, w)) + num[w]
                      /\ \A i \in 1 .. Len(Contents(y, w)) : Contents(y, w)'[i] = Contents(y, w)[i]
                      /\ \A i \in 1 .. num[w] :
                            Passed(Contents(y, w)'[Len(Contents(y, w)) + i], y, Contents(x, w)[i], x, w)
    BY DEF Arrive, At
  <2>0. Adds(y, w, k)
    BY <1>9
  <2>1. ASSUME NEW i \in 1 .. num[w]
        PROVE  Passed(Contents(y, w)'[Len(Contents(y, w)) + i], y, Contents(x, w)[i], x, w)
    <3>1. w = v /\ i = 1
      BY <1>13
    <3>2. Contents(y, v)'[Len(Contents(y, v)) + 1] = [m EXCEPT !.dest = to[k]]
      BY <2>0, <3>1 DEF Adds
    <3>3. Passed([m EXCEPT !.dest = to[k]], y, Contents(x, v)[1], x, v)
      BY <1>12
    <3> QED
      BY <3>1, <3>2, <3>3
  <2>2. /\ Len(Contents(y, w)') = Len(Contents(y, w)) + num[w]
        /\ \A i \in 1 .. Len(Contents(y, w)) : Contents(y, w)'[i] = Contents(y, w)[i]
    BY <2>0 DEF Adds
  <2> QED
    BY <2>1, <2>2
<1>15. OneEach(x, num, T)
  <2> SUFFICES ASSUME NEW n \in m.dest
               PROVE  /\ \E y \in T : Gets(y, v, 1, n)
                      /\ \A y, z \in T : Gets(y, v, 1, n) /\ Gets(z, v, 1, n) => y = z
    BY <1>10, <1>13 DEF OneEach
  <2>1. ASSUME NEW k \in K, NEW y, At(y, k) PROVE Gets(y, v, 1, n) <=> n \in to[k]
    <3>1. Contents(y, v)'[Len(Contents(y, v)) + 1] = [m EXCEPT !.dest = to[k]]
      BY <1>9, <2>1 DEF Adds
    <3>2. [m EXCEPT !.dest = to[k]].dest = to[k]
      BY DEF NetworkMessage
    <3> QED
      BY <3>1, <3>2 DEF Gets
  <2>2. PICK k \in K : n \in to[k] /\ \A j \in K : n \in to[j] => j = k
    BY <1>2 DEF Shares
  <2>3. \E y \in T : Gets(y, v, 1, n)
    <3>1. PICK y \in T : At(y, k)
      BY DEF At
    <3> QED
      BY <2>1, <2>2, <3>1
  <2>4. ASSUME NEW y \in T, Gets(y, v, 1, n) PROVE y = <<"inter", k>>
    <3>1. PICK j \in K : At(y, j)
      BY DEF At
    <3> QED
      BY <2>1, <2>2, <2>4, <3>1 DEF At
  <2> QED
    BY <2>3, <2>4
<1>16. Remain(x, T)
  <2> SUFFICES ASSUME NEW z \in Place, z # x, z \notin T, NEW w \in VNet PROVE Contents(z, w)' = Contents(z, w)
    BY DEF Remain
  <2>1. CASE \E k \in Link : z = <<"queue", k>>
    <3>1. PICK k \in Link : z = <<"queue", k>>
      BY <2>1
    <3>2. queue'[k] = queue[k]
      <4>1. k # l /\ queue' = [queue EXCEPT ![l][v] = Tail(@)]
        BY <1>2, <3>1 DEF Shares
      <4> QED
        BY <1>3, <4>1
    <3>3. Contents(z, w) = queue[k][w] /\ Contents(z, w)' = queue'[k][w]
      BY <3>1, PlaceContents, PlaceContentsPrime
    <3> QED
      BY <3>2, <3>3
  <2>2. CASE \E k \in Throttled : z = <<"inter", k>>
    <3>1. PICK k \in Throttled : z = <<"inter", k>>
      BY <2>2
    <3>2. inter'[k] = inter[k]
      <4>1. k \notin K
        BY <3>1
      <4> QED
        BY <1>2, <4>1 DEF Shares
    <3>3. Contents(z, w) = inter[k][w] /\ Contents(z, w)' = inter'[k][w]
      BY <3>1, PlaceContents, PlaceContentsPrime
    <3> QED
      BY <3>2, <3>3
  <2>3. CASE \E k \in Node : z = <<"node", k>>
    <3>1. PICK k \in Node : z = <<"node", k>>
      BY <2>3
    <3>2. Contents(z, w) = delivered[k][w] /\ Contents(z, w)' = delivered'[k][w]
      BY <3>1, PlaceContents, PlaceContentsPrime
    <3> QED
      BY <1>4, <3>2
  <2> QED
    BY <2>1, <2>2, <2>3, PlaceContents
<1> HIDE DEF T
<1>17. Moves(x, num, T)
  BY <1>5, <1>8, <1>14, <1>15, <1>16 DEF Moves
<1> QED
  BY <1>17

(* What Append gives.                                                           *)
LEMMA AppendedIs ==
  ASSUME NEW s \in Seq(NetworkMessage), NEW e \in NetworkMessage, NEW t, t = Append(s, e)
  PROVE  Len(t) = Len(s) + 1 /\ t[Len(s) + 1] = e /\ \A i \in 1 .. Len(s) : t[i] = s[i]
OBVIOUS

(* Nothing on a way is behind the link out of the sender.                       *)
LEMMA StartIsLast ==
  ASSUME Routed, NEW l \in Link, NEW f \in Node, Source[l] = f, NEW n \in Node,
         NEW x, x = <<"queue", l>>, NEW z \in Place, OnWay(z, f, n)
  PROVE  z = x \/ Rank(z, n) < Rank(x, n)
<1>1. n \in Routing[l] /\ l \notin Throttled /\ net.distance[l][n] \in Nat
  BY DEF Routed
<1>2. Path(f, n) \subseteq Down(l, n)
  <2>1. \A k \in Link : Source[k] = f => k = l
    BY DEF Routed
  <2>2. l \in Down(l, n) /\ NextClosed(Down(l, n), n) /\ Down(l, n) \in SUBSET Link
    BY DEF Down, NextClosed
  <2> QED
    BY <2>1, <2>2 DEF Path
<1>3. Rank(x, n) = 2 * net.distance[l][n]
  BY DEF Rank
<1>4. CASE Rank(z, n) = -1
  BY <1>1, <1>3, <1>4
<1>5. ASSUME NEW j \in Path(f, n), j \in Link, net.distance[j][n] \in Nat,
             \/ z = <<"queue", j>> /\ Rank(z, n) = 2 * net.distance[j][n]
             \/ z = <<"inter", j>> /\ Rank(z, n) = 2 * net.distance[j][n] + 1
      PROVE  z = x \/ Rank(z, n) < Rank(x, n)
  <2>1. j = l \/ net.distance[j][n] < net.distance[l][n]
    BY <1>1, <1>2, DownNearer
  <2>2. CASE j = l
    <3>1. z = <<"queue", j>>
      BY <1>1, <1>5, <2>2 DEF Place
    <3> QED
      BY <2>2, <3>1
  <2>3. CASE net.distance[j][n] < net.distance[l][n]
    BY <1>1, <1>3, <1>5, <2>3
  <2> QED
    BY <2>1, <2>2, <2>3
<1> QED
  BY <1>4, <1>5, OnWayIs

(* Sending preserves the invariant: the new message has one copy, behind all    *)
(* earlier messages of its sender.                                              *)
LEMMA SendKeeps ==
  ASSUME NetInv, NEW l \in Link, NEW v \in VNet, NEW dest \in Destinations[topology],
         Send(l, v, dest)
  PROVE  NetInv'
<1> USE DEF NetInv
<1> PICK m : m = [id |-> Len(sent) + 1, from |-> Source[l], vnet |-> v, dest |-> dest, hops |-> 0]
  OBVIOUS
<1>1. /\ queue' = [queue EXCEPT ![l][v] = Append(@, m)] /\ sent' = Append(sent, m)
      /\ UNCHANGED <<topology, net, inter, delivered>>
  BY DEF Send
<1>2. /\ inter \in [Throttled -> [VNet -> Seq(NetworkMessage)]]
      /\ queue \in [Link -> [VNet -> Seq(NetworkMessage)]]
      /\ delivered \in [Node -> [VNet -> Seq(NetworkMessage)]]
      /\ sent \in Seq(NetworkMessage)
  BY DEF NetTypeOK
<1>3. Source[l] \in Node /\ dest \subseteq Node
  <2>1. Source[l] \in Senders[topology]
    BY DEF Send
  <2>2. Senders[topology] \cup UNION Destinations[topology] \subseteq Node
    BY NetworkAssumption DEF NetTypeOK, Node
  <2> QED
    BY <2>1, <2>2
<1>4. Len(sent) \in Nat
  BY <1>2
<1>5. /\ m.id = Len(sent) + 1 /\ m.from = Source[l] /\ m.vnet = v /\ m.dest = dest
      /\ m \in NetworkMessage
  BY <1>3, <1>4 DEF NetworkMessage
<1>6. NetTypeOK'
  <2>1. queue[l][v] \in Seq(NetworkMessage)
    BY <1>2
  <2>2. Append(queue[l][v], m) \in Seq(NetworkMessage) /\ Append(sent, m) \in Seq(NetworkMessage)
    BY <1>2, <1>5, <2>1
  <2>3. queue' \in [Link -> [VNet -> Seq(NetworkMessage)]]
    BY <1>1, <1>2, <2>2
  <2> QED
    BY <1>1, <1>2, <2>2, <2>3, NetTypeStep
<1>7. Routed /\ Target[l] \notin Node /\ Routing[l] = Node
  BY <1>3, NetIsRouted DEF Routed
<1>8. /\ Place' = Place /\ Node' = Node /\ Link' = Link /\ Target' = Target
      /\ \A y : Leads(y)' = Leads(y)
      /\ \A y, f, n : OnWay(y, f, n)' <=> OnWay(y, f, n)
      /\ \A y, n : Rank(y, n)' = Rank(y, n)
  BY <1>1, NetStays
<1> PICK x : x = <<"queue", l>>
  OBVIOUS
<1> DEFINE old == Contents(x, v)
<1>9. x \in Place /\ old = queue[l][v] /\ old \in Seq(NetworkMessage) /\ Len(old) \in Nat
      /\ Leads(x) = Routing[l] /\ x[1] = "queue"
  <2>1. x \in Place /\ old = queue[l][v] /\ Leads(x) = Routing[l] /\ x[1] = "queue"
    BY PlaceContents, PlaceIs
  <2>2. old \in Seq(NetworkMessage)
    BY <2>1, ContentsType
  <2>3. Len(old) \in Nat
    BY <2>2
  <2> QED
    BY <2>1, <2>2, <2>3
<1>10. Contents(x, v)' = Append(old, m)
  <2>1. Contents(x, v)' = queue'[l][v]
    BY PlaceContentsPrime
  <2>2. queue'[l][v] = Append(queue[l][v], m)
    BY <1>1, <1>2
  <2> QED
    BY <1>9, <2>1, <2>2
<1>11. ASSUME NEW y \in Place, NEW w \in VNet, y # x \/ w # v PROVE Contents(y, w)' = Contents(y, w)
  <2>1. CASE \E k \in Link : y = <<"queue", k>>
    <3>1. PICK k \in Link : y = <<"queue", k>>
      BY <2>1
    <3>2. queue'[k][w] = queue[k][w]
      <4>1. k # l \/ w # v
        BY <1>11, <3>1
      <4> QED
        BY <1>1, <1>2, <4>1
    <3>3. Contents(y, w) = queue[k][w] /\ Contents(y, w)' = queue'[k][w]
      BY <3>1, PlaceContents, PlaceContentsPrime
    <3> QED
      BY <3>2, <3>3
  <2>2. CASE \E k \in Throttled : y = <<"inter", k>>
    <3>1. PICK k \in Throttled : y = <<"inter", k>>
      BY <2>2
    <3>2. Contents(y, w) = inter[k][w] /\ Contents(y, w)' = inter'[k][w]
      BY <3>1, PlaceContents, PlaceContentsPrime
    <3> QED
      BY <1>1, <3>2
  <2>3. CASE \E k \in Node : y = <<"node", k>>
    <3>1. PICK k \in Node : y = <<"node", k>>
      BY <2>3
    <3>2. Contents(y, w) = delivered[k][w] /\ Contents(y, w)' = delivered'[k][w]
      BY <3>1, PlaceContents, PlaceContentsPrime
    <3> QED
      BY <1>1, <3>2
  <2> QED
    BY <2>1, <2>2, <2>3, PlaceContents
<1> PICK c0 : c0 = <<x, v, Len(old) + 1>>
  OBVIOUS
<1>12. c0[1] = x /\ c0[2] = v /\ c0[3] = Len(old) + 1
  OBVIOUS
<1>13. Len(Contents(x, v)') = Len(old) + 1 /\ Contents(x, v)'[Len(old) + 1] = m
       /\ \A i \in 1 .. Len(old) : Contents(x, v)'[i] = old[i]
  <2> HIDE DEF old
  <2> DEFINE t == Contents(x, v)'
  <2>1. t = Append(old, m)
    BY <1>10
  <2> HIDE DEF t
  <2>2. Len(t) = Len(old) + 1 /\ t[Len(old) + 1] = m /\ \A i \in 1 .. Len(old) : t[i] = old[i]
    BY <1>5, <1>9, <2>1, AppendedIs
  <2> QED
    BY <2>2 DEF t
<1>14. c0 \in Copies' /\ Copy(c0)' = m
  <2>1. Len(old) + 1 \in 1 .. Len(Contents(x, v)')
    BY <1>9, <1>13
  <2> QED
    BY <1>6, <1>8, <1>9, <1>13, <2>1, CopiesHavePrime
<1>15. ASSUME NEW c \in Copies PROVE c \in Copies' /\ Copy(c)' = Copy(c)
  <2>1. /\ c[1] \in Place /\ c[2] \in VNet /\ c[3] \in 1 .. Len(Contents(c[1], c[2]))
        /\ c = <<c[1], c[2], c[3]>> /\ Copy(c) = Contents(c[1], c[2])[c[3]]
    BY CopiesAre
  <2>2. /\ c[3] \in 1 .. Len(Contents(c[1], c[2])')
        /\ Contents(c[1], c[2])'[c[3]] = Contents(c[1], c[2])[c[3]]
    <3>1. CASE c[1] = x /\ c[2] = v
      <4>1. Contents(c[1], c[2]) = old /\ Contents(c[1], c[2])' = Contents(x, v)'
        BY <3>1
      <4> HIDE DEF old
      <4>2. c[3] \in 1 .. Len(old) /\ c[3] \in 1 .. Len(old) + 1
        BY <1>9, <2>1, <4>1
      <4>3. Len(Contents(x, v)') = Len(old) + 1 /\ Contents(x, v)'[c[3]] = old[c[3]]
        BY <1>13, <4>2
      <4>4. c[3] \in 1 .. Len(Contents(x, v)')
        BY <4>2, <4>3
      <4> QED
        BY <4>1, <4>3, <4>4
    <3>2. CASE c[1] # x \/ c[2] # v
      <4>1. Contents(c[1], c[2])' = Contents(c[1], c[2])
        BY <1>11, <2>1, <3>2
      <4> QED
        BY <2>1, <4>1
    <3> QED
      BY <3>1, <3>2
  <2>3. c \in Copies' /\ Copy(c)' = Contents(c[1], c[2])'[c[3]]
    BY <1>6, <1>8, <2>1, <2>2, CopiesHavePrime
  <2> QED
    BY <2>1, <2>2, <2>3
<1>16. ASSUME NEW c \in Copies' PROVE c \in Copies \/ c = c0
  <2>1. /\ c[1] \in Place /\ c[2] \in VNet /\ c[3] \in 1 .. Len(Contents(c[1], c[2])')
        /\ c = <<c[1], c[2], c[3]>>
    BY <1>6, <1>8, CopiesArePrime
  <2>2. CASE c[1] = x /\ c[2] = v
    <3>1. c[3] \in 1 .. Len(old) \/ c[3] = Len(old) + 1
      BY <1>9, <1>13, <2>1, <2>2
    <3>2. c[3] \in 1 .. Len(old) => c \in Copies
      BY <2>1, <2>2, CopiesHave
    <3> QED
      BY <2>1, <2>2, <3>1, <3>2
  <2>3. CASE c[1] # x \/ c[2] # v
    <3>1. Contents(c[1], c[2])' = Contents(c[1], c[2])
      BY <1>11, <2>1, <2>3
    <3> QED
      BY <2>1, <3>1, CopiesHave
  <2> QED
    BY <2>2, <2>3
<1>17. DOMAIN sent = 1 .. Len(sent) /\ DOMAIN sent' = 1 .. Len(sent) + 1
       /\ sent'[Len(sent) + 1] = m /\ \A i \in DOMAIN sent : sent'[i] = sent[i]
  BY <1>1, <1>2, <1>5
<1>18. ASSUME NEW c \in Copies PROVE MessageOK(Copy(c), c[1], c[2]) /\ Copy(c).id \in DOMAIN sent
  BY DEF CopiesOK, MessageOK
<1> HIDE DEF old
<1>19. CopiesOK'
  <2> SUFFICES ASSUME NEW c \in Copies' PROVE MessageOK(Copy(c), c[1], c[2])'
    BY DEF CopiesOK
  <2> DEFINE k == Copy(c)'
  <2>1. /\ k.id \in DOMAIN sent' /\ k.vnet = c[2]
        /\ k.from = sent'[k.id].from /\ k.vnet = sent'[k.id].vnet /\ k.dest \subseteq sent'[k.id].dest
        /\ k.dest \subseteq Leads(c[1])
        /\ c[1][1] # "queue" => k.dest # {}
    <3>1. CASE c \in Copies
      BY <1>15, <1>17, <1>18, <3>1 DEF MessageOK
    <3>2. CASE c = c0
      <4>1. k = m /\ c[1] = x /\ c[2] = v
        BY <1>12, <1>14, <3>2
      <4> HIDE DEF k
      <4>2. m.id \in DOMAIN sent' /\ sent'[m.id] = m
        BY <1>4, <1>5, <1>17
      <4> QED
        BY <1>3, <1>5, <1>7, <1>9, <4>1, <4>2
    <3> QED
      BY <1>16, <3>1, <3>2
  <2> QED
    BY <1>8, <2>1 DEF MessageOK
<1>20. NoneAtNodes'
  <2> SUFFICES ASSUME NEW k \in Link, NEW w \in VNet, Target[k] \in Node PROVE queue'[k][w] = <<>>
    BY <1>8 DEF NoneAtNodes
  <2>1. k # l /\ queue[k][w] = <<>>
    BY <1>7 DEF NoneAtNodes
  <2> QED
    BY <1>1, <1>2, <2>1
<1>21. OnceOK'
  <2> SUFFICES ASSUME NEW id \in DOMAIN sent', NEW n \in sent'[id].dest
               PROVE  /\ \E c \in Copies' : Holds(c, id, n)'
                      /\ \A c, d \in Copies' : Holds(c, id, n)' /\ Holds(d, id, n)' => c = d
    BY DEF OnceOK
  <2>1. \A c \in Copies : Holds(c, id, n)' <=> Holds(c, id, n)
    BY <1>15 DEF Holds
  <2>2. Holds(c0, id, n)' <=> m.id = id /\ n \in m.dest
    BY <1>14 DEF Holds
  <2>3. CASE id \in DOMAIN sent
    <3>1. /\ \E c \in Copies : Holds(c, id, n)
          /\ \A c, d \in Copies : Holds(c, id, n) /\ Holds(d, id, n) => c = d
      BY <1>17, <2>3 DEF OnceOK
    <3>2. ~Holds(c0, id, n)'
      BY <1>4, <1>5, <1>17, <2>2, <2>3
    <3> QED
      BY <1>15, <1>16, <2>1, <3>1, <3>2
  <2>4. CASE id = Len(sent) + 1
    <3>1. Holds(c0, id, n)'
      BY <1>5, <1>17, <2>2, <2>4
    <3>2. ASSUME NEW c \in Copies PROVE ~Holds(c, id, n)
      <4>1. Copy(c).id \in 1 .. Len(sent)
        BY <1>17, <1>18
      <4> QED
        BY <1>4, <2>4, <4>1 DEF Holds
    <3> QED
      BY <1>14, <1>16, <2>1, <3>1, <3>2
  <2> QED
    BY <1>4, <1>17, <2>3, <2>4
<1>22. ASSUME NEW n \in Node PROVE OnWay(x, Source[l], n)
  BY <1>7, PathStart, PlaceIs
<1>23. OnPath'
  <2> SUFFICES ASSUME NEW c \in Copies', c[2] \in OrderedVNet, NEW n \in Copy(c)'.dest
               PROVE  OnWay(c[1], Copy(c)'.from, n)
    BY <1>8 DEF OnPath
  <2>1. CASE c \in Copies
    BY <1>15, <2>1 DEF OnPath
  <2>2. CASE c = c0
    BY <1>3, <1>5, <1>12, <1>14, <1>22, <2>2
  <2> QED
    BY <1>16, <2>1, <2>2
<1>24. OrderOK'
  <2> SUFFICES ASSUME NEW c \in Copies', NEW d \in Copies', NEW n \in Node,
                      c[2] = d[2], c[2] \in OrderedVNet, n \in Copy(c)'.dest, n \in Copy(d)'.dest,
                      Copy(c)'.from = Copy(d)'.from, Copy(c)'.id < Copy(d)'.id
               PROVE  Rank(c[1], n) < Rank(d[1], n) \/ (c[1] = d[1] /\ c[3] < d[3])
    BY <1>8 DEF OrderOK, Ahead
  <2>1. CASE c \in Copies /\ d \in Copies
    BY <1>15, <2>1 DEF OrderOK, Ahead
  <2>2. CASE c \in Copies /\ d = c0
    <3>1. Copy(c).from = Source[l] /\ n \in Copy(c).dest /\ c[2] = v
      BY <1>5, <1>12, <1>14, <1>15, <2>2
    <3>2. OnWay(c[1], Source[l], n)
      BY <2>2, <3>1 DEF OnPath
    <3>3. c[1] \in Place /\ c[3] \in 1 .. Len(Contents(c[1], c[2]))
      BY <2>2, CopiesAre
    <3>4. c[1] = x \/ Rank(c[1], n) < Rank(x, n)
      BY <1>3, <1>7, <3>2, <3>3, StartIsLast
    <3>5. c[1] = x => c[3] < d[3]
      BY <1>9, <1>12, <2>2, <3>1, <3>3 DEF old
    <3> QED
      BY <1>12, <2>2, <3>4, <3>5
  <2>3. CASE c = c0
    <3>1. Copy(c)'.id = Len(sent) + 1
      BY <1>5, <1>14, <2>3
    <3>2. Copy(d)'.id \in 1 .. Len(sent) + 1
      <4>1. CASE d \in Copies
        <5>1. Copy(d).id \in 1 .. Len(sent)
          BY <1>17, <1>18, <4>1
        <5> QED
          BY <1>4, <1>15, <4>1, <5>1
      <4>2. CASE d = c0
        BY <1>4, <1>5, <1>14, <4>2
      <4> QED
        BY <1>16, <4>1, <4>2
    <3> QED
      BY <1>4, <3>1, <3>2
  <2> QED
    BY <1>16, <2>1, <2>2, <2>3
<1> QED
  BY <1>6, <1>19, <1>20, <1>21, <1>23, <1>24

----------------------------------------------------------------------------------
(* The invariant holds.                                                         *)

(* The invariant holds of the empty network.                                    *)
LEMMA InitHolds == Init => NetInv
<1> SUFFICES ASSUME Init PROVE NetInv
  OBVIOUS
<1>1. NetTypeOK
  <2>1. <<>> \in Seq(NetworkMessage)
    OBVIOUS
  <2>2. [v \in VNet |-> <<>>] \in [VNet -> Seq(NetworkMessage)]
    BY <2>1
  <2> QED
    BY <2>1, <2>2 DEF Init, NetTypeOK
<1>2. Copies = {}
  <2>1. ASSUME NEW x \in Place, NEW v \in VNet PROVE Contents(x, v) = <<>>
    <3>1. /\ \A l \in Link : queue[l][v] = <<>>
          /\ \A l \in Throttled : inter[l][v] = <<>>
          /\ \A n \in Node : delivered[n][v] = <<>>
      BY DEF Init
    <3> QED
      BY <3>1, PlaceContents
  <2>2. ASSUME NEW c \in Copies PROVE FALSE
    <3>1. c[1] \in Place /\ c[2] \in VNet /\ c[3] \in 1 .. Len(Contents(c[1], c[2]))
      BY <1>1, CopiesAre
    <3>2. Len(Contents(c[1], c[2])) = 0
      BY <2>1, <3>1
    <3> QED
      BY <3>1, <3>2
  <2> QED
    BY <2>2
<1>3. CopiesOK /\ OnPath /\ OrderOK
  BY <1>2 DEF CopiesOK, OnPath, OrderOK
<1>4. NoneAtNodes /\ OnceOK
  BY DEF Init, NoneAtNodes, OnceOK
<1> QED
  BY <1>1, <1>3, <1>4 DEF NetInv

(* The invariant is preserved by every step that moves messages.                *)
LEMMA MovesKeep ==
  ASSUME NetInv, NetTypeOK', NoneAtNodes', net' = net, sent' = sent, \E x, num, T : Moves(x, num, T)
  PROVE  NetInv'
<1>1. PICK x, num, T : Moves(x, num, T)
  OBVIOUS
<1>2. CopiesOK' /\ OnceOK' /\ OnPath' /\ OrderOK'
  BY <1>1, MovesKeepCopies, MovesKeepOnce, MovesKeepPath, MovesKeepOrder DEF NetInv
<1> QED
  BY <1>2 DEF NetInv

(* Routing preserves the invariant.                                             *)
LEMMA RouteKeeps ==
  ASSUME NetInv, NEW l \in Link, NEW v \in VNet, Route(l, v)
  PROVE  NetInv'
<1> USE DEF NetInv
<1>1. NetTypeOK' /\ net' = net /\ sent' = sent
  BY RouteType DEF Route
<1>2. NoneAtNodes'
  <2> SUFFICES ASSUME NEW k \in Link, NEW w \in VNet, Target[k] \in Node PROVE queue'[k][w] = <<>>
    BY <1>1, NetStays DEF NoneAtNodes
  <2>1. queue[l][v] # <<>> /\ queue' = [queue EXCEPT ![l][v] = Tail(@)]
    BY DEF Route
  <2>2. k # l /\ queue[k][w] = <<>>
    BY <2>1 DEF NoneAtNodes
  <2>3. queue \in [Link -> [VNet -> Seq(NetworkMessage)]]
    BY DEF NetTypeOK
  <2> QED
    BY <2>1, <2>2, <2>3
<1>3. \E x, num, T : Moves(x, num, T)
  BY RouteStep
<1> QED
  BY <1>1, <1>2, <1>3, MovesKeep

(* A throttle's wakeup preserves the invariant.                                 *)
LEMMA WakeKeeps ==
  ASSUME NetInv, NEW l \in Throttled, WakeThrottle(l)
  PROVE  NetInv'
<1> USE DEF NetInv
<1>1. NetTypeOK' /\ net' = net /\ sent' = sent
  BY WakeType DEF WakeThrottle
<1>2. NoneAtNodes'
  <2> SUFFICES ASSUME NEW k \in Link, NEW w \in VNet, Target[k] \in Node PROVE queue'[k][w] = <<>>
    BY <1>1, NetStays DEF NoneAtNodes
  <2>1. PICK q : queue' = queue \/ (Target[l] \notin Node /\ queue' = [queue EXCEPT ![l] = q])
    BY WakeMoves
  <2>2. queue[k][w] = <<>>
    BY DEF NoneAtNodes
  <2>3. queue \in [Link -> [VNet -> Seq(NetworkMessage)]]
    BY DEF NetTypeOK
  <2> QED
    BY <2>1, <2>2, <2>3
<1>3. \E x, num, T : Moves(x, num, T)
  BY WakeStep
<1> QED
  BY <1>1, <1>2, <1>3, MovesKeep

(* Stuttering preserves the invariant.                                          *)
LEMMA StutteringKeeps ==
  ASSUME NetInv, UNCHANGED vars
  PROVE  NetInv'
<1>1. UNCHANGED <<topology, net, queue, inter, sent, delivered>>
  BY DEF vars
<1>2. /\ Place' = Place /\ Node' = Node /\ Link' = Link /\ Throttled' = Throttled /\ Target' = Target
      /\ \A x : Leads(x)' = Leads(x)
      /\ \A x, f, n : OnWay(x, f, n)' <=> OnWay(x, f, n)
      /\ \A x, n : Rank(x, n)' = Rank(x, n)
  BY <1>1, NetStays
<1>3. \A x, v : Contents(x, v)' = Contents(x, v)
  BY <1>1 DEF Contents
<1>4. Copies' = Copies
  BY <1>2, <1>3 DEF Copies
<1>5. \A c : Copy(c)' = Copy(c)
  BY <1>3 DEF Copy
<1>6. NetworkMessage' = NetworkMessage
  BY <1>2 DEF NetworkMessage
<1>7. NetTypeOK'
  BY <1>1, <1>2, <1>6 DEF NetInv, NetTypeOK
<1>8. CopiesOK'
  <2>1. \A c : MessageOK(Copy(c), c[1], c[2])' <=> MessageOK(Copy(c), c[1], c[2])
    BY <1>1, <1>2, <1>5 DEF MessageOK
  <2> QED
    BY <1>4, <2>1 DEF NetInv, CopiesOK
<1>9. NoneAtNodes'
  BY <1>1, <1>2 DEF NetInv, NoneAtNodes
<1>10. OnceOK'
  <2>1. \A c, id, n : Holds(c, id, n)' <=> Holds(c, id, n)
    BY <1>5 DEF Holds
  <2> QED
    BY <1>1, <1>4, <2>1 DEF NetInv, OnceOK
<1>11. OnPath'
  BY <1>2, <1>4, <1>5 DEF NetInv, OnPath
<1>12. OrderOK'
  <2>1. \A c, d, n : Ahead(c, d, n)' <=> Ahead(c, d, n)
    BY <1>2 DEF Ahead
  <2> QED
    BY <1>2, <1>4, <1>5, <2>1 DEF NetInv, OrderOK
<1> QED
  BY <1>7, <1>8, <1>9, <1>10, <1>11, <1>12 DEF NetInv

(* NetInv holds in every state.                                                 *)
LEMMA NetInvariant == Spec => []NetInv
<1>1. NetInv /\ [Next]_vars => NetInv'
  <2> SUFFICES ASSUME NetInv, [Next]_vars PROVE NetInv'
    OBVIOUS
  <2>1. ASSUME NEW l \in Link, NEW v \in VNet, NEW dest \in Destinations[topology], Send(l, v, dest)
        PROVE  NetInv'
    BY <2>1, SendKeeps
  <2>2. ASSUME NEW l \in Link, NEW v \in VNet, Route(l, v)
        PROVE  NetInv'
    BY <2>2, RouteKeeps
  <2>3. ASSUME NEW l \in Throttled, WakeThrottle(l)
        PROVE  NetInv'
    BY <2>3, WakeKeeps
  <2>4. CASE UNCHANGED vars
    BY <2>4, StutteringKeeps
  <2> QED
    BY <2>1, <2>2, <2>3, <2>4 DEF Next, Work
<1> QED
  BY <1>1, InitHolds, PTL DEF Spec

(* The invariant implies ExactlyOneCopy.                                        *)
LEMMA OnceImplies == NetInv => ExactlyOneCopy
<1> SUFFICES ASSUME NetInv PROVE ExactlyOneCopy
  OBVIOUS
<1> USE DEF NetInv
<1>1. ASSUME NEW id \in 1 .. Len(sent), NEW n \in Node
      PROVE  Cardinality({c \in Copies : Copy(c).id = id /\ n \in Copy(c).dest})
               = IF n \in sent[id].dest THEN 1 ELSE 0
  <2> DEFINE S == {c \in Copies : Copy(c).id = id /\ n \in Copy(c).dest}
  <2>1. \A c : c \in S <=> c \in Copies /\ Holds(c, id, n)
    BY DEF Holds
  <2>2. id \in DOMAIN sent
    <3>1. sent \in Seq(NetworkMessage)
      BY DEF NetTypeOK
    <3> QED
      BY <3>1
  <2>3. CASE n \in sent[id].dest
    <3>1. PICK c : S = {c}
      <4> HIDE DEF S
      <4>1. PICK c \in Copies : Holds(c, id, n)
        BY <2>2, <2>3 DEF OnceOK
      <4>2. \A d \in S : d = c
        BY <2>1, <2>2, <2>3, <4>1 DEF OnceOK
      <4>3. S = {c}
        BY <2>1, <4>1, <4>2
      <4> QED
        BY <4>3
    <3> HIDE DEF S
    <3>2. Cardinality(S) = 1
      BY <3>1, FS_Singleton
    <3> QED
      BY <2>3, <3>2 DEF S
  <2>4. CASE n \notin sent[id].dest
    <3>1. S = {}
      <4>1. ASSUME NEW c \in Copies, Copy(c).id = id PROVE Copy(c).dest \subseteq sent[id].dest
        BY <4>1 DEF CopiesOK, MessageOK
      <4> QED
        BY <2>4, <4>1
    <3> HIDE DEF S
    <3>2. Cardinality(S) = 0
      BY <3>1, FS_EmptySet
    <3> QED
      BY <2>4, <3>2 DEF S
  <2> QED
    BY <2>3, <2>4
<1>2. ASSUME NEW n \in Node, NEW v \in VNet, NEW i \in DOMAIN delivered[n][v]
      PROVE  delivered[n][v][i].dest = {n}
  <2> PICK x : x = <<"node", n>>
    OBVIOUS
  <2>1. x \in Place /\ Contents(x, v) = delivered[n][v] /\ Leads(x) = {n} /\ x[1] = "node"
    BY PlaceContents, PlaceIs
  <2>2. i \in 1 .. Len(Contents(x, v))
    <3>1. Contents(x, v) \in Seq(NetworkMessage)
      BY <2>1, ContentsType
    <3>2. DOMAIN Contents(x, v) = 1 .. Len(Contents(x, v))
      BY <3>1
    <3> QED
      BY <2>1, <3>2
  <2> DEFINE m == Contents(x, v)[i]
  <2>3. m.dest \subseteq Leads(x) /\ (x[1] # "queue" => m.dest # {})
    BY <2>1, <2>2, MessageFacts
  <2>4. m = delivered[n][v][i]
    BY <2>1
  <2> HIDE DEF m
  <2>5. m.dest = {n}
    BY <2>1, <2>3
  <2> QED
    BY <2>4, <2>5
<1> QED
  BY <1>1, <1>2 DEF ExactlyOneCopy

(* The invariant implies PointToPointOrder: had the later message overtaken the *)
(* earlier one, it would be behind it in the node's queue.                      *)
LEMMA OrderImplies == NetInv => PointToPointOrder
<1> SUFFICES ASSUME NetInv, NEW n \in Node, NEW v \in OrderedVNet,
                    NEW i \in DOMAIN delivered[n][v], NEW j \in DOMAIN delivered[n][v], i < j,
                    delivered[n][v][i].from = delivered[n][v][j].from
             PROVE  delivered[n][v][i].id < delivered[n][v][j].id
  BY DEF PointToPointOrder
<1> USE DEF NetInv
<1>1. v \in VNet
  BY NetworkAssumption
<1> PICK x : x = <<"node", n>>
  OBVIOUS
<1> PICK c : c = <<x, v, i>>
  OBVIOUS
<1> PICK d : d = <<x, v, j>>
  OBVIOUS
<1>2. x \in Place /\ Contents(x, v) = delivered[n][v]
  BY PlaceContents
<1>3. i \in 1 .. Len(Contents(x, v)) /\ j \in 1 .. Len(Contents(x, v)) /\ i \in Nat /\ j \in Nat
  <2>1. Contents(x, v) \in Seq(NetworkMessage)
    BY <1>1, <1>2, ContentsType
  <2>2. DOMAIN Contents(x, v) = 1 .. Len(Contents(x, v))
    BY <2>1
  <2> QED
    BY <1>2, <2>2
<1>4. c \in Copies /\ d \in Copies /\ Copy(c) = delivered[n][v][i] /\ Copy(d) = delivered[n][v][j]
  BY <1>1, <1>2, <1>3, CopiesHave
<1>5. c[1] = x /\ c[2] = v /\ c[3] = i /\ d[1] = x /\ d[2] = v /\ d[3] = j
  OBVIOUS
<1>6. Copy(c).dest = {n} /\ Copy(d).dest = {n}
  BY <1>1, <1>4, OnceImplies DEF ExactlyOneCopy
<1>7. Copy(c).id \in Nat /\ Copy(d).id \in Nat
  <2>1. sent \in Seq(NetworkMessage)
    BY DEF NetTypeOK
  <2>2. Copy(c).id \in DOMAIN sent /\ Copy(d).id \in DOMAIN sent
    BY <1>4 DEF CopiesOK, MessageOK
  <2> QED
    BY <2>1, <2>2
<1>8. Copy(c).id # Copy(d).id
  <2> SUFFICES ASSUME Copy(c).id = Copy(d).id PROVE FALSE
    OBVIOUS
  <2> PICK id : id = Copy(c).id
    OBVIOUS
  <2>1. Holds(c, id, n) /\ Holds(d, id, n)
    BY <1>6 DEF Holds
  <2>2. id \in DOMAIN sent /\ n \in sent[id].dest
    BY <1>4, <1>6 DEF CopiesOK, MessageOK
  <2>3. c = d
    BY <1>4, <2>1, <2>2 DEF OnceOK
  <2>4. i = j
    BY <1>5, <2>3
  <2> QED
    BY <1>3, <2>4
<1>9. ~(Copy(d).id < Copy(c).id)
  <2> SUFFICES ASSUME Copy(d).id < Copy(c).id PROVE FALSE
    OBVIOUS
  <2>1. Ahead(d, c, n)
    BY <1>4, <1>5, <1>6 DEF OrderOK
  <2>2. Rank(x, n) \in Int
    BY <1>2, NetIsRouted, RankIsInt
  <2> QED
    BY <1>3, <1>5, <2>1, <2>2 DEF Ahead
<1> QED
  BY <1>4, <1>7, <1>8, <1>9

(* Switches and throttles neither lose nor duplicate: at any time each          *)
(* destination of a message has exactly one copy on the way or arrived, in      *)
(* every well routed network, with adaptive routing or without, for every       *)
(* bandwidth, message size and number of messages.                              *)
THEOREM ExactlyOneCopyTravels == Spec => []ExactlyOneCopy
BY NetInvariant, OnceImplies, PTL

(* On an ordered virtual network the messages from one node to another arrive   *)
(* in the order they were sent, in every well routed network: the order of the  *)
(* links that PerfectSwitch uses for these networks is fixed, so they all take  *)
(* one way, and queues do not overtake.                                         *)
THEOREM OrderIsKept == Spec => []PointToPointOrder
BY NetInvariant, OrderImplies, PTL

==================================================================================
