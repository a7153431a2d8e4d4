----------------------------- MODULE SimpleNetwork -----------------------------
(* ruby/network/simple: PerfectSwitch.C, Throttle.C and the wiring of Switch.C    *)
(* and SimpleNetwork.C.  A link carries the virtual networks from a switch to a   *)
(* switch or to a node: the switch routes a message to the link's intermediate    *)
(* queues, the link's throttle moves it on as bandwidth allows.  All these queues *)
(* are ordered and unbounded.  Only the queues between a node and its switch take *)
(* their ordering from the protocol, and they are FIFO here as well.              *)
EXTENDS Integers, Sequences, FiniteSets, SequencesExt

CONSTANTS
    Networks,        \* the networks that Topology made, by name
    Senders,         \* [DOMAIN Networks -> SUBSET Nat], bound: the nodes that send
    Hops(_, _, _),   \* the switches between two nodes in a network of that shape
    Destinations,    \* [DOMAIN Networks -> SUBSET SUBSET Nat], bound: where they send
    VNet,            \* the virtual networks 0 .. m_virtual_networks - 1
    OrderedVNet,     \* those for which isVNetOrdered
    LinkBandwidth,   \* LINK_BANDWIDTH
    Size,            \* network_message_to_size of a message
    AdaptiveRouting, \* ADAPTIVE_ROUTING
    MaxMessages      \* [DOMAIN Networks -> Nat], bound on the messages sent

ASSUME NetworkAssumption ==
    /\ \A name \in DOMAIN Networks :
          Senders[name] \cup UNION Destinations[name] \subseteq Networks[name].nodes
    /\ LinkBandwidth \in Nat \ {0} /\ Size \in Nat \ {0}
    /\ AdaptiveRouting \in BOOLEAN
    /\ OrderedVNet \subseteq VNet
    /\ VNet = 0 .. Cardinality(VNet) - 1 /\ IsFiniteSet(VNet)

(* What createLinks gives for a connected network: every node has one link, which  *)
(* leads to a switch; the links out of a switch have throttles and different       *)
(* numbers; the one to a node leads nowhere else; and where a link leads to a node *)
(* by a shortest path, a link out of the switch at its end goes on, and every such *)
(* link comes nearer to the node.                                                  *)
WellRouted(n) ==
    /\ IsFiniteSet(n.links)
    /\ n.throttled = {l \in n.links : n.source[l] \notin n.nodes}
    /\ \A l \in n.links : l[2] \in Nat /\ n.routing[l] \subseteq n.nodes
    /\ \A k, l \in n.links :
          n.source[k] = n.source[l] /\ (n.source[l] \in n.nodes \/ k[2] = l[2]) => k = l
    /\ \A l \in n.links : n.source[l] \in n.nodes =>
          n.target[l] \notin n.nodes /\ n.routing[l] = n.nodes
    /\ \A l \in n.links : n.target[l] \in n.nodes => n.routing[l] \subseteq {n.target[l]}
    /\ \A l \in n.links : n.target[l] \notin n.nodes => \A i \in n.routing[l] :
          /\ \E k \in n.links : n.source[k] = n.target[l] /\ i \in n.routing[k]
          /\ \A k \in n.links : n.source[k] = n.target[l] /\ i \in n.routing[k] =>
                n.distance[k][i] < n.distance[l][i]
    /\ \A l \in n.links : \A i \in n.nodes : n.distance[l][i] \in Nat

ASSUME RoutingAssumption == \A name \in DOMAIN Networks : WellRouted(Networks[name])

VARIABLES
    topology,   \* the name of the network, which does not change
    net,        \* its links, likewise: the switches and throttles made from them
    queue,      \* [Link -> [VNet -> Seq(NetworkMessage)]], what the link leads to
    inter,      \* [Throttled -> [VNet -> Seq(NetworkMessage)]], intermediateBuffers
    units,      \* [Throttled -> [VNet -> Nat]], m_units_remaining
    lastVnet,   \* [Throttled -> VNet], m_last_vnet
    scheduled,  \* the throttles with a wakeup in the event queue
    sent,       \* the messages sent, in order
    delivered   \* [Node -> [VNet -> Seq(NetworkMessage)]], in order of arrival

vars == <<topology, net, queue, inter, units, lastVnet, scheduled, sent, delivered>>

Node == net.nodes
Link == net.links
Source == net.source
Target == net.target
Routing == net.routing
Throttled == net.throttled

(* Throttle::getLinkBandwidth                                                     *)
Bandwidth(l) == LinkBandwidth * net.multiplier[l]

(* id numbers the messages and hops counts the switches passed (both for the      *)
(* properties only); dest is the internal destination.                            *)
NetworkMessage == [id : Nat, from : Node, vnet : VNet, dest : SUBSET Node, hops : Nat]

Init ==
    /\ topology \in DOMAIN Networks
    /\ net = Networks[topology]
    /\ queue = [l \in Link |-> [v \in VNet |-> <<>>]]
    /\ inter = [l \in Throttled |-> [v \in VNet |-> <<>>]]
    /\ units = [l \in Throttled |-> [v \in VNet |-> 0]]
    /\ lastVnet = [l \in Throttled |-> 0]
    /\ scheduled = {}
    /\ sent = <<>>
    /\ delivered = [n \in Node |-> [v \in VNet |-> <<>>]]

--------------------------------------------------------------------------------
(* A controller enqueues a message on its node's link.                            *)
Send(l, v, dest) ==
    LET m == [id |-> Len(sent) + 1, from |-> Source[l], vnet |-> v, dest |-> dest,
              hops |-> 0]
    IN /\ Source[l] \in Senders[topology]
       /\ Len(sent) < MaxMessages[topology]
       /\ queue' = [queue EXCEPT ![l][v] = Append(@, m)]
       /\ sent' = Append(sent, m)
       /\ UNCHANGED <<topology, net, inter, units, lastVnet, scheduled, delivered>>

(* The orders in which a switch may look at its links: m_link_order, which is the *)
(* order of creation, by the identifier they lead to, unless routing is adaptive. *)
(* Then it is sorted by the links' loads, which getSize() caches for a cycle, and *)
(* a random number: any order.  Only the links that lead to some destination of   *)
(* the message are listed, the others make no difference.                         *)
OutLinks(s, dest) == {l \in Link : Source[l] = s /\ Routing[l] \cap dest # {}}

ByNumber(links) ==
    {order \in SetToSeqs(links) : \A i, j \in DOMAIN order : i < j => order[i][2] < order[j][2]}

(* Faulty variant: ordered virtual networks are routed adaptively too.            *)
LinkOrders_adaptive(links, v) == IF AdaptiveRouting THEN SetToSeqs(links) ELSE ByNumber(links)

LinkOrders(links, v) ==
    IF AdaptiveRouting /\ v \notin OrderedVNet THEN SetToSeqs(links) ELSE ByNumber(links)

(* Faulty variant: destinations handled by an earlier link are not removed.       *)
Share_overlapping(order, i, dest) == dest \cap Routing[order[i]]

(* What each link of the order gets: the destinations it leads to that no earlier *)
(* link has taken.                                                                *)
Share(order, i, dest) ==
    (dest \cap Routing[order[i]]) \ UNION {Routing[order[j]] : j \in 1 .. i - 1}

(* One message through PerfectSwitch::wakeup: a private copy on every link that   *)
(* has destinations for it.  wakeup() does so for all the ready messages of all   *)
(* in ports, in an order that rotates.                                            *)
Route(l, v) ==
    /\ queue[l][v] # <<>>
    /\ LET m == [Head(queue[l][v]) EXCEPT !.hops = @ + 1]
       IN \E order \in LinkOrders(OutLinks(Target[l], m.dest), v) :
            LET used == {i \in DOMAIN order : Share(order, i, m.dest) # {}}
                copy(i) == [m EXCEPT !.dest = Share(order, i, m.dest)]
            IN /\ inter' = [k \in Throttled |->
                    IF \E i \in used : order[i] = k
                    THEN [inter[k] EXCEPT ![v] = Append(@, copy(CHOOSE i \in used : order[i] = k))]
                    ELSE inter[k]]
               /\ scheduled' = scheduled \cup {order[i] : i \in used}
    /\ queue' = [queue EXCEPT ![l][v] = Tail(@)]
    /\ UNCHANGED <<topology, net, units, lastVnet, sent, delivered>>

--------------------------------------------------------------------------------
(* Throttle::wakeup.  Every message in its queues is taken to be ready: a wakeup  *)
(* that finds one not ready yet leaves that message's own event, and could as     *)
(* well have run before the switch routed the message.                            *)
Monus(a, b) == IF a > b THEN a - b ELSE 0

(* The while loop for one virtual network: while there is bandwidth, messages are *)
(* moved whole and their size is paid for, in later cycles too.  Moved is how     *)
(* many messages the loop moves when u is still to be paid for the previous one,  *)
(* Continues its condition after j of them, Paid what is left to pay of the last. *)
Paid(u, bw, k) == Monus(u + k * Size, bw)

Continues(u, bw, j) == u + j * Size < bw

Moved(u, bw, waiting) ==
    CHOOSE k \in 0 .. waiting :
        /\ \A j \in 0 .. k - 1 : Continues(u, bw, j)
        /\ k = waiting \/ ~Continues(u, bw, k)

(* Faulty variant: the priority does not rotate.                                  *)
NextVnet_stuck(v) == v

NextVnet(v) == (v + 1) % Cardinality(VNet)

(* One round of the for loop: w has what remains of the bandwidth, the link's     *)
(* share of the variables and how many messages of each network have been moved.  *)
VisitVnet(w, waiting) ==
    LET v == w.last
        u == w.units[v]
        k == Moved(u, w.bw, waiting[v] - w.moved[v])
    IN IF w.bw = 0 THEN w
       ELSE [bw |-> Monus(w.bw, u + k * Size),
             units |-> [w.units EXCEPT ![v] = Paid(u, w.bw, k)],
             last |-> NextVnet(v),
             moved |-> [w.moved EXCEPT ![v] = @ + k]]

(* The for loop visits the virtual networks in turn while bandwidth remains.      *)
Turns(l) ==
    LET waiting == [v \in VNet |-> Len(inter[l][v])]
        w[i \in 0 .. Cardinality(VNet)] ==
            IF i = 0
            THEN [bw |-> Bandwidth(l), units |-> units[l], last |-> lastVnet[l],
                  moved |-> [v \in VNet |-> 0]]
            ELSE VisitVnet(w[i - 1], waiting)
    IN w[Cardinality(VNet)]

(* Out of bandwidth, the throttle wakes up again in the next cycle.               *)
Rescheduled(l, bw) == IF bw = 0 THEN scheduled ELSE scheduled \ {l}

(* The queues of each virtual network, r behind q.                                *)
Behind(q, r) == [v \in VNet |-> q[v] \o r[v]]

WakeThrottle(l) ==
    /\ l \in scheduled
    /\ LET w == Turns(l)
           moved == [v \in VNet |-> SubSeq(inter[l][v], 1, w.moved[v])]
       IN /\ units' = [units EXCEPT ![l] = w.units]
          /\ lastVnet' = [lastVnet EXCEPT ![l] = w.last]
          /\ inter' = [inter EXCEPT ![l] =
                [v \in VNet |-> SubSeq(@[v], w.moved[v] + 1, Len(@[v]))]]
          /\ scheduled' = Rescheduled(l, w.bw)
          /\ \/ /\ Target[l] \in Node
                /\ delivered' = [delivered EXCEPT ![Target[l]] = Behind(@, moved)]
                /\ UNCHANGED queue
             \/ /\ Target[l] \notin Node
                /\ queue' = [queue EXCEPT ![l] = Behind(@, moved)]
                /\ UNCHANGED delivered
    /\ UNCHANGED <<topology, net, sent>>

(* What the event queue runs.                                                     *)
Work ==
    \/ \E l \in Link, v \in VNet : Route(l, v)
    \/ \E l \in Throttled : WakeThrottle(l)

Next ==
    \/ \E l \in Link, v \in VNet : \E dest \in Destinations[topology] : Send(l, v, dest)
    \/ Work

Spec == Init /\ [][Next]_vars

(* The simulator keeps running the event queue, in whatever order: weak fairness  *)
(* of Work, with its enabling condition written out.                              *)
HasWork == scheduled # {} \/ \E l \in Link, v \in VNet : queue[l][v] # <<>>

FairSpec == Spec /\ ([]<>~HasWork \/ []<><<sent' = sent>>_vars)
--------------------------------------------------------------------------------
(* Where copies of messages are: the queue a link leads to, the intermediate      *)
(* queue of its throttle, a node.                                                 *)
Place == ({"queue"} \X Link) \cup ({"inter"} \X Throttled) \cup ({"node"} \X Node)

Contents(place, v) ==
    CASE place[1] = "queue" -> queue[place[2]][v]
      [] place[1] = "inter" -> inter[place[2]][v]
      [] place[1] = "node" -> delivered[place[2]][v]

(* Every copy, as its place, virtual network and position.                        *)
Copies == UNION {{<<x, v, i>> : i \in DOMAIN Contents(x, v)} : x \in Place, v \in VNet}

Copy(c) == Contents(c[1], c[2])[c[3]]

(* Routing neither loses nor duplicates: at any time each destination of a        *)
(* multicast is in the internal destination of exactly one copy, wherever the     *)
(* message has been split, and a node receives only copies meant for it.          *)
ExactlyOneCopy ==
    /\ LET copies == Copies
       IN \A id \in 1 .. Len(sent) : \A n \in Node :
            Cardinality({c \in copies : Copy(c).id = id /\ n \in Copy(c).dest})
              = IF n \in sent[id].dest THEN 1 ELSE 0
    /\ \A n \in Node, v \in VNet : \A i \in DOMAIN delivered[n][v] :
          delivered[n][v][i].dest = {n}

(* Point-to-point order: on an ordered virtual network the messages of one node   *)
(* reach another in the order they were sent, on whichever links they travel and  *)
(* whatever else shares the bandwidth.                                            *)
PointToPointOrder ==
    \A n \in Node, v \in OrderedVNet : \A i, j \in DOMAIN delivered[n][v] :
        i < j /\ delivered[n][v][i].from = delivered[n][v][j].from
        => delivered[n][v][i].id < delivered[n][v][j].id

(* Adaptive or not, a message takes a shortest way: it passes as many switches as *)
(* lie between its sender and the receiver in the topology that was asked for.    *)
ShortestWay ==
    \A n \in Node, v \in VNet : \A i \in DOMAIN delivered[n][v] :
        delivered[n][v][i].hops = Hops(topology, delivered[n][v][i].from, n)

(* Every message reaches all its destinations, once no more are sent.             *)
AllDelivered ==
    <>[](\A id \in DOMAIN sent : \A n \in sent[id].dest : \E v \in VNet :
            \E i \in DOMAIN delivered[n][v] : delivered[n][v][i].id = id)
================================================================================
