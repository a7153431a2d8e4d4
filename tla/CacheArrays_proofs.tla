------------------------- MODULE CacheArrays_proofs -------------------------
(* Proofs about CacheArrays, for any addresses, sets, ways and TBEs: a block  *)
(* is in at most one array, a block in the L2 is in a stable state, and no    *)
(* set or TBE table holds more than it has room for.                          *)
EXTENDS CacheArrays, FiniteSetTheorems, TLAPS

(* A block has a tag unless it is idle or being written back.  L2IsStable has *)
(* one direction; that a block with a tag has a state other than NP and II is *)
(* needed to know that what moves to the L2 is in a stable state.             *)
TaggedHasState ==
    \A a \in Address : isTagPresent(a) => state[a] \notin {"NP", "II"}

IInv == TypeOK /\ Exclusion /\ L2IsStable /\ TaggedHasState

(* What a step does to one block, in terms of where its tag is.  Every proof  *)
(* below reduces to this: the tags are where[a] (a set of at most one array)  *)
(* and the state suits them.                                                  *)
Suits(where, s) ==
    /\ \A array, other \in where : array = other
    /\ "L2" \in where => s \in Stable
    /\ where = {} <=> s \in {"NP", "II"}

Where(t, a) == {array \in Array : a \in t[array]}

(* The invariant, block by block.                                             *)
LEMMA BlockByBlock ==
    ASSUME TypeOK
    PROVE  Exclusion /\ L2IsStable /\ TaggedHasState
             <=> \A a \in Address : Suits(Where(tags, a), state[a])
  BY DEF TypeOK, Exclusion, L2IsStable, TaggedHasState, Suits, Where, isTagPresent, Array

(* setState leaves the block in the state it is given, or NP without a tag.   *)
LEMMA SetStateBlock ==
    ASSUME TypeOK, NEW t \in [Array -> SUBSET Address], NEW a \in Address, NEW s \in State,
           setState(t, a, s)
    PROVE  /\ tags' = t
           /\ state' \in [Address -> State]
           /\ \A b \in Address : b # a => state'[b] = state[b]
           /\ s \in Transient \/ Where(t, a) # {} => state'[a] = s
           /\ s \notin Transient /\ Where(t, a) = {} => state'[a] = "NP"
  BY DEF TypeOK, setState, State, Where, Array

(* A step that changes one block, and leaves it suited, keeps the invariant.  *)
LEMMA OneBlock ==
    ASSUME IInv, TypeOK', NEW a \in Address,
           \A b \in Address : b # a => Where(tags', b) = Where(tags, b) /\ state'[b] = state[b],
           Suits(Where(tags', a), state'[a])
    PROVE  IInv'
  <1>1. \A b \in Address : Suits(Where(tags, b), state[b])
    BY BlockByBlock DEF IInv
  <1>2. \A b \in Address : Suits(Where(tags', b), state'[b])
    BY <1>1
  <1>3. (\A b \in Address : Suits(Where(tags, b), state[b]))'
    BY <1>2 DEF Suits, Where, Array
  <1>. QED
    BY <1>3 DEF IInv, TypeOK, Exclusion, L2IsStable, TaggedHasState, Suits, Where, isTagPresent, Array

LEMMA InitInvariant == Init => IInv
  BY DEF Init, IInv, TypeOK, Exclusion, L2IsStable, TaggedHasState, isTagPresent, Array, State

(* A full set is not empty, so it has a victim.                               *)
LEMMA VictimExists ==
    ASSUME NEW array \in Array, NEW a \in Address, ~cacheAvail(array, a)
    PROVE  cacheProbe(array, a) # {}
  <1>1. SameSet(array, a) = {} => Cardinality(SameSet(array, a)) = 0
    BY FS_EmptySet
  <1>. QED
    BY <1>1, CacheArraysAssumption DEF cacheAvail, cacheProbe

(* The triggers that make room: an L1 block to the L2, or a victim of the L2. *)
LEMMA RoomInL2 ==
    ASSUME NEW a \in Address
    PROVE  /\ ToL2(a) # {}
           /\ \A e \in ToL2(a) : \/ e = Trigger("L1_to_L2", a)
                                 \/ \E v \in tags["L2"] : e = Trigger("L2_Replacement", v)
  BY VictimExists DEF ToL2, cacheProbe, SameSet, Array

(* What each event that the port triggers says of its block.  For an Access   *)
(* that allocates, the interesting case is a block in the other L1: the first *)
(* statement has then been stalled for want of a TBE, and so is the Access.   *)
LEMMA TriggeredBlock ==
    ASSUME IInv, NEW r \in Request, NEW e \in Event, Triggers(r, e)
    PROVE  /\ e.event = "L1_to_L2" => e.addr \in tags["L1D"] \cup tags["L1I"]
           /\ e.event = "L2_to_L1" => e.addr \in tags["L2"]
           /\ e.event = "L2_Replacement" => e.addr \in tags["L2"]
           /\ e.event = "Access" => /\ e.addr = r.addr
                                    /\ e.addr \notin tags["L2"]
                                    /\ Misses(r) => e.addr \notin tags[OtherL1(r)]
  <1>. /\ r.addr \in Address /\ e.addr \in Address
       /\ Primary(r) \in {"L1D", "L1I"} /\ OtherL1(r) \in {"L1D", "L1I"}
       /\ tags \in [Array -> SUBSET Address]
       /\ Exclusion
    BY DEF Request, Event, Primary, OtherL1, IInv, TypeOK
  <1>1. CASE e \in First(r)
    <2>1. e \in ToL2(r.addr) /\ r.addr \in tags["L1D"] \cup tags["L1I"]
      BY <1>1 DEF First
    <2>. QED
      BY <2>1, RoomInL2 DEF Trigger
  <1>2. CASE e \in Second(r)
    <2>1. CASE \E v \in cacheProbe(Primary(r), r.addr) : e \in ToL2(v)
      <3>1. PICK v \in cacheProbe(Primary(r), r.addr) : e \in ToL2(v)
        BY <2>1
      <3>2. v \in Address /\ v \in tags["L1D"] \cup tags["L1I"]
        BY <3>1 DEF cacheProbe, SameSet, Array
      <3>. QED
        BY <3>1, <3>2, RoomInL2 DEF Trigger
    <2>2. CASE e = Trigger("L2_to_L1", r.addr) /\ r.addr \in tags["L2"]
      BY <2>2 DEF Trigger
    <2>3. CASE /\ e = Trigger("Access", r.addr)
               /\ r.addr \in tags[Primary(r)] \/ r.addr \notin tags["L2"]
      <3>1. e.event = "Access" /\ e.addr = r.addr
        BY <2>3 DEF Trigger
      <3>2. r.addr \notin tags["L2"]
        BY <2>3 DEF Exclusion, Array
      <3>3. ASSUME Misses(r), r.addr \in tags[OtherL1(r)] PROVE FALSE
        <4>1. First(r) = ToL2(r.addr) /\ First(r) # {}
          BY <3>3, RoomInL2 DEF First
        <4>2. e \notin ToL2(r.addr)
          BY <3>1, RoomInL2 DEF Trigger
        <4>3. \E f \in First(r) : ResourceStall(r, f)
          BY <4>1, <4>2 DEF Triggers
        <4>4. ~areTBEsAvailable
          BY <4>3 DEF ResourceStall
        <4>5. NeedsTBE(r, e)
          BY <3>1, <3>3 DEF NeedsTBE
        <4>. QED
          BY <4>4, <4>5 DEF Triggers, ResourceStall
      <3>. QED
        BY <3>1, <3>2, <3>3
    <2>. QED
      BY <1>2, <2>1, <2>2, <2>3 DEF Second
  <1>. QED
    BY <1>1, <1>2 DEF Triggers

------------------------------------------------------------------------------
(* One lemma per transition of the mandatory queue.                           *)

LEMMA RecycleInvariant ==
    ASSUME IInv, Recycle PROVE IInv'
  BY DEF IInv, TypeOK, Exclusion, L2IsStable, TaggedHasState, isTagPresent, Recycle

LEMMA L1_to_L2_Invariant ==
    ASSUME IInv, NEW a \in tags["L1D"] \cup tags["L1I"], L1_to_L2(a)
    PROVE  IInv'
  <1>. a \in Address /\ TypeOK
    BY DEF IInv, TypeOK, Array
  <1>1. CASE state[a] \in Transient
    BY <1>1, RecycleInvariant DEF L1_to_L2
  <1>2. CASE state[a] \notin Transient
    <2>. DEFINE from == IF a \in tags["L1D"] THEN "L1D" ELSE "L1I"
    <2>1. /\ tags' = [tags EXCEPT ![from] = @ \ {a}, !["L2"] = @ \cup {a}]
          /\ UNCHANGED <<state, outstanding, queue, head>>
      BY <1>2 DEF L1_to_L2, move
    <2>2. TypeOK'
      BY <2>1 DEF TypeOK, Array
    <2>3. \A b \in Address : b # a => Where(tags', b) = Where(tags, b)
      BY <2>1 DEF Where, TypeOK, Array
    <2>4. Where(tags', a) = {"L2"}
      BY <2>1 DEF Where, TypeOK, IInv, Exclusion, Array
    <2>5. state'[a] \in Stable
      BY <1>2, <2>1 DEF IInv, TypeOK, TaggedHasState, isTagPresent, State, Transient, Array
    <2>. QED
      BY <2>1, <2>2, <2>3, <2>4, <2>5, OneBlock DEF Suits, Stable
  <1>. QED
    BY <1>1, <1>2

LEMMA L2_to_L1_Invariant ==
    ASSUME IInv, NEW a \in tags["L2"], L2_to_L1(a)
    PROVE  IInv'
  <1>. a \in Address /\ TypeOK
    BY DEF IInv, TypeOK, Array
  <1>. Primary(head) \in {"L1D", "L1I"}
    BY DEF Primary
  <1>1. /\ tags' = [tags EXCEPT !["L2"] = @ \ {a}, ![Primary(head)] = @ \cup {a}]
        /\ UNCHANGED <<state, outstanding, queue, head>>
    BY DEF L2_to_L1, move
  <1>2. TypeOK'
    BY <1>1 DEF TypeOK, Array
  <1>3. \A b \in Address : b # a => Where(tags', b) = Where(tags, b)
    BY <1>1 DEF Where, TypeOK, Array
  <1>4. Where(tags', a) = {Primary(head)}
    BY <1>1 DEF Where, TypeOK, IInv, Exclusion, Array
  <1>5. state'[a] \in Stable
    BY <1>1 DEF IInv, L2IsStable
  <1>. QED
    BY <1>1, <1>2, <1>3, <1>4, <1>5, OneBlock DEF Suits, Stable

LEMMA L2_Replacement_Invariant ==
    ASSUME IInv, NEW a \in tags["L2"], L2_Replacement(a)
    PROVE  IInv'
  <1>. a \in Address /\ TypeOK
    BY DEF IInv, TypeOK, Array
  <1>. DEFINE t == [tags EXCEPT !["L2"] = @ \ {a}]
              s == IF state[a] \in {"O", "X"} THEN "II" ELSE "I"
  <1>1. setState(t, a, s) /\ UNCHANGED <<outstanding, queue, head>>
    BY DEF L2_Replacement, IInv, L2IsStable, Stable, Transient
  <1>2. t \in [Array -> SUBSET Address] /\ s \in State
    BY DEF TypeOK, Array, State, Stable, Transient
  <1>3. Where(t, a) = {} /\ \A b \in Address : b # a => Where(t, b) = Where(tags, b)
    BY DEF Where, TypeOK, IInv, Exclusion, Array
  <1>4. /\ tags' = t
        /\ state' \in [Address -> State]
        /\ \A b \in Address : b # a => state'[b] = state[b]
        /\ state'[a] \in {"NP", "II"}
    <2>. HIDE DEF t
    <2>. QED
      BY <1>1, <1>2, <1>3, SetStateBlock DEF Transient
  <1>5. TypeOK'
    BY <1>1, <1>2, <1>4 DEF TypeOK
  <1>. QED
    BY <1>3, <1>4, <1>5, OneBlock DEF Suits

(* A miss takes the block to a transient state, in its L1; a hit changes no   *)
(* block.                                                                     *)
LEMMA AccessInvariant ==
    ASSUME IInv, NEW r \in Request, Access(r), head = r,
           r.addr \notin tags["L2"],
           Misses(r) => r.addr \notin tags[OtherL1(r)]
    PROVE  IInv'
  <1>. DEFINE a == r.addr
  <1>. a \in Address /\ TypeOK
    BY DEF IInv, Request
  <1>. Primary(r) \in {"L1D", "L1I"} /\ {Primary(r), OtherL1(r), "L2"} = Array
    BY DEF Primary, OtherL1, Array
  <1>1. CASE Hits(r) /\ Pop /\ outstanding' = outstanding \ {r} /\ UNCHANGED <<tags, state>>
    BY <1>1 DEF IInv, TypeOK, Exclusion, L2IsStable, TaggedHasState, isTagPresent, Pop
  <1>2. CASE ~Hits(r) /\ ~Misses(r) /\ Recycle
    BY <1>2, RecycleInvariant
  <1>3. CASE Misses(r) /\ Pop /\ UNCHANGED outstanding
    <2>. DEFINE t == IF state[a] \in {"NP", "I"}
                     THEN [tags EXCEPT ![Primary(r)] = @ \cup {a}] ELSE tags
    <2>0. Misses(r) /\ setState(t, a, MissState(r))
      BY <1>3 DEF Access, Recycle, Pop, Misses, Hits, Request
    <2>1. MissState(r) \in {"IS", "IM", "SM", "OM"}
      BY DEF MissState
    <2>2. t \in [Array -> SUBSET Address]
      BY DEF TypeOK, Array
    <2>3. /\ Where(t, a) = {Primary(r)}
          /\ \A b \in Address : b # a => Where(t, b) = Where(tags, b)
      <3>1. state[a] \notin {"NP", "I"} => a \in tags[Primary(r)]
        BY <2>0 DEF Misses, IInv, L2IsStable, isTagPresent
      <3>. QED
        BY <2>0, <3>1 DEF Where, TypeOK, Array
    <2>4. /\ tags' = t
          /\ state' \in [Address -> State]
          /\ \A b \in Address : b # a => state'[b] = state[b]
          /\ state'[a] = MissState(r)
      <3>. HIDE DEF t
      <3>. QED
        BY <2>0, <2>1, <2>2, SetStateBlock DEF Transient, State
    <2>5. TypeOK'
      BY <1>3, <2>2, <2>4 DEF TypeOK, Pop
    <2>. HIDE DEF t
    <2>. QED
      BY <2>1, <2>3, <2>4, <2>5, OneBlock DEF Suits
  <1>. QED
    BY <1>1, <1>2, <1>3 DEF Access

LEMMA HandleInvariant ==
    ASSUME IInv, Handle PROVE IInv'
  <1>1. PICK e \in Event :
          /\ Triggers(head, e)
          /\ \/ e.event = "L1_to_L2" /\ L1_to_L2(e.addr)
             \/ e.event = "L2_to_L1" /\ L2_to_L1(e.addr)
             \/ e.event = "L2_Replacement" /\ L2_Replacement(e.addr)
             \/ e.event = "Access" /\ Access(head)
    BY DEF Handle
  <1>2. head \in Request
    BY DEF Handle, IInv, TypeOK
  <1>3. /\ e.event = "L1_to_L2" => e.addr \in tags["L1D"] \cup tags["L1I"]
        /\ e.event = "L2_to_L1" => e.addr \in tags["L2"]
        /\ e.event = "L2_Replacement" => e.addr \in tags["L2"]
        /\ e.event = "Access" => /\ e.addr = head.addr
                                 /\ e.addr \notin tags["L2"]
                                 /\ Misses(head) => e.addr \notin tags[OtherL1(head)]
    BY <1>1, <1>2, TriggeredBlock
  <1>4. CASE e.event = "L1_to_L2" /\ L1_to_L2(e.addr)
    BY <1>3, <1>4, L1_to_L2_Invariant
  <1>5. CASE e.event = "L2_to_L1" /\ L2_to_L1(e.addr)
    BY <1>3, <1>5, L2_to_L1_Invariant
  <1>6. CASE e.event = "L2_Replacement" /\ L2_Replacement(e.addr)
    BY <1>3, <1>6, L2_Replacement_Invariant
  <1>7. CASE e.event = "Access" /\ Access(head)
    BY <1>2, <1>3, <1>7, AccessInvariant
  <1>. QED
    BY <1>1, <1>4, <1>5, <1>6, <1>7

------------------------------------------------------------------------------
(* The other queues change the state of a block and leave its tag.            *)

LEMMA BecomesInvariant ==
    ASSUME IInv, NEW a \in Address, NEW s \in State, Becomes(a, s),
           outstanding' \in SUBSET Request,
           \/ state[a] = "II" /\ s \notin Transient
           \/ state[a] \in Stable /\ s \in Stable
           \/ state[a] \in Transient \ {"II"} /\ s \notin {"NP", "II"}
    PROVE  IInv'
  <1>. TypeOK
    BY DEF IInv
  <1>1. /\ setState(tags, a, s)
        /\ UNCHANGED <<queue, head>>
    BY DEF Becomes
  <1>2. /\ UNCHANGED tags
        /\ state' \in [Address -> State]
        /\ \A b \in Address : b # a => state'[b] = state[b]
        /\ s \in Transient \/ Where(tags, a) # {} => state'[a] = s
        /\ s \notin Transient /\ Where(tags, a) = {} => state'[a] = "NP"
    BY <1>1, SetStateBlock DEF TypeOK
  <1>3. TypeOK'
    BY <1>1, <1>2 DEF TypeOK
  <1>4. Suits(Where(tags, a), state[a])
    BY BlockByBlock DEF IInv
  <1>5. Suits(Where(tags, a), state'[a])
    BY <1>2, <1>4 DEF Suits, Stable, Transient
  <1>. QED
    BY <1>2, <1>3, <1>5, OneBlock

LEMMA ResponseInvariant ==
    ASSUME IInv, NEW a \in Address,
           DataForLoad(a) \/ DataForStore(a) \/ All_acks(a) \/ Writeback_Ack(a)
    PROVE  IInv'
  <1>0. outstanding' \in SUBSET Request
    BY DEF DataForLoad, DataForStore, All_acks, Writeback_Ack, IInv, TypeOK
  <1>1. CASE DataForLoad(a)
    BY <1>0, <1>1, BecomesInvariant DEF DataForLoad, State, Stable, Transient
  <1>2. CASE DataForStore(a)
    BY <1>0, <1>2, BecomesInvariant DEF DataForStore, State, Stable, Transient
  <1>3. CASE All_acks(a)
    BY <1>0, <1>3, BecomesInvariant DEF All_acks, State, Stable, Transient
  <1>4. CASE Writeback_Ack(a)
    BY <1>0, <1>4, BecomesInvariant DEF Writeback_Ack, State, Stable, Transient
  <1>. QED
    BY <1>1, <1>2, <1>3, <1>4

LEMMA ForwardedRequestInvariant ==
    ASSUME IInv, NEW a \in Address, Inv(a) \/ Forwarded(a)
    PROVE  IInv'
  <1>0. outstanding' \in SUBSET Request
    BY DEF Inv, Forwarded, IInv, TypeOK
  <1>1. CASE Inv(a)
    BY <1>0, <1>1, BecomesInvariant DEF Inv, State, Stable, Transient
  <1>2. CASE Forwarded(a)
    BY <1>0, <1>2, BecomesInvariant DEF Forwarded, State, Stable, Transient
  <1>. QED
    BY <1>1, <1>2

LEMMA NextInvariant ==
    ASSUME IInv, [Next]_vars PROVE IInv'
  <1>1. CASE \E r \in Request : MakeRequest(r)
    BY <1>1 DEF MakeRequest, IInv, TypeOK, Exclusion, L2IsStable, TaggedHasState, isTagPresent
  <1>2. CASE \E r \in Request : Peek(r)
    BY <1>2 DEF Peek, IInv, TypeOK, Exclusion, L2IsStable, TaggedHasState, isTagPresent
  <1>3. CASE UNCHANGED vars
    BY <1>3 DEF vars, IInv, TypeOK, Exclusion, L2IsStable, TaggedHasState, isTagPresent
  <1>. QED
    BY <1>1, <1>2, <1>3, HandleInvariant, ResponseInvariant, ForwardedRequestInvariant DEF Next

LEMMA Invariance == Spec => []IInv
  BY InitInvariant, NextInvariant, PTL DEF Spec

------------------------------------------------------------------------------
(* The assertions of getState and setState never fail: whatever the sizes of  *)
(* the arrays and the number of TBEs, a block is in at most one array.        *)
THEOREM ArraysAreExclusive == Spec => []Exclusion
  <1>1. IInv => Exclusion
    BY DEF IInv
  <1>. QED
    BY <1>1, Invariance, PTL

(* The transitions L2_to_L1D and L2_to_L1I that a block in the L2 triggers    *)
(* exist: such a block is in a stable state.                                  *)
THEOREM L2BlocksAreStable == Spec => []L2IsStable
  <1>1. IInv => L2IsStable
    BY DEF IInv
  <1>. QED
    BY <1>1, Invariance, PTL

------------------------------------------------------------------------------
(* Capacity.  An array or the TBE table grows by at most one block in a step, *)
(* and only when there is room.                                               *)

ArrayGrowsWithin(array) ==
    \/ tags'[array] \subseteq tags[array]
    \/ \E a \in Address : /\ cacheAvail(array, a)
                          /\ tags'[array] \subseteq tags[array] \cup {a}

TBEsGrowWithin ==
    \/ TBEs' \subseteq TBEs
    \/ areTBEsAvailable /\ \E a \in Address : TBEs' \subseteq TBEs \cup {a}

(* The form of WithinCapacity that is inductive: every set, empty or not.     *)
Capacity ==
    /\ \A array \in Array : \A a \in Address :
          Cardinality(SameSet(array, a)) <= Assoc[array]
    /\ Cardinality(TBEs) <= NumberOfTBEs

(* Room in an array of which a block is part, or for one more block.          *)
LEMMA TriggeredHasRoom ==
    ASSUME IInv, NEW r \in Request, NEW e \in Event, Triggers(r, e)
    PROVE  /\ e.event = "L1_to_L2" => cacheAvail("L2", e.addr)
           /\ e.event \in {"L2_to_L1", "Access"} =>
                 e.addr = r.addr /\ cacheAvail(Primary(r), e.addr)
  <1>1. \A a \in Address : \A f \in ToL2(a) :
          \/ f.event = "L1_to_L2" /\ f.addr = a /\ cacheAvail("L2", a)
          \/ f.event = "L2_Replacement"
    BY DEF ToL2, Trigger
  <1>2. CASE e \in First(r)
    BY <1>1, <1>2 DEF First, Request
  <1>3. CASE e \in Second(r)
    <2>1. CASE \E v \in cacheProbe(Primary(r), r.addr) : e \in ToL2(v)
      BY <1>1, <2>1 DEF cacheProbe, SameSet, IInv, TypeOK, Array, Primary
    <2>2. CASE /\ e.event \in {"L2_to_L1", "Access"} /\ e.addr = r.addr
               /\ r.addr \in tags[Primary(r)] \/ cacheAvail(Primary(r), r.addr)
      BY <2>2 DEF cacheAvail
    <2>. QED
      BY <1>3, <2>1, <2>2 DEF Second, Trigger
  <1>. QED
    BY <1>2, <1>3 DEF Triggers

(* setState of one block adds at most that block to the TBEs.                 *)
LEMMA SetStateTBEs ==
    ASSUME TypeOK, NEW t, NEW a \in Address, NEW s, setState(t, a, s)
    PROVE  /\ TBEs' \subseteq TBEs \cup {a}
           /\ s \notin Transient \/ state[a] \in Transient => TBEs' \subseteq TBEs
  BY DEF TypeOK, setState, TBEs, Transient

LEMMA HandleWithin ==
    ASSUME IInv, Handle
    PROVE  (\A array \in Array : ArrayGrowsWithin(array)) /\ TBEsGrowWithin
  <1>. TypeOK
    BY DEF IInv
  <1>1. PICK e \in Event :
          /\ Triggers(head, e)
          /\ \/ e.event = "L1_to_L2" /\ L1_to_L2(e.addr)
             \/ e.event = "L2_to_L1" /\ L2_to_L1(e.addr)
             \/ e.event = "L2_Replacement" /\ L2_Replacement(e.addr)
             \/ e.event = "Access" /\ Access(head)
    BY DEF Handle
  <1>2. head \in Request /\ e.addr \in Address /\ head.addr \in Address
    BY DEF Handle, IInv, TypeOK, Event, Request
  <1>3. /\ e.event = "L1_to_L2" => cacheAvail("L2", e.addr)
        /\ e.event \in {"L2_to_L1", "Access"} =>
              e.addr = head.addr /\ cacheAvail(Primary(head), e.addr)
    BY <1>1, <1>2, TriggeredHasRoom
  <1>4. ~ResourceStall(head, e)
    BY <1>1 DEF Triggers
  <1>5. ASSUME UNCHANGED <<tags, state>>
        PROVE  (\A array \in Array : ArrayGrowsWithin(array)) /\ TBEsGrowWithin
    BY <1>5 DEF ArrayGrowsWithin, TBEsGrowWithin, TBEs
  <1>6. CASE e.event = "L1_to_L2" /\ L1_to_L2(e.addr)
    <2>1. CASE Recycle
      BY <2>1, <1>5 DEF Recycle
    <2>2. CASE /\ move(e.addr, IF e.addr \in tags["L1D"] THEN "L1D" ELSE "L1I", "L2")
               /\ UNCHANGED state
      BY <1>2, <1>3, <1>6, <2>2
      DEF move, ArrayGrowsWithin, TBEsGrowWithin, TBEs, TypeOK, Array
    <2>. QED
      BY <1>6, <2>1, <2>2 DEF L1_to_L2
  <1>7. CASE e.event = "L2_to_L1" /\ L2_to_L1(e.addr)
    <2>1. move(e.addr, "L2", Primary(head)) /\ UNCHANGED state
      BY <1>7 DEF L2_to_L1
    <2>. QED
      BY <1>2, <1>3, <1>7, <2>1
      DEF move, ArrayGrowsWithin, TBEsGrowWithin, TBEs, TypeOK, Array, Primary
  <1>8. CASE e.event = "L2_Replacement" /\ L2_Replacement(e.addr)
    <2>1. CASE Recycle
      BY <2>1, <1>5 DEF Recycle
    <2>2. CASE setState([tags EXCEPT !["L2"] = @ \ {e.addr}], e.addr,
                        IF state[e.addr] \in {"O", "X"} THEN "II" ELSE "I")
      <3>1. \A array \in Array : ArrayGrowsWithin(array)
        BY <2>2 DEF setState, ArrayGrowsWithin, TypeOK, Array
      <3>2. CASE state[e.addr] \in {"O", "X"}
        <4>1. areTBEsAvailable
          BY <1>4, <1>8, <3>2 DEF ResourceStall, NeedsTBE
        <4>. QED
          BY <1>2, <2>2, <3>1, <4>1, SetStateTBEs DEF TBEsGrowWithin
      <3>3. CASE state[e.addr] \notin {"O", "X"}
        BY <1>2, <2>2, <3>1, <3>3, SetStateTBEs DEF TBEsGrowWithin, Transient
      <3>. QED
        BY <3>2, <3>3
    <2>. QED
      BY <1>8, <2>1, <2>2 DEF L2_Replacement
  <1>9. CASE e.event = "Access" /\ Access(head)
    <2>1. CASE UNCHANGED <<tags, state>>
      BY <2>1, <1>5
    <2>2. CASE /\ Misses(head)
               /\ setState(IF state[head.addr] \in {"NP", "I"}
                           THEN [tags EXCEPT ![Primary(head)] = @ \cup {head.addr}] ELSE tags,
                           head.addr, MissState(head))
      <3>1. areTBEsAvailable
        BY <1>4, <1>9, <2>2 DEF ResourceStall, NeedsTBE
      <3>2. \A array \in Array : ArrayGrowsWithin(array)
        BY <1>2, <1>3, <1>9, <2>2 DEF setState, ArrayGrowsWithin, TypeOK, Array, Primary
      <3>. QED
        BY <1>2, <2>2, <3>1, <3>2, SetStateTBEs DEF TBEsGrowWithin
    <2>. QED
      BY <1>9, <2>1, <2>2 DEF Access, Recycle
  <1>. QED
    BY <1>1, <1>6, <1>7, <1>8, <1>9

LEMMA NextWithin ==
    ASSUME IInv, [Next]_vars
    PROVE  (\A array \in Array : ArrayGrowsWithin(array)) /\ TBEsGrowWithin
  <1>. TypeOK
    BY DEF IInv
  <1>1. CASE UNCHANGED <<tags, state>>
    BY <1>1 DEF ArrayGrowsWithin, TBEsGrowWithin, TBEs
  <1>2. ASSUME NEW a \in Address, NEW s, setState(tags, a, s),
               s \notin Transient \/ state[a] \in Transient
        PROVE  (\A array \in Array : ArrayGrowsWithin(array)) /\ TBEsGrowWithin
    BY <1>2, SetStateTBEs DEF ArrayGrowsWithin, TBEsGrowWithin, setState
  <1>3. CASE \E a \in Address : DataForLoad(a) \/ DataForStore(a) \/ All_acks(a)
    BY <1>2, <1>3 DEF DataForLoad, DataForStore, All_acks, Becomes, Transient
  <1>4. CASE \E a \in Address : Writeback_Ack(a) \/ Inv(a) \/ Forwarded(a)
    BY <1>2, <1>4 DEF Writeback_Ack, Inv, Forwarded, Becomes, Transient
  <1>. QED
    BY <1>1, <1>3, <1>4, HandleWithin DEF Next, MakeRequest, Peek, vars

(* One more block in a finite set of blocks.                                  *)
LEMMA OneMore ==
    ASSUME NEW T, IsFiniteSet(T), NEW U, NEW a, U \subseteq T \cup {a}
    PROVE  Cardinality(U) \in Nat /\ Cardinality(T) \in Nat
           /\ Cardinality(U) <= Cardinality(T) + 1
           /\ (U \subseteq T => Cardinality(U) <= Cardinality(T))
  <1>1. IsFiniteSet(T \cup {a}) /\ Cardinality(T \cup {a}) <= Cardinality(T) + 1
        /\ Cardinality(T) \in Nat
    BY FS_AddElement, FS_CardinalityType
  <1>2. Cardinality(T \cup {a}) \in Nat
    BY <1>1, FS_CardinalityType
  <1>3. Cardinality(U) <= Cardinality(T \cup {a}) /\ IsFiniteSet(U)
    BY <1>1, FS_Subset
  <1>4. U \subseteq T => Cardinality(U) <= Cardinality(T)
    BY FS_Subset
  <1>5. Cardinality(U) \in Nat
    BY <1>3, FS_CardinalityType
  <1>. QED
    BY <1>1, <1>2, <1>3, <1>4, <1>5

LEMMA CapacityStep ==
    ASSUME IInv, IInv', Capacity,
           \A array \in Array : ArrayGrowsWithin(array), TBEsGrowWithin
    PROVE  Capacity'
  <1>1. ASSUME NEW array \in Array, NEW c \in Address
        PROVE  Cardinality(SameSet(array, c)') <= Assoc[array]
    <2>. DEFINE T == SameSet(array, c)
                U == SameSet(array, c)'
    <2>1. IsFiniteSet(T) /\ Assoc[array] \in Nat /\ Cardinality(T) <= Assoc[array]
      <3>1. T \subseteq Address
        BY DEF SameSet, IInv, TypeOK
      <3>. QED
        BY <3>1, FS_Subset, CacheArraysAssumption DEF Capacity
    <2>2. CASE tags'[array] \subseteq tags[array]
      <3>1. U \subseteq T \cup {c} /\ U \subseteq T
        BY <2>2 DEF SameSet
      <3>. HIDE DEF T, U
      <3>2. Cardinality(U) \in Nat /\ Cardinality(T) \in Nat /\ Cardinality(U) <= Cardinality(T)
        BY <2>1, <3>1, OneMore
      <3>. QED
        BY <2>1, <3>2 DEF U
    <2>3. ASSUME NEW a \in Address, cacheAvail(array, a),
                 tags'[array] \subseteq tags[array] \cup {a}
          PROVE  Cardinality(U) <= Assoc[array]
      <3>1. U \subseteq T \cup {a}
        BY <2>3 DEF SameSet
      <3>2. U \subseteq T \/ Cardinality(T) < Assoc[array]
        <4>1. CASE a \in tags[array] \/ SetOf[array][a] # SetOf[array][c]
          BY <2>3, <4>1 DEF SameSet
        <4>2. CASE a \notin tags[array] /\ SetOf[array][a] = SetOf[array][c]
          <5>1. T = SameSet(array, a)
            BY <4>2 DEF SameSet
          <5>. QED
            BY <2>3, <4>2, <5>1 DEF cacheAvail
        <4>. QED
          BY <4>1, <4>2
      <3>. HIDE DEF T, U
      <3>3. /\ Cardinality(U) \in Nat /\ Cardinality(T) \in Nat
            /\ Cardinality(U) <= Cardinality(T) + 1
            /\ U \subseteq T => Cardinality(U) <= Cardinality(T)
        BY <2>1, <3>1, OneMore
      <3>. QED
        BY <2>1, <3>2, <3>3
    <2>. QED
      BY <2>2, <2>3 DEF ArrayGrowsWithin
  <1>2. Cardinality(TBEs') <= NumberOfTBEs
    <2>1. IsFiniteSet(TBEs) /\ NumberOfTBEs \in Nat /\ Cardinality(TBEs) <= NumberOfTBEs
      <3>1. TBEs \subseteq Address
        BY DEF TBEs
      <3>. QED
        BY <3>1, FS_Subset, CacheArraysAssumption DEF Capacity
    <2>. DEFINE T == TBEs
                U == TBEs'
    <2>2. PICK a : U \subseteq T \cup {a} /\ (U \subseteq T \/ areTBEsAvailable)
      BY DEF TBEsGrowWithin
    <2>. HIDE DEF T, U
    <2>3. /\ Cardinality(U) \in Nat /\ Cardinality(T) \in Nat
          /\ Cardinality(U) <= Cardinality(T) + 1
          /\ U \subseteq T => Cardinality(U) <= Cardinality(T)
      BY <2>1, <2>2, OneMore DEF T
    <2>4. areTBEsAvailable => Cardinality(T) < NumberOfTBEs
      BY DEF areTBEsAvailable, T
    <2>. QED
      BY <2>1, <2>2, <2>3, <2>4 DEF T, U
  <1>. QED
    BY <1>1, <1>2 DEF Capacity, SameSet, TBEs

LEMMA InitCapacity == Init => Capacity
  <1>. SUFFICES ASSUME Init PROVE Capacity
    OBVIOUS
  <1>1. TBEs = {} /\ \A array \in Array, a \in Address : SameSet(array, a) = {}
    BY DEF Init, TBEs, SameSet, Transient
  <1>2. Cardinality(TBEs) = 0
    BY <1>1, FS_EmptySet
  <1>3. ASSUME NEW array \in Array, NEW a \in Address
        PROVE  Cardinality(SameSet(array, a)) = 0
    <2>1. SameSet(array, a) = {}
      BY <1>1
    <2>. QED
      BY <2>1, FS_EmptySet
  <1>4. NumberOfTBEs \in Nat /\ \A array \in Array : Assoc[array] \in Nat
    BY CacheArraysAssumption
  <1>. QED
    BY <1>2, <1>3, <1>4 DEF Capacity

(* The assertions of allocate in CacheMemory and TBETable never fail, whatever*)
(* the geometry of the caches and however many TBEs there are.                *)
THEOREM ArraysStayWithinCapacity == Spec => []WithinCapacity
  <1>1. IInv /\ Capacity => WithinCapacity
    BY DEF IInv, TypeOK, Capacity, WithinCapacity
  <1>2. IInv /\ IInv' /\ Capacity /\ [Next]_vars => Capacity'
    BY NextWithin, CapacityStep
  <1>. QED
    BY <1>1, <1>2, InitCapacity, Invariance, PTL DEF Spec
=============================================================================
