----------------------------- MODULE CacheArrays -----------------------------
(* The mandatory queue of one L1 cache controller over several blocks:        *)
(* mandatoryQueue_in of MOESI_directory-cache.sm, which makes room in the     *)
(* three cache arrays (CacheMemory.C) and takes transaction buffers           *)
(* (TBETable.C), while the coherence protocol changes the blocks' states.     *)
(*                                                                            *)
(* L1CacheController follows one block through every message; here the        *)
(* messages are their effect on the state, and O stands for O_C and O_D, X    *)
(* for E, M and MM, which the arrays treat alike.                             *)
EXTENDS Integers, FiniteSets

CONSTANTS
    Address,                       \* line addresses
    SetOf,                         \* [Array -> [Address -> Nat]], addressToCacheSet
    Assoc,                         \* [Array -> Nat], m_cache_assoc
    NumberOfTBEs,                  \* NUMBER_OF_TBES
    SequencerOutstandingRequests,  \* SEQUENCER_OUTSTANDING_REQUESTS
    None                           \* no request

Array == {"L1I", "L1D", "L2"}

Stable == {"I", "S", "O", "X"}
Transient == {"IS", "IM", "SM", "OM", "II"}
State == {"NP"} \cup Stable \cup Transient

Request == [type : {"LD", "IFETCH", "ST"}, addr : Address]

ASSUME CacheArraysAssumption ==
    /\ IsFiniteSet(Address)
    /\ SetOf \in [Array -> [Address -> Nat]]
    /\ Assoc \in [Array -> Nat \ {0}]
    /\ NumberOfTBEs \in Nat \ {0}
    /\ SequencerOutstandingRequests \in Nat
    /\ None \notin Request

VARIABLES
    tags,         \* [Array -> SUBSET Address], the lines that are not NotPresent
    state,        \* [Address -> State], getState
    outstanding,  \* the requests in the sequencer's tables
    queue,        \* the requests in the mandatory queue
    head          \* the one at its head, once it has been looked at, or None

vars == <<tags, state, outstanding, queue, head>>

Init ==
    /\ tags = [array \in Array |-> {}]
    /\ state = [a \in Address |-> "NP"]
    /\ outstanding = {}
    /\ queue = {}
    /\ head = None

TypeOK ==
    /\ tags \in [Array -> SUBSET Address]
    /\ state \in [Address -> State]
    /\ outstanding \in SUBSET Request
    /\ queue \in SUBSET Request
    /\ head \in Request \cup {None}

------------------------------------------------------------------------------
(* The arrays.  A TBE exists while the block's state is transient.            *)

TBEs == {a \in Address : state[a] \in Transient}

areTBEsAvailable == Cardinality(TBEs) < NumberOfTBEs

SameSet(array, a) == {b \in tags[array] : SetOf[array][b] = SetOf[array][a]}

(* Faulty variant: one line too many.                                         *)
cacheAvail_offByOne(array, a) ==
    a \in tags[array] \/ Cardinality(SameSet(array, a)) <= Assoc[array]

cacheAvail(array, a) ==
    a \in tags[array] \/ Cardinality(SameSet(array, a)) < Assoc[array]

(* cacheProbe takes the line of the set with the least LastRef, which depends *)
(* on every access so far: any line of the set.                               *)
cacheProbe(array, a) == SameSet(array, a)

isTagPresent(a) == \E array \in Array : a \in tags[array]

move(a, from, to) ==
    tags' = [tags EXCEPT ![from] = @ \ {a}, ![to] = @ \cup {a}]

(* setState at the end of a transition that leaves the tags t: what getState  *)
(* returns from then on.                                                      *)
setState(t, a, s) ==
    /\ tags' = t
    /\ state' = [state EXCEPT ![a] =
                   IF s \in Transient \/ (\E array \in Array : a \in t[array])
                   THEN s ELSE "NP"]

------------------------------------------------------------------------------
(* What mandatoryQueue_in triggers for a request.                             *)

Primary(r) == IF r.type = "IFETCH" THEN "L1I" ELSE "L1D"
OtherL1(r) == IF r.type = "IFETCH" THEN "L1D" ELSE "L1I"

Event == [event : {"L1_to_L2", "L2_to_L1", "L2_Replacement", "Access"}, addr : Address]

Trigger(event, a) == [event |-> event, addr |-> a]

(* Room for a in the L2: its own place, or the place of a victim.             *)
ToL2(a) ==
    IF cacheAvail("L2", a) THEN {Trigger("L1_to_L2", a)}
    ELSE {Trigger("L2_Replacement", v) : v \in cacheProbe("L2", a)}

(* Faulty variant: the other L1 is not looked at.                             *)
First_skipped(r) == {}

(* The first statement of the port: the block is in the wrong L1.             *)
First(r) == IF r.addr \in tags[OtherL1(r)] THEN ToL2(r.addr) ELSE {}

(* The second, in which the request is served or room is made in its L1.      *)
Second(r) ==
    IF r.addr \in tags[Primary(r)] THEN {Trigger("Access", r.addr)}
    ELSE IF cacheAvail(Primary(r), r.addr)
         THEN {Trigger(IF r.addr \in tags["L2"] THEN "L2_to_L1" ELSE "Access", r.addr)}
         ELSE UNION {ToL2(v) : v \in cacheProbe(Primary(r), r.addr)}

(* A hit: a load in a readable state, a store in an exclusive one.            *)
Hits(r) ==
    IF r.type = "ST" THEN state[r.addr] = "X"
                     ELSE state[r.addr] \in {"S", "O", "X", "SM", "OM"}

Misses(r) ==
    state[r.addr] \in IF r.type = "ST" THEN {"NP", "I", "S", "O"} ELSE {"NP", "I"}

(* The transitions with i_allocateTBE, whose check_allocate makes them stall. *)
NeedsTBE(r, e) ==
    \/ e.event = "L2_Replacement" /\ state[e.addr] \in {"O", "X"}
    \/ e.event = "Access" /\ Misses(r)

ResourceStall(r, e) == NeedsTBE(r, e) /\ ~areTBEsAvailable

(* trigger() leaves the port when its transition is run.  When the transition *)
(* is stalled it goes on: the second statement follows the first.             *)
Triggers(r, e) ==
    /\ ~ResourceStall(r, e)
    /\ \/ e \in First(r)
       \/ /\ First(r) = {} \/ \E f \in First(r) : ResourceStall(r, f)
          /\ e \in Second(r)

------------------------------------------------------------------------------
(* The transitions.                                                           *)

(* Faulty variant: the request is lost.                                       *)
Recycle_drops ==
    /\ head' = None
    /\ queue' = queue \ {head}
    /\ UNCHANGED <<tags, state, outstanding>>

(* zz_recycleMandatoryQueue: the request comes back later.                    *)
Recycle ==
    /\ head' = None
    /\ UNCHANGED <<tags, state, outstanding, queue>>

Pop ==
    /\ head' = None
    /\ queue' = queue \ {head}

(* Faulty variant: a block in a transition is moved as well.                  *)
L1_to_L2_always(a) ==
    /\ move(a, IF a \in tags["L1D"] THEN "L1D" ELSE "L1I", "L2")
    /\ UNCHANGED <<state, outstanding, queue, head>>

L1_to_L2(a) ==
    IF state[a] \in Transient THEN Recycle
    ELSE /\ move(a, IF a \in tags["L1D"] THEN "L1D" ELSE "L1I", "L2")
         /\ UNCHANGED <<state, outstanding, queue, head>>

L2_to_L1(a) ==
    /\ move(a, "L2", Primary(head))
    /\ UNCHANGED <<state, outstanding, queue, head>>

(* Silent for I and S; O and X write back from a TBE.                         *)
L2_Replacement(a) ==
    IF state[a] \in Transient THEN Recycle
    ELSE /\ setState([tags EXCEPT !["L2"] = @ \ {a}], a,
                     IF state[a] \in {"O", "X"} THEN "II" ELSE "I")
         /\ UNCHANGED <<outstanding, queue, head>>

MissState(r) ==
    IF r.type # "ST" THEN "IS"
    ELSE CASE state[r.addr] = "S" -> "SM"
           [] state[r.addr] = "O" -> "OM"
           [] OTHER -> "IM"

(* Load, Ifetch and Store.  ii_ and jj_allocate allocate in the primary array *)
(* unless that array has the tag; from S and O nothing is allocated.          *)
Access(r) ==
    \/ /\ Hits(r)
       /\ Pop
       /\ outstanding' = outstanding \ {r}
       /\ UNCHANGED <<tags, state>>
    \/ /\ Misses(r)
       /\ setState(IF state[r.addr] \in {"NP", "I"}
                   THEN [tags EXCEPT ![Primary(r)] = @ \cup {r.addr}] ELSE tags,
                   r.addr, MissState(r))
       /\ Pop
       /\ UNCHANGED outstanding
    \/ /\ ~Hits(r) /\ ~Misses(r)
       /\ Recycle

(* The head of the queue is looked at, and keeps its place until it is popped *)
(* or recycled: later messages have later times.                              *)
Peek(r) ==
    /\ head = None
    /\ r \in queue
    /\ head' = r
    /\ UNCHANGED <<tags, state, outstanding, queue>>

Handle ==
    /\ head # None
    /\ \E e \in Event :
         /\ Triggers(head, e)
         /\ \/ e.event = "L1_to_L2" /\ L1_to_L2(e.addr)
            \/ e.event = "L2_to_L1" /\ L2_to_L1(e.addr)
            \/ e.event = "L2_Replacement" /\ L2_Replacement(e.addr)
            \/ e.event = "Access" /\ Access(head)

------------------------------------------------------------------------------
(* The processor: Sequencer::makeRequest on a miss of the fast path (which    *)
(* stores only take in MM).                                                   *)
IsRead(r) == r.type # "ST"

FastPath(r) ==
    IsRead(r) /\ r.addr \in tags[Primary(r)] /\ state[r.addr] \in {"S", "O", "X", "SM", "OM"}

MakeRequest(r) ==
    /\ Cardinality(outstanding) < SequencerOutstandingRequests
    /\ \A q \in outstanding : q.addr = r.addr => IsRead(q) # IsRead(r)
    /\ ~FastPath(r)
    /\ outstanding' = outstanding \cup {r}
    /\ queue' = queue \cup {r}
    /\ UNCHANGED <<tags, state, head>>

------------------------------------------------------------------------------
(* The other queues: what responses and forwarded requests do to a block.     *)

Becomes(a, s) == setState(tags, a, s) /\ UNCHANGED <<queue, head>>

DataForLoad(a) ==
    /\ state[a] = "IS"
    /\ \E s \in {"S", "X"} : Becomes(a, s)
    /\ outstanding' = {r \in outstanding : ~(r.addr = a /\ IsRead(r))}

DataForStore(a) ==
    /\ state[a] \in {"IM", "SM"}
    /\ Becomes(a, "OM")
    /\ UNCHANGED outstanding

All_acks(a) ==
    /\ state[a] = "OM"
    /\ Becomes(a, "X")
    /\ outstanding' = {r \in outstanding : ~(r.addr = a /\ ~IsRead(r))}

Writeback_Ack(a) ==
    /\ state[a] = "II"
    /\ Becomes(a, "I")
    /\ UNCHANGED outstanding

Inv(a) ==
    /\ \/ state[a] = "S" /\ Becomes(a, "I")
       \/ state[a] = "SM" /\ Becomes(a, "IM")
    /\ UNCHANGED outstanding

(* A GETX takes the block; a GETS makes E and M owned and takes MM.           *)
Forwarded(a) ==
    /\ \/ state[a] \in {"O", "X"} /\ Becomes(a, "I")
       \/ state[a] = "X" /\ Becomes(a, "O")
       \/ state[a] = "OM" /\ Becomes(a, "IM")
    /\ UNCHANGED outstanding

Next ==
    \/ \E r \in Request : MakeRequest(r)
    \/ \E r \in Request : Peek(r)
    \/ Handle
    \/ \E a \in Address :
          \/ DataForLoad(a)
          \/ DataForStore(a)
          \/ All_acks(a)
          \/ Writeback_Ack(a)
          \/ Inv(a)
          \/ Forwarded(a)

Spec == Init /\ [][Next]_vars

(* The controller is woken while requests wait, whichever is at the head, and *)
(* transactions complete (an upgrade falls back from OM to IM at most once).  *)
Fairness ==
    /\ WF_vars(Handle)
    /\ WF_vars(\E r \in Request : Peek(r))
    /\ \A a \in Address : /\ WF_vars(DataForLoad(a))
                          /\ WF_vars(DataForStore(a))
                          /\ SF_vars(All_acks(a))
                          /\ WF_vars(Writeback_Ack(a))

FairSpec == Spec /\ Fairness
------------------------------------------------------------------------------
(* getState's three assertions: a block is in at most one array.  It would    *)
(* not be if a request whose L2 replacement stalled for a TBE went on to      *)
(* allocate in its own L1; that it cannot is because every transition that    *)
(* allocates there needs a TBE too.                                           *)
Exclusion ==
    \A a \in Address : \A array, other \in Array :
        a \in tags[array] /\ a \in tags[other] => array = other

(* A block in the L2 is never in a transition: L2_to_L1D and L2_to_L1I have   *)
(* no transition from a transient state, and an L2 victim is never recycled   *)
(* for one.  A block without a tag is idle or being written back.             *)
L2IsStable ==
    \A a \in Address :
        /\ a \in tags["L2"] => state[a] \in Stable
        /\ ~isTagPresent(a) => state[a] \in {"NP", "II"}

(* The assertions of allocate in CacheMemory and TBETable: a set never holds  *)
(* more lines than its ways, and there are never more TBEs than              *)
(* NUMBER_OF_TBES.                                                            *)
WithinCapacity ==
    /\ \A array \in Array : \A a \in tags[array] :
          Cardinality(SameSet(array, a)) <= Assoc[array]
    /\ Cardinality(TBEs) <= NumberOfTBEs

(* Making room does not go round in circles, although it may replace what     *)
(* another request needs, or the request's own block, and wait for a TBE:     *)
(* while requests are outstanding, one after another completes.  (A given     *)
(* load may starve: each time the block arrives for a store of the line, and  *)
(* is lost to another processor before the load is looked at again.)          *)
RequestCompletes == \E r \in outstanding : r \notin outstanding'

RequestsComplete == <>[](outstanding # {}) => []<><<RequestCompletes>>_vars
==============================================================================
