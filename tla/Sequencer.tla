------------------------------ MODULE Sequencer ------------------------------
(* ruby/system/Sequencer.C for one block: the tables of outstanding requests *)
(* and the mandatory queue to the cache controller.                          *)
EXTENDS Integers, FiniteSets, NodeID

CONSTANTS
    CacheRequestType,             \* the request types the processors issue
    SequencerOutstandingRequests  \* SEQUENCER_OUTSTANDING_REQUESTS

ASSUME SequencerAssumption ==
    /\ CacheRequestType \subseteq {"LD", "IFETCH", "ST"}   \* ST stands for ST and ATOMIC
    /\ SequencerOutstandingRequests \in Nat

VARIABLES
    readRequestTable,   \* [Proc -> {"none", "LD", "IFETCH"}]
    writeRequestTable,  \* [Proc -> {"none", "ST"}]
    requestQueue        \* [Proc -> SUBSET CacheRequestType], the mandatory queue

sequencerVars == <<readRequestTable, writeRequestTable, requestQueue>>

SequencerInit ==
    /\ readRequestTable = [p \in Proc |-> "none"]
    /\ writeRequestTable = [p \in Proc |-> "none"]
    /\ requestQueue = [p \in Proc |-> {}]

SequencerTypeOK ==
    /\ readRequestTable \in [Proc -> {"none", "LD", "IFETCH"}]
    /\ writeRequestTable \in [Proc -> {"none", "ST"}]
    /\ requestQueue \in [Proc -> SUBSET {"LD", "IFETCH", "ST"}]

Outstanding(p) ==
    (IF readRequestTable[p] = "none" THEN 0 ELSE 1)
      + (IF writeRequestTable[p] = "none" THEN 0 ELSE 1)

(* A read may be issued while a write to the line is outstanding, and a      *)
(* write while a read is; never two of the same kind.                        *)
isReady(p, type) ==
    /\ Outstanding(p) < SequencerOutstandingRequests
    /\ IF type = "ST" THEN writeRequestTable[p] = "none"
                      ELSE readRequestTable[p] = "none"

(* Faulty variant: every request goes to the read table.                      *)
issueRequest_oneTable(p, type) ==
    /\ readRequestTable' = [readRequestTable EXCEPT ![p] = type]
    /\ UNCHANGED writeRequestTable
    /\ requestQueue' = [requestQueue EXCEPT ![p] = @ \cup {type}]

(* insertRequest and the enqueue on the mandatory queue.  insertRequest's    *)
(* "already present" branch cannot be taken: makeRequest asserts isReady.    *)
issueRequest(p, type) ==
    /\ IF type = "ST"
       THEN /\ writeRequestTable' = [writeRequestTable EXCEPT ![p] = type]
            /\ UNCHANGED readRequestTable
       ELSE /\ readRequestTable' = [readRequestTable EXCEPT ![p] = type]
            /\ UNCHANGED writeRequestTable
    /\ requestQueue' = [requestQueue EXCEPT ![p] = @ \cup {type}]

popMandatoryQueue(p, type) ==
    requestQueue' = [requestQueue EXCEPT ![p] = @ \ {type}]

readCallback(p) ==
    /\ readRequestTable' = [readRequestTable EXCEPT ![p] = "none"]
    /\ UNCHANGED writeRequestTable

writeCallback(p) ==
    /\ writeRequestTable' = [writeRequestTable EXCEPT ![p] = "none"]
    /\ UNCHANGED readRequestTable
=============================================================================
