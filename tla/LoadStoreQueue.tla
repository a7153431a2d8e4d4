--------------------------- MODULE LoadStoreQueue ---------------------------
(***************************************************************************)
(* The searches of the load/store queue (src/pyrite/LoadStoreQueue.cpp).   *)
(* The queue keeps, per aligned double word, its instructions newest       *)
(* first; "inst" maps the q pointers of the window to instructions and     *)
(* "lsq" is the set of those inserted, so a list is lsq restricted to one  *)
(* word, in q order.                                                       *)
(***************************************************************************)
EXTENDS DoubleWord, Sequences, FiniteSetsExt, Folds

CONSTANTS WordOf,   \* byte address -> aligned double word
          LineOf    \* byte address -> cache line

NoQ == -1

Operand(i) == [ext |-> i.ext, val |-> i.val]

(* DynamicInst::isMemoryIssued *)
MemoryIssued(i) == i.stage \in {"MEMORY", "COMPLETE", "RETIRE"}

(* The list of the double word that q's operand lies in. *)
ListOf(inst, lsq, q) ==
  {p \in lsq : \E b \in inst[q].ext, x \in inst[p].ext : WordOf[b] = WordOf[x]}

(* The older stores of q's list. *)
OlderStores(inst, lsq, q) ==
  {p \in ListOf(inst, lsq, q) : p < q /\ inst[p].uop.op = "st"}

(* The first store loadSearch meets, oldest first, that overlaps the load  *)
(* and has not issued: the load goes on its wait list.                     *)
BlockingStore(inst, lsq, q) ==
  LET blockers == {p \in OlderStores(inst, lsq, q) :
                     /\ ~MemoryIssued(inst[p])
                     /\ Overlaps(Operand(inst[q]), Operand(inst[p]))}
  IN  IF blockers = {} THEN NoQ ELSE Min(blockers)

(* Apply op to the instructions of Q in increasing q order. *)
InOrder(op(_, _), init, Q) ==
  MapThenFoldSet(LAMBDA q, acc : op(acc, q), init, LAMBDA q : q, Max, Q)

(* What loadSearch leaves in "result": every older store overlaid in turn. *)
LoadSearch(inst, lsq, q) ==
  InOrder(LAMBDA dw, p : Overlay(Operand(inst[p]), dw),
          Operand(inst[q]), OlderStores(inst, lsq, q))


(* LoadStoreQueue::storeSearch: the oldest younger load that has a value   *)
(* and whose value is not what the store and the stores between them       *)
(* supply.                                                                 *)
StoreSearch(inst, lsq, q) ==
  LET list == ListOf(inst, lsq, q)
      seen(p) == InOrder(LAMBDA dw, s : Overlay(Operand(inst[s]), dw),
                         Operand(inst[q]),
                         {s \in list : q <= s /\ s < p /\ inst[s].uop.op = "st"})
      wrong == {p \in list : /\ q < p
                             /\ inst[p].uop.op = "ld"
                             /\ MemoryIssued(inst[p])
                             /\ ~OverlapMatches(Operand(inst[p]), seen(p))}
  IN  IF wrong = {} THEN NoQ ELSE Min(wrong)

(* LoadStoreQueue::invalidationSearch: the oldest issued load of the line. *)
InvalidationSearch(inst, lsq, line) ==
  LET hit == {p \in lsq : /\ inst[p].uop.op = "ld"
                          /\ MemoryIssued(inst[p])
                          /\ \E b \in inst[p].ext : LineOf[b] = line}
  IN  IF hit = {} THEN NoQ ELSE Min(hit)

=============================================================================
