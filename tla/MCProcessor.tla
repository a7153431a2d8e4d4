---------------------------- MODULE MCProcessor ----------------------------
(* Programs for the processor: four bytes in two double words.  Byte 5 has *)
(* no translation.                                                         *)
EXTENDS Processor

CONSTANT Suite   \* which set of programs

Same(x) == [c \in BOOLEAN |-> x]
Uop(op, at) == [op |-> op, at |-> at, val |-> Same(0), target |-> 0, reads |-> "none", part |-> "all"]
Ld(S) == Uop("ld", Same(S))
St(S, v) == [Uop("st", Same(S)) EXCEPT !.val = Same(v)]
StVia(S, T, v) == [Uop("st", [c \in BOOLEAN |-> IF c THEN T ELSE S])
                     EXCEPT !.val = Same(v), !.reads = "addr"]
StReg(S, v) == [Uop("st", Same(S)) EXCEPT !.val = [c \in BOOLEAN |-> IF c THEN v + 1 ELSE v],
                                          !.reads = "data"]
LdVia(S, T) == [Uop("ld", [c \in BOOLEAN |-> IF c THEN T ELSE S]) EXCEPT !.reads = "addr"]
Br(t) == [Uop("br", Same({})) EXCEPT !.target = t, !.reads = "addr"]
Chk == [Uop("chk", Same({})) EXCEPT !.reads = "addr"]
Nop == Uop("nop", Same({}))
Illegal == Uop("illegal", Same({}))

Accesses == {{1}, {2}, {1, 2}}

(* The store's address waits for the first load; the second load may run   *)
(* ahead of it, and what follows depends on the second load.               *)
Ordering ==
  {<< <<Ld({3})>>, <<StVia(S, {3}, 1)>>, <<Ld(T)>> >> : S, T \in Accesses}
  \cup {<< <<Ld({3})>>, <<StVia(S, {3}, 1)>>, <<Ld({1}), Chk, St({2}, 2)>> >> : S \in {{1}, {2}}}
(* Forwarding from two stores, one of which waits for its data. *)
Forwarding ==
  {<< <<StReg(S, 1), Nop>>, <<St(T, 2)>>, <<Ld({1, 2})>> >> : S, T \in Accesses}
  \cup {<< <<Ld({2})>>, <<StReg({1}, 1)>>, <<Ld({1, 2})>> >>}
(* Branches, instructions that do not decode, have no translation or are   *)
(* not legal, and an access that crosses a double word.                    *)
Control ==
  { << <<St({1}, 1)>>, <<Ld({1}), Br(4)>>, <<St({1}, 2)>>, <<Ld({1})>> >>,
    << <<Ld({1})>>, <<Br(4)>>, <<LdVia({5}, {1})>>, <<>>, <<St({1}, 1)>> >>,
    << <<St({2}, 3)>>, <<Ld({2, 3})>>, <<St({2, 3}, 1)>> >>,
    << <<St({1}, 1)>>, <<Illegal, Nop>>, <<Ld({1})>> >>}

MCPrograms == CASE Suite = "all" -> Ordering \cup Forwarding \cup Control
                [] Suite = "lines" -> {<< <<Ld({1})>>, <<Ld({3})>> >>}
MCWordOf == <<1, 1, 2, 2>>
MCLineOf == <<1, 1, 2, 2>>
=============================================================================
