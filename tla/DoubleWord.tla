----------------------------- MODULE DoubleWord -----------------------------
(***************************************************************************)
(* Operands of loads and stores (src/pyrite/DoubleWord.cpp).  The shifted  *)
(* 64-bit value and its byte mask are a partial function from byte         *)
(* addresses to byte values: "ext" is the set of bytes from m_address to   *)
(* m_address + m_size - 1, and DOMAIN val is m_bytemask.  Words never      *)
(* cross an aligned double word, so "& 0xff" drops nothing here and only   *)
(* the right shift does: bytes below the target's address.                 *)
(***************************************************************************)
EXTENDS Integers, FiniteSets, Functions

(* m_address of a non-empty operand. *)
Lowest(dw) == CHOOSE b \in dw.ext : \A x \in dw.ext : b <= x

(* f, overridden by g where g is defined. *)
Override(f, g) ==
  [b \in DOMAIN f \cup DOMAIN g |-> IF b \in DOMAIN g THEN g[b] ELSE f[b]]

NoBytes == [b \in {} |-> 0]

(* DoubleWord::setAddress with no value yet (m_bytemask is left at 0). *)
SetAddress(ext) == [ext |-> ext, val |-> NoBytes]

(* DoubleWord::setValue: every byte of the operand gets its value. *)
SetValue(dw, bytes) == [dw EXCEPT !.val = [b \in dw.ext |-> bytes[b]]]

Overlaps(dw1, dw2) == dw1.ext \cap dw2.ext # {}

(* The bytes of dw that survive the shift to the target's address. *)
Shifted(dw, target) ==
  Restrict(dw.val, {b \in DOMAIN dw.val : Lowest(target) <= b})

(* DoubleWord::overlay: dw is layered over the target, whose mask grows. *)
Overlay(dw, target) ==
  IF Overlaps(dw, target)
  THEN [target EXCEPT !.val = Override(@, Shifted(dw, target))]
  ELSE target

(* DoubleWord::writeValue: only bytes the target already has are written. *)
WriteValue(dw, target) ==
  IF Overlaps(dw, target)
  THEN [target EXCEPT !.val =
         Override(@, Restrict(dw.val, DOMAIN dw.val \cap DOMAIN @))]
  ELSE target

OverlapMatches(dw, other) ==
  Overlaps(dw, other) =>
    \A b \in DOMAIN Shifted(dw, other) \cap DOMAIN other.val :
      dw.val[b] = other.val[b]

(* DoubleWord::covers: "True if the specified word covers this one".       *)
(* DynamicInst::execute and complete ask it the other way round: of the    *)
(* data found in the queue whether the load's operand, which has no value  *)
(* yet, covers it.  It never does, so every load reads the cache.          *)
Covers(dw, other) ==
  /\ Overlaps(dw, other)
  /\ Lowest(other) <= Lowest(dw)
  /\ dw.ext \subseteq DOMAIN other.val

=============================================================================
