----------------------------- MODULE MCDirectory -----------------------------
(* Model values and symmetry for the runs of MOESIDirectory.                 *)
EXTENDS MOESIDirectory, TLC

ProcSymmetry == Permutations(Proc)
==============================================================================
