---------------------------- MODULE MCDramDirectory ----------------------------
(* Model values and symmetry for the runs of MOESIDramDirectory.                *)
EXTENDS MOESIDramDirectory, TLC

ProcSymmetry == Permutations(Proc)
================================================================================
