----------------------------- MODULE MC_Harness -----------------------------
(* Harness for TLC: what may be swapped without changing a behaviour.       *)
EXTENDS Harness, TLC

Symmetry == Permutations(Procs)
=============================================================================
