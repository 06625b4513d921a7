-------------------------- MODULE MC_ChangeJournal --------------------------
(* ChangeJournal for TLC: what may be swapped without changing a behaviour. *)
EXTENDS ChangeJournal, TLC

Symmetry == Permutations(Contents)
=============================================================================
