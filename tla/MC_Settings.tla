---------------------------- MODULE MC_Settings -----------------------------
(* Settings for TLC: one limit of each kind, with a default below the hard  *)
(* bound, so that a file can be above, at and below it.                     *)
EXTENDS Settings, TLC

MCHard == "steps" :> 2 @@ "timeout" :> 2
MCDefault == "steps" :> 1 @@ "timeout" :> 1
=============================================================================
