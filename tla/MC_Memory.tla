------------------------------ MODULE MC_Memory -----------------------------
(* Settings for TLC: two projects, one keyword, one row of validations, and *)
(* more entries than a search returns.                                      *)
EXTENDS Memory

MCPassed == {[id |-> "row", validator |-> "pytest"]}
=============================================================================
