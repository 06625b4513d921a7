---------------------------- MODULE MC_Feedback -----------------------------
(* Feedback for TLC: the shapes of validator lists that behave differently. *)
EXTENDS Feedback

Validator(id, stages, required) ==
  [id |-> id, stages |-> stages, required |-> required]

\* The built-in default, an optional second validator, a required second one
\* that runs last, an optional and a required validator of the same id, none
\* for the fast stage, none that is required, and no validator at all.
MCConfigs ==
  {<<Validator("pytest", Stages, TRUE)>>,
   <<Validator("pytest", Stages, TRUE), Validator("ruff", Stages, FALSE)>>,
   <<Validator("pytest", Stages, TRUE), Validator("mypy", Stages, TRUE)>>,
   <<Validator("pytest", Stages, TRUE), Validator("pytest", {"final"}, FALSE)>>,
   <<Validator("pytest", {"baseline", "final"}, TRUE)>>,
   <<Validator("ruff", Stages, FALSE)>>,
   <<>>}

\* Small memories, a large one before a small one, and none.
MCMemorySizes == {<<3, 3, 0>>, <<6, 1>>, <<>>}
=============================================================================
