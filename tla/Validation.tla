----------------------------- MODULE Validation -----------------------------
(***************************************************************************)
(* The validation pipeline: which validators of harness.toml run at a      *)
(* stage, when the success gate is open for their results, and the one     *)
(* observation that the results become.                                    *)
(***************************************************************************)
EXTENDS Naturals, Sequences, FiniteSets

Stages == {"baseline", "fast", "final"}

\* ValidationResult.status. "error": the runner refused or could not start it.
Verdicts == {"passed", "failed", "timeout", "error"}

\* The validators of a stage, in the order of the configuration.
Selected(cfg, stage) ==
  LET taken[n \in 0..Len(cfg)] ==
        IF n = 0 THEN <<>>
        ELSE IF stage \in cfg[n].stages THEN Append(taken[n - 1], cfg[n])
        ELSE taken[n - 1]
  IN taken[Len(cfg)]

\* ValidationPipeline.run: one result for each of them, whatever the others
\* did; an exception of the runner is a result as well.
Results(cfg, stage) ==
  LET vs == Selected(cfg, stage) IN
  {[i \in DOMAIN vs |-> [id |-> vs[i].id, stage |-> stage, status |-> f[i]]] :
     f \in [DOMAIN vs -> Verdicts]}

RequiredIds(cfg, stage) ==
  {cfg[i].id : i \in {j \in DOMAIN cfg : cfg[j].required /\ stage \in cfg[j].stages}}

\* success_gate_open.
\* One required validator that passes opens the gate.
Bug_GateOpen(cfg, results) ==
  \E i \in DOMAIN results :
    /\ results[i].id \in RequiredIds(cfg, results[i].stage)
    /\ results[i].status = "passed"
GateOpen(cfg, results) ==
  /\ results # <<>>
  /\ \A i \in DOMAIN results : results[i].stage = results[1].stage
  /\ LET required == RequiredIds(cfg, results[1].stage)
         counted == {i \in DOMAIN results : results[i].id \in required}
     IN /\ required # {}
        /\ {results[i].id : i \in counted} = required
        /\ \A i \in counted : results[i].status = "passed"

Failed(results) == {i \in DOMAIN results : results[i].status # "passed"}

\* What a result says of itself: "<validator_id> <status>".
Summary(result) == <<result.id, result.status>>

\* observation_from_validation: the first result that did not pass, or else
\* that all of them did, or else that there were none.
ObservationOf(results) ==
  IF Failed(results) # {}
  THEN LET first == CHOOSE i \in Failed(results) :
                      \A j \in Failed(results) : i <= j
       IN [ok |-> FALSE, summary |-> Summary(results[first]),
           evidence |-> <<"output of", results[first].id>>]
  ELSE [ok |-> results # <<>>,
        summary |-> IF results # <<>> THEN <<"validation", "passed">>
                                      ELSE <<"no validators", "configured">>,
        evidence |-> <<>>]
=============================================================================
