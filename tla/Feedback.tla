------------------------------ MODULE Feedback ------------------------------
(***************************************************************************)
(* What the model is told: the tools and the validators of a session       *)
(* produce observations and validation rows, and query_context_inputs and  *)
(* ContextBuilder.build make the next prompt from the latest of them.      *)
(* Beside it runs the count of consecutive failed validations.             *)
(*                                                                         *)
(* One action is one transaction of the store together with the code that  *)
(* leads to it; between any two of them the process may die. Statuses and  *)
(* budgets of the session are those of Harness, reduced to what feedback   *)
(* depends on.                                                             *)
(*                                                                         *)
(* Operators named Bug_X are wrong versions of X, which no specification   *)
(* uses: with X replaced by Bug_X, a run must find its property violated.  *)
(***************************************************************************)
EXTENDS Validation, Context

CONSTANTS
  Configs,       \* the validators of a project: tuples of
                 \* [id, stages, required] records, in their order
  MaxSteps,      \* max_steps
  MaxFailures,   \* max_consecutive_failures
  RequiredSizes, \* sizes the required part of a prompt may have
  ItemSizes,     \* sizes of the text of an observation
  MemorySizes,   \* tuples: sizes of the memories that a search may return
  MaxFaults      \* kills (a bound)

ASSUME BudgetAssumption ==
  /\ {MaxSteps, MaxFailures} \subseteq Nat \ {0}
  /\ MaxFaults \in Nat
  /\ RequiredSizes \cup ItemSizes \subseteq Nat
  /\ \A m \in MemorySizes : m \in Seq(Nat)

\* A configuration is a list of validators, of any shape.
ASSUME ConfigsAssumption == \A c \in Configs : c \in Seq({c[i] : i \in DOMAIN c})

VARIABLES
  cfg,       \* the validators of this session's project
  status,    \* sessions.status
  pc,        \* "down": no process runs the session
  steps,     \* the persisted step counter
  fails,     \* the persisted consecutive_failures
  tracked,   \* consecutive_failures of the BudgetTracker in memory
  results,   \* the results of the last stage
  row,       \* the summary of the last row of validations, or <<>>
  obs,       \* the last row of observations, or NoObservation
  prompt,    \* the prompt that is not answered yet, or NoPrompt
  stage,     \* history: the name of that stage
  streak,    \* history: edits made since the gate was last found open
  due,       \* history: the verdict that the next prompt owes to the model
  faults

vars == <<cfg, status, pc, steps, fails, tracked, results, row, obs, prompt,
          stage, streak, due, faults>>

\* The texts of the required part and of the latest observation, the sizes that
\* the packing depends on, and what was kept of each list.
NoPrompt ==
  [pinned |-> {}, latest |-> <<>>, required |-> 0,
   items |-> [c \in Categories |-> <<>>], kept |-> [c \in Categories |-> {}]]

NoObservation == [ok |-> TRUE, summary |-> <<>>, evidence |-> <<>>]
Observe(o) == obs' = o

\* The observations that the engine makes itself.
ToolDone == [ok |-> TRUE, summary |-> <<"tool", "completed">>,
             evidence |-> <<"content">>]
ToolFailed == [ok |-> FALSE, summary |-> <<"tool", "failed">>,
               evidence |-> <<"error">>]
Blocked == [ok |-> FALSE, summary |-> <<"policy", "denied">>, evidence |-> <<>>]
Invalid == [ok |-> FALSE, summary |-> <<"invalid", "action">>, evidence |-> <<>>]
Unbuilt == [ok |-> FALSE, summary |-> <<"context", "build failed">>,
            evidence |-> <<"error">>]

Init ==
  /\ cfg \in Configs
  /\ status = "CREATED"
  /\ pc = "down"
  /\ steps = 0
  /\ fails = 0
  /\ tracked = 0
  /\ results = <<>>
  /\ row = <<>>
  /\ obs = NoObservation
  /\ prompt = NoPrompt
  /\ stage = "none"
  /\ streak = 0
  /\ due = {}
  /\ faults = 0

Go(l) == pc' = l
Leave(target) == status' = target /\ pc' = "down"

\* A stage runs, and record_validations stores its results in one transaction.
RunStage(s) ==
  /\ results' \in Results(cfg, s)
  /\ row' = IF results' = <<>> THEN row ELSE Summary(results'[Len(results')])
  /\ stage' = s

-----------------------------------------------------------------------------
(* HarnessEngine.run: start and resume                                      *)

Start ==
  /\ pc = "down"
  /\ status \in {"CREATED", "RUNNING"}
  /\ Go(IF status = "CREATED" THEN "baseline" ELSE "loop")
  /\ tracked' = fails
  /\ UNCHANGED <<cfg, status, steps, fails, results, row, obs, prompt, stage,
                 streak, due, faults>>

Baseline ==
  /\ pc = "baseline"
  /\ RunStage("baseline")
  /\ Go("begin")
  /\ UNCHANGED <<cfg, status, steps, fails, tracked, obs, prompt, streak, due,
                 faults>>

\* The results are an observation only when the gate is closed.
Begin ==
  /\ pc = "begin"
  /\ IF GateOpen(cfg, results) THEN UNCHANGED obs ELSE Observe(ObservationOf(results))
  /\ status' = "RUNNING"
  /\ Go("loop")
  /\ UNCHANGED <<cfg, steps, fails, tracked, results, row, prompt, stage, streak,
                 due, faults>>

-----------------------------------------------------------------------------
(* One turn of the loop                                                     *)

\* query_context_inputs: the summary of the last validation row and, unless it
\* was a success, that of the latest observation are required. The observation
\* is offered as an item too, but not its evidence, and so are the memories.
\* A failure is an item like any other observation.
Bug_Pinned == {row} \ {<<>>}
Pinned == ({row} \cup IF obs.ok THEN {} ELSE {obs.summary}) \ {<<>>}

Items(size, memories) ==
  [c \in Categories |->
     CASE c = "snippets" -> <<>>
       [] c = "observations" -> IF obs = NoObservation THEN <<>> ELSE <<size>>
       [] c = "memories" -> memories]

\* ContextBuilder.build.
Built(required, items) ==
  [pinned |-> Pinned, latest |-> obs.summary, required |-> required,
   items |-> items, kept |-> Packed(required, items)]

\* stop_reason, of which only these two matter here.
Exhausted == steps >= MaxSteps \/ tracked >= MaxFailures

\* The loop stops, or the prompt is built, or it cannot be: an error pauses the
\* session.
Prompt ==
  /\ pc = "loop"
  /\ \/ /\ Exhausted
        /\ Leave("PAUSED_LIMIT_REACHED")
        /\ UNCHANGED <<obs, prompt>>
     \/ /\ ~ Exhausted
        /\ \E required \in RequiredSizes :
             \/ /\ TooBig(required)
                /\ Observe(Unbuilt)
                /\ Leave("PAUSED_INTERNAL_ERROR")
                /\ UNCHANGED prompt
             \/ /\ ~ TooBig(required)
                /\ \E size \in ItemSizes, memories \in MemorySizes :
                     prompt' = Built(required, Items(size, memories))
                /\ Go("ask")
                /\ UNCHANGED <<status, obs>>
  /\ UNCHANGED <<cfg, steps, fails, tracked, results, row, stage, streak, due,
                 faults>>

\* The model answers what is not an action, or what the policy denies. A step
\* is counted for an action only.
Rejected(o, n) ==
  /\ pc = "ask"
  /\ Observe(o)
  /\ steps' = steps + n
  /\ due' = {}
  /\ Go("loop")
  /\ UNCHANGED <<cfg, status, fails, tracked, results, row, stage,
                 streak, faults>>

\* An action that reads, lists, runs a command or proposes a memory.
Look ==
  /\ pc = "ask"
  /\ steps' = steps + 1
  /\ Observe(ToolDone)
  /\ due' = {}
  /\ Go("loop")
  /\ UNCHANGED <<cfg, status, fails, tracked, results, row, stage,
                 streak, faults>>

\* DispatchError: the session awaits the user.
ToolFails ==
  /\ pc = "ask"
  /\ steps' = steps + 1
  /\ Observe(ToolFailed)
  /\ due' = {}
  /\ Leave("NEEDS_USER_DECISION")
  /\ UNCHANGED <<cfg, fails, tracked, results, row, stage, streak, faults>>

\* An edit: the tool and its observation, the fast stage, the counter and the
\* observation of the validation are four steps of the store.
Edit ==
  /\ pc = "ask"
  /\ steps' = steps + 1
  /\ Observe(ToolDone)
  /\ streak' = streak + 1
  /\ due' = {}
  /\ Go("validate")
  /\ UNCHANGED <<cfg, status, fails, tracked, results, row, stage, faults>>

Validate ==
  /\ pc = "validate"
  /\ RunStage("fast")
  /\ Go("count")
  /\ UNCHANGED <<cfg, status, steps, fails, tracked, obs, prompt, streak, due,
                 faults>>

\* save_budget_tracker.
\* The counter stays in memory.
Bug_Save(n) == UNCHANGED fails
Save(n) == fails' = n

Count ==
  LET passed == GateOpen(cfg, results)
      n == IF passed THEN 0 ELSE tracked + 1
  IN
  /\ pc = "count"
  /\ tracked' = n
  /\ Save(n)
  /\ streak' = IF passed THEN 0 ELSE streak
  /\ Go("report")
  /\ UNCHANGED <<cfg, status, steps, results, row, obs, prompt, stage, due, faults>>

\* The observation that the model is to see.
Report ==
  /\ pc = "report"
  /\ Observe(ObservationOf(results))
  /\ due' = {ObservationOf(results)}
  /\ Go("loop")
  /\ UNCHANGED <<cfg, status, steps, fails, tracked, results, row, prompt, stage,
                 streak, faults>>

\* The finish action: the final stage, and the transition it decides.
Finish ==
  /\ pc = "ask"
  /\ steps' = steps + 1
  /\ RunStage("final")
  /\ due' = {}
  /\ Go("conclude")
  /\ UNCHANGED <<cfg, status, fails, tracked, obs, streak, faults>>

Conclude ==
  /\ pc = "conclude"
  /\ \/ /\ GateOpen(cfg, results)
        /\ Leave("SUCCEEDED")
        /\ UNCHANGED obs
     \/ /\ ~GateOpen(cfg, results)
        /\ Observe(ObservationOf(results))
        /\ Leave("NEEDS_USER_DECISION")
  /\ UNCHANGED <<cfg, steps, fails, tracked, results, row, prompt, stage, streak,
                 due, faults>>

Kill ==
  /\ pc # "down"
  /\ faults < MaxFaults
  /\ faults' = faults + 1
  /\ Go("down")
  /\ results' = <<>>
  /\ prompt' = NoPrompt
  /\ due' = {}
  /\ UNCHANGED <<cfg, status, steps, fails, tracked, row, obs, stage,
                 streak>>

\* The model answers the prompt.
Ask ==
  /\ prompt' = NoPrompt
  /\ \/ Rejected(Invalid, 0) \/ Rejected(Blocked, 1)
     \/ Look \/ ToolFails \/ Edit \/ Finish

Next ==
  \/ Start \/ Baseline \/ Begin \/ Prompt \/ Ask
  \/ Validate \/ Count \/ Report \/ Conclude \/ Kill

Spec == Init /\ [][Next]_vars

-----------------------------------------------------------------------------
(* Properties                                                               *)

Pcs == {"down", "baseline", "begin", "loop", "ask", "validate", "count", "report",
        "conclude"}

TypeOK ==
  /\ cfg \in Configs
  /\ status \in {"CREATED", "RUNNING", "PAUSED_LIMIT_REACHED", "SUCCEEDED",
                 "PAUSED_INTERNAL_ERROR", "NEEDS_USER_DECISION"}
  /\ pc \in Pcs
  /\ steps \in 0..MaxSteps
  /\ {fails, tracked} \subseteq 0..MaxFailures
  /\ results = <<>> \/ results \in Results(cfg, stage)
  /\ DOMAIN obs = {"ok", "summary", "evidence"}
  /\ prompt = NoPrompt <=> pc # "ask"
  /\ streak \in Nat
  /\ faults \in 0..MaxFaults

UniqueIds ==
  \A i, j \in DOMAIN cfg : cfg[i].id = cfg[j].id => i = j

\* The gate weighs every validator by its own flag: when each has an id of its
\* own, a session succeeds exactly when it has a required validator for the
\* final stage and all of these passed, whatever the optional ones did.
RequiredPassed ==
  LET Final == Selected(cfg, "final")
      Required == {i \in DOMAIN Final : Final[i].required}
  IN Required # {} /\ \A i \in Required : results[i].status = "passed"

GateExact ==
  /\ TypeOK
  /\ status = "SUCCEEDED" => RequiredPassed
  /\ pc = "conclude" /\ UniqueIds /\ RequiredPassed => GateOpen(cfg, results)

\* Every edit since the gate was last open has been counted, but for one for
\* each time that the process died: the limit on consecutive failures is
\* exceeded by the number of crashes at most (engine.py saves the counter
\* after the validators have run).
FailuresCounted ==
  /\ streak <= fails + faults + IF pc \in {"validate", "count"} THEN 1 ELSE 0
  /\ pc = "ask" => streak < MaxFailures + faults

\* The verdict on an edit is in the prompt that follows it: nothing recorded
\* between the validators and the prompt hides it. A failure is never dropped
\* for want of room; that all passed is told if there is room for it.
VerdictReachesModel ==
  pc = "ask" =>
    \A v \in due :
      /\ v.ok => prompt.latest = v.summary
      /\ ~ v.ok => v.summary \in prompt.pinned

\* The texts of a prompt, as the builder counts them, never exceed its budget,
\* and what is kept of a list is its longest beginning that the lists before
\* it leave room for: nothing is dropped that would fit, and no item is kept
\* over one that comes before it.
PromptPacked ==
  pc = "ask" => /\ Fits(prompt.required, prompt.items, prompt.kept)
                /\ Longest(prompt.required, prompt.items, prompt.kept)
=============================================================================
