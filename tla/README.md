# Verification of the coding agent harness

This directory holds TLA+ models of `coding_agent_harness`
(`src/coding_agent_harness/`), the TLC configurations that check them and the
TLAPS proofs of what holds for every size of the system. Module names below
without a suffix are `.tla` files; line references are to the Python source.
`PROJECT.json` maps every definition to the lines it models.

## 1. The system

A user runs `cah run`: one process takes the lock file of the workspace,
creates a session in a SQLite store and enters a loop. Each turn asks a language
model for one action, has the policy decide on it, and then executes it, pauses
for the user's approval, or refuses it. The session ends in a status from which
the user keeps or rolls back the changes. Any process may be interrupted; other
processes (`sessions resume`, `approvals approve/deny`, `changes keep/rollback`)
work on the same store and the same files.

| Component (source) | State | Operations | Interacts with |
|---|---|---|---|
| Status tables (`models.py`) | none | `ALLOWED_TRANSITIONS`, approval transitions | everything that changes a status |
| Session lifecycle, lock (`session_service.py`) | the lock file | `acquire`, `release`, `resume`, `resume_and_run` | engine, approvals, journal, store |
| Engine (`engine.py`) | local: budget tracker, protocol errors | `run`, `continue_approved`, `_execute_grant`, `_pause` | LLM, gateway, dispatcher, validation, store |
| Approvals, budgets (`approvals.py`) | rows of `approvals`; `budget_json` | request, approve, deny, consume, expire, invalidate; `record_*`, `stop_reason` | store, audit |
| Policy (`policy.py`) | none | `evaluate`, `authorize` | store, approvals, audit |
| Dispatcher (`dispatcher.py`) | none | `execute` | store, file tools, runner |
| Command runner (`command_runner.py`) | child processes | `run` | operating system |
| Journal, file tools (`journal.py`, `file_tools.py`) | rows of `changes`, backups, the files | `replace`, `create`, `delete`, `find_drift_in`, `rollback` | store, file system |
| Audit (`audit.py`, `storage.py`) | outbox table, `events.jsonl` | `enqueue_audit`, `flush_audit`, `append` | every command |
| Store (`storage.py`) | SQLite database | transactions under `BEGIN IMMEDIATE` | all |
| Validation (`validation.py`) | stored verdicts | `run`, `success_gate_open` | engine, runner |
| Application, CLI (`application.py`, `cli.py`) | none | the commands above | all |
| Configuration (`config.py`, `application.py`) | two TOML files; the limits stored with a session | `resolve_config`, `EngineFactory.create`, `from_session` | engine, policy |
| LLM clients (`llm.py`, `credentials.py`) | the key in the keyring; attempts of a call | `next_action` over HTTP or from a script, `get_for_client` | engine, provider |
| Context builder (`context.py`) | none | `build`, `from_store` | store, engine, memory |
| Memory (`memory.py`, `storage.py`) | rows of `memory_entries` | propose, verified fix, approve, reject, delete, search | engine, CLI |
| Reports, demo (`reporting.py`, `demo.py`) | none | rendering | not modelled (section 8) |

What is hard here, and what correctness means:

* *Several processes, one lock file that only `run` and `resume` take.* Approve,
  deny, keep and rollback take no lock. No tool may start without authority,
  counters must never be stale, one session per project may write.
* *Exceptions and kills between two transactions.* The tables `actions`,
  `approvals`, `sessions` and `changes` are written in separate transactions, so
  an interruption leaves every mixture of them. Budgets must not be reset or
  bypassed by it, and statuses must not lie.
* *Checks that are used later.* The status read before the lock, the approval
  checked before it is consumed, the verdict used after the validators ran, the
  file read twice by `replace`.
* *Waiting for a user.* An answered approval has to take effect; a pause has to
  be resolvable.
* *A process tree and a time limit.* Processes of a command fork, leave its
  group and hold its output while the limit expires and the kill is under way.
* *Nested transactions.* A block may fail in its body, at its commit or at its
  rollback, inside of other blocks or not, and the connection may be lost; the
  count of blocks, the connection and SQLite have to agree afterwards.
* *Reads that are no transaction.* A search for memories lists and then reads;
  a prompt is made of "the last" observation and "the last" validation; both
  configuration files are read again by every command.
* *One answer, two judges.* The client and the engine both decide what a wrong
  answer of the model is, and both bound something: attempts and calls.
* *Two opinions about one command.* The policy and the command runner both
  decide, and the policy has three branches that repeat each other's rules.

## 2. The modules

* **Statuses** holds the transition tables.
* **Governance** is the abstract promise: each action is refused, or starts at
  most once, and a gated one only after a grant that follows an approval.
* **Harness** models the processes, the lock, the engine loop, the gateway's
  transaction, approvals, budgets, validation verdicts and the user's commands.
  One action is one store transaction with the code around it that no other
  process can observe. `proc[p].pc` is the place in the code of process `p`;
  `status`, `budget`, `log` and `appr` are columns of `sessions`, `actions` and
  `approvals`; `journal` and `verdict` abstract `changes` and the validations to
  what the other code asks of them. No code reads `verdict`: the engine decides on
  the results in its hand, `proc[p].gate`, and `verdict` remembers what they are
  worth, with every edit that came after. The last group of variables is history,
  read by properties only. `Gov` is the refinement mapping to Governance.
  Each action's name is that of its function, or of the part of the function
  between two transactions: `HarnessEngine.run` is `EngineRun`, `LoopTop`,
  `AskLlm`, `Authorize`, `RecordStep`, `PauseForApproval`, `FinalValidation`,
  `Conclude`; `_execute_grant` is `Execute` and `FastValidation`;
  `_resume_and_run_locked` is `Recover`, `Invalidate`, `DriftPause`, `Resolve`,
  `ConsumeCheck`, `ConsumeCommit`, `ContinueApproved`.
* **AuditOutbox** models the outbox table and the append-only file, with the
  flush that precedes and follows every command's transaction.
* **ChangeJournal** models the files of one session: the file tools step by
  step, rows and backups, the drift check and the rollback command that may run
  beside a tool.
* **Policy** models `PolicyEngine.evaluate` as a function, and the fate of one
  action through gateway, approval, dispatcher and command runner. Arguments are
  words, options, options with a value after `=`, and options with a value glued to
  them, which are options of their own as in the code; each class of text that
  the code recognises by a set or a regular expression has one or two
  representatives. Letter case is left out because both sides compare casefolded
  text. The reason code of a denial is left out, which is why the order of the
  deny rules does not show.
* **LlmCalls** looks at one `AskLlm` of Harness from below: the requests of the
  HTTP client and their retries, the scripted client, every kind of answer, what
  the engine makes of it, and the credential. It says where each outcome that
  Harness takes as a free choice comes from.
* **Validation** holds `run`, `success_gate_open` and
  `observation_from_validation` as operators on the configured validators and
  their results, **Context** holds `ContextBuilder.build` on the sizes of its
  inputs. **Feedback** composes both with the engine: edits, validations of
  three stages, the count of failures, observations, and the prompt that
  `query_context_inputs` makes of what is stored. Harness takes the verdicts of
  `FastValidation` and `FinalValidation` as free choices; here they are computed.
* **Settings** models where limits and validators come from: user file,
  `harness.toml` and options, merged for each engine that is built, while the
  files change and the stored copy does not. A limit of one loop field and one
  engine field each stand for the fields of their kind; "not mentioned" is a
  value of its own, since the code tells it apart.
* **Memory** models the entries of projects, the user's decisions and the
  search, whose statements other processes get between.
* **Store** models `transaction()` and `_write_transaction()`: blocks within
  blocks, errors in the body, at the commit and at the rollback, discarded
  connections and kills. **AtomicStore** is what every other module takes for
  granted, and Store refines it.
* **CommandRun** models `CommandRunner.run` beside the processes it has started,
  on POSIX and on Windows: the time limit, the kill, the second wait for the
  output, Ctrl-C, and the lock that another session takes afterwards. It is the
  inside of the tool step and of the validator runs of Harness.
* **MC_Harness**, **MC_ChangeJournal**, **MC_Policy**, **MC_Feedback**,
  **MC_Memory** and **MC_Settings** add what TLC needs: symmetry, and sets of
  arguments, contexts, validator lists, sizes and limits.
* **HarnessProofs**, **PolicyProofs**, **StoreProofs**, **OutboxProofs**,
  **ChangeJournalProofs**, **CommandRunProofs**, **LlmCallsProofs** and
  **FeedbackProofs** (with Validation and Context) hold the theorems, each about
  the module of that name and for every value of its constants. StoreProofs also
  has those about Memory, CommandRunProofs those about Settings; since a proof
  module extends two components there, these two say `MemorySpec` and
  `SettingsSpec` where the others say `Spec`, and so on.

Harness stands above the others: its `journal` is what ChangeJournal calls
`Drift`, its division of actions into allowed, gated and denied is the range of
`Policy!Evaluate`, and a fault after the commit of `Authorize` or
`ConsumeCommit` is a failed flush of AuditOutbox.

An operator named `Bug_X` is a wrong version of the operator `X` that follows
it, with a comment that says how it is wrong. No specification uses it: with
`X` replaced by it, the run named in `PROJECT.json` finds its property violated,
which shows that the property can tell right code from wrong.

## 3. What the runs check

| Run | Question | Bounds |
|---|---|---|
| `harness` | Authority, budgets, counters, verdicts and statuses under every interleaving of two processes | 1 session, 3 steps and calls, 2 disturbances: faults, of which 1 may be an edit or a deadline |
| `harness_sessions` | At most one active session; what was approved is done; refinement of Governance | 2 sessions, 2 processes, 1 step each, 1 fault, 1 edit or deadline |
| `harness_live` | Every command ends; an answered approval takes effect | 1 session, 2 processes, 2 steps, 2 calls, 2 edits or deadlines, no faults |
| `outbox` | Order, no effect before its events, damage bounded by failures, delivery | 2 processes, 4 events, 2 faults |
| `journal` | Originals recoverable, drift seen, rollback restores, and refuses for three reasons only | 2 files, 2 contents, 3 changes, 1 fault, 1 foreign edit |
| `policy` | Silent commands are those of a declarative grammar; restrictions only deny; an outside path is denied, or needs approval; the runner runs what it should | heads of every kind, up to 3 further of 13 arguments, 3 contexts, 2 timeouts |
| `llm` | Retries of a call, protocol errors of a run | 3 attempts, 4 calls, 2 faults, 8 kinds of answer |
| `feedback` | The success gate, the count of failures, what reaches the next prompt, how it is packed | 7 lists of validators, 5 steps, 2 failures allowed, prompts of 8 bytes with lists of small and large items, 2 faults |
| `settings` | Limits of loop and engine, acceptance of validators, while both files change | 1 limit of each kind, at most 2 and by default 1, 1 safe and 1 unsafe validator |
| `memory` | What a search returns and what decisions may do | 2 projects, 1 keyword, 3 entries, 1 returned at most |
| `store` | The truth told to callers; refinement of AtomicStore | 2 processes, 4 rows, 2 nested blocks, 3 faults |
| `command` | What a command leaves behind; that it ends | 3 processes, both platforms |

Why the bounds suffice. The interesting cases of Harness need two commands that
overlap (two processes), an interruption and its repetition (two faults), a
repeated action next to `max_repeated_action = 2` (three steps), and one deadline
or foreign edit in the place of a fault. Two sessions are needed only where sessions meet, at
their creation; that run gets its own configuration because the product of two
full sessions is out of reach, and liveness of two sessions takes too long. The
liveness run has two steps, one to change a file and one to ask for approval of
the next change, and two edits, one that makes the files drift and one that puts
them back. It has no faults: `AnswerTakesEffect` excludes them, and for
`CommandsEnd` a command that hangs with the lock stands for the lock that a fault
leaves behind, while `CommandsAreBounded` is proved with any number of faults. The
outbox needs one event left over, the three of an authorization and a second
process. A rollback needs a file written twice and another one: three rows. The
walk over options has a memory of one argument, so three arguments after the head
show every transition of it. Four calls hold a correction, an action and two
errors in a row. Five steps reach the limit on failures, pass it by a crash and
still allow a success. Three memory entries with one to return make a search
choose and be overtaken. A child and a grandchild show every way out of a
process group and of a process tree. Three faults in the store make a commit, its
rollback and the process fail, one after the other.

`CHECK_DEADLOCK FALSE` stands in every configuration because these systems may
stop: sessions and bounds are used up, a leaked lock admits no more commands
before any session exists, and Policy follows one action to its end.

The properties, one by one, are commented in the modules. The type invariant of
a module is checked by itself in `harness`, and elsewhere as the first part of
the property that builds on it. Those that took the most care:

* `EffectsCharged` and `CallsCharged`: interruptions cannot buy anything;
  `LogContiguous`: what is left between the insert of a row and the save of its
  counter; `ConsumedStarts`: an approval is lost by a fault only, one for each.
* `RolledBackMeansReverted`: two commands without a lock.
* `ActAfterAudit` and `DamageBounded`: the two flushes, torn and glued lines.
* `OriginalsKept` and `RollbackRestores`: tool and rollback interleaved;
  `RefusedForReason`: the other direction, a rollback that could be done is.
* `SilentCommands`: the scan against a parse; `PythonToolsRun`: policy and
  runner against each other.
* `GateExact`: the gate against the flags of each validator; `FailuresCounted`:
  the saves and the crashes between them; `VerdictReachesModel`: what is stored
  between a verdict and the prompt; `PromptPacked`: nothing fits that is dropped.
* `LoopLimitsFixed` and `Layered`: silence of a layer is not a value.
* `NewestMatching`: nothing is missed although the search is no transaction.
* `ToldTruth`: no error for rows that are there, in whatever way a block failed.
* `NothingLeft` and `EndsUnlessEscaped`: what the kill can reach is gone.

## 4. Where the documents and the code disagree

Met while modelling. The models follow the code; where a property bounds what
can come of it, it is named.

Sessions:

* A resume that finds drift is refused the status `PAUSED_WORKSPACE_DRIFT`
  unless the session was `RUNNING` (`session_service.py:92` against
  `models.py:172`; SPEC.md:293). `AnswerTakesEffect` shows that such a session,
  whose approval was invalidated meanwhile, goes on once the files are back.
* After a kill the lock file stays and the interrupted session cannot be resumed
  before somebody removes it (`session_service.py:43`; PLAN.md:2667).
* An approval that is consumed and followed by a failure leaves a session that
  every resume returns unchanged (`approvals.py:209`). `ConsumedStarts`: only a
  fault does this.
* Nothing leads out of `PAUSED_LIMIT_REACHED` (`session_service.py:112`;
  SPEC.md:287, AC-09).
* `changes rollback` restores the files of a session in any status and leaves
  `CHANGES_KEPT` and `SUCCEEDED` as they are (`cli.py:206`; SPEC.md:102). It can
  also fall between the final validation and the transition, since the engine goes
  on with the results it has (`engine.py:168`): the session then succeeds with files
  as they were before it. `SuccessValidated`: nothing else gets in there.

Changes and commands:

* A rollback compares all files with their rows before it writes the first back:
  an edit made in between is overwritten (`journal.py:97`, `:106`; SPEC.md:104).
  `DriftSeen` is about the moment of the comparison, and `RollbackRestores` about a
  rollback beside which nobody else writes.
* A path outside the workspace that is glued to an option, without `=`, is not seen
  (`policy.py:717`; SPEC.md:175), except by the rules for pip and by those that
  know every option (`tests/test_policy.py:127` tests the first). `OutsideIsGated`:
  it is left to the user in `compileall` and `git commit`, and `git add` fails.
* A rollback refuses when a file was edited twice, when a change was interrupted
  and has no digest, and after a rollback that stopped half way
  (`journal.py:98`, `:102`, `:104`; SPEC.md:104, :421). `RefusedForReason`: for
  these reasons, for drift, and for no other.
* Git commands are allowed and then refused by the command runner
  (`command_runner.py:39`; SPEC.md:162, `tests/test_policy.py:95`), as are
  approved `git add`, `git commit` and `pip install`. `PythonToolsRun`: all else
  that is permitted runs.
* After the kill, `communicate()` is called without a time limit
  (`command_runner.py:83`; SPEC.md:434). `EndsUnlessEscaped`: only a process that
  got out of reach can hold the session.
* Ctrl-C leaves the command running and the lock free
  (`command_runner.py:67`; SPEC.md:202). `NothingLeft` states the rest.

The model's turn:

* Only the scripted client gets the one correction of a protocol error: the HTTP
  client wraps a malformed answer into `LLMError` (`llm.py:83`; SPEC.md:225), and
  an empty list of choices or tool calls raises `IndexError`, which nobody
  catches: the session stays `RUNNING` (`llm.py:79`; README.md:55).
* A session that was run with a mock script is resumed with the HTTP client
  (`application.py:102`; README.md:49).
* What a tool returned is never in the next prompt, only the summary
  (`storage.py:752`; SPEC.md:231). The failure shown is the last observation, the
  validator summary that of the last row: an earlier failure disappears after one
  more action (`storage.py:750`; SPEC.md:233). `VerdictReachesModel` holds for
  the prompt right after an edit.
* Without a required validator for the fast stage every edit counts as a failed
  validation (`engine.py:220`; SPEC.md:271).
* The builder counts texts and not the quotation marks and commas of the JSON
  around them (`context.py:39`; `tests/test_context.py:18`). `PromptPacked` holds
  of the texts.

Configuration, memory, audit:

* A resume forgets the options of the run for `command_timeout_seconds` and
  `max_observation_bytes` (`application.py:84`; SPEC.md:306, README.md:84).
  `LoopLimitsFixed`: not for the limits of the loop.
* An entry that is deleted between the two statements of a search is returned
  (`storage.py:437`; SPEC.md:231). `OnlyApproved`: it was approved before.
* What passes the check for evidence of a verified fix can never be stored
  (`memory.py:27`, `storage.py:445`; SPEC.md:297). No entry ever gets the status
  `APPROVED`. `cah memory list` calls a method that does not exist
  (`cli.py:214`).
* A torn line has no newline, the next attempt continues it, and its row is
  marked (`audit.py:40`; PLAN.md:980). `DamageBounded`: one for each fault.

## 5. Fairness

Safety runs use `Init /\ [][Next]_vars`. `Harness!LiveSpec` adds weak fairness
for the steps a started command takes by itself: requests and database waits have
timeouts, and nothing inside a process waits for another process, so a process
that is not killed takes its next step. Tools and validators are exempt
(`InCommand`): they may run commands, and after the time limit and the kill the
output is awaited without a limit (`command_runner.py:83`). So `CommandsEnd` says
that a command ends unless from some moment on it is inside of a tool or a
validator for ever; `EndsUnlessEscaped` of CommandRun says when that can be. A
command that hangs there keeps the lock, and no other command waits for it.

`LiveSpec` adds strong fairness for the user's start of a resume, a keep or a
rollback, so that the two liveness properties speak about a user who keeps trying;
nothing makes a user approve, and nothing makes the model finish. Strong fairness
is needed because the commands are disabled while other commands run. Faults are
bounded, hence finite. `AuditOutbox!LiveSpec` assumes that commands keep coming and
complete, again with finitely many faults. `CommandRun!LiveSpec` assumes weak
fairness of the runner, which waits with a time limit and then kills, and nothing
of the processes of the command.

## 6. What is proved

Every theorem below is for all values of the constants: any number of processes,
sessions, steps, files, events, validators and items, any lengths of commands
and lists, any budgets and any number of faults. It rests on the assumptions
that the modules name (`...Assumption`) and on no others. TLC evaluates them on
every run. They say that bounds are numbers, that values which mark "nobody" or
"nothing" differ from the others, and what shape a parameter has; the one that is
more, `ContextsAssumption` of Policy, says that a project can only take builtin
prefixes away, as `PolicyContext` does.

Each argument is an inductive invariant, with one lemma or one step of the proof
for each action. Where it needs
induction over a number, it takes the least number for which the claim would
fail (`LeastOf`), which exists because `<` is well-founded on the naturals.

**HarnessProofs**, in five parts:

| Theorem | States | Rests on |
|---|---|---|
| `TypeCorrect`, `TrackersAreFresh`, `CallsAreCharged` | `TypeOK`, `TrackerFresh`, `CallsCharged` | `IInv` |
| `AtMostOneActive`, `ToolsStartWhileRunning` | `OneActiveSession`, `EffectsWhileRunning` | `SInv` |
| `NoEffectWithoutAuthority` | `EffectsGoverned` | `AInv`, `SInv` |
| `SuccessIsValidated` | `SuccessValidated` | `Judged`, `SInv` |
| `NoGapsInLog`, `StartedToolsAreCharged` | `LogContiguous`, `EffectsCharged` | `BInv`, `EInv` |
| `HarnessIsGoverned`, `ApprovedIsDone` | `Governed` (the refinement), `ConsumedStarts` | `GInv` |
| `RolledBackIsTrue` | `RolledBackMeansReverted` | `Decided` |
| `CommandsAreBounded` | `RankFalls`: a bound on the steps of a command | `IInv`, `Rank` |

`IInv` is the conjunction of `TypeOK`, `Shape`, `TrackerFresh`, `CallsCharged` and
`CallPending`. None of the properties is inductive alone. `Shape` says what each
place in the code knows: a process in the part of the code between acquire and
release owns the lock, a process past the choice of its session has one, and a
process about to authorize has an action and about to record it a row. Mutual
exclusion follows from it, and from mutual exclusion that nobody else wrote the
counters. `CallPending` says that a call that has been counted and not yet made
is in hand, without which the count of calls made would not stay below the count
persisted.

`SInv` adds `Running` (inside the loop, and where a tool may start, the session is
`RUNNING`) and `OneActiveSession`. From `RUNNING` no command without the lock can
move the status: `keep` and the rollback both need the transition from
`NEEDS_USER_DECISION`. Only `CreateSession` makes a session active that was not,
because no transition leads from an inactive status back to an active one.

`AInv` adds to `EffectsGoverned` that the approvals in `APPROVED` and `CONSUMED`
were consented to (`Consent`): whether an approval may still be taken for consent
has to be known before its tool starts. The actions of Harness are many and what
each may do to the row of a step is little: `Lawful` says it once (an action is
written once, an approval follows its transition table, consent is withdrawn
only by a denial, a tool starts only on a row that is dispatchable), each action
is shown to be lawful, and a lawful step preserves `AInv`.

`SuccessValidated` relates the result in the hand of one process to a history that
all of them write. `Judged` says that where a process is about to conclude with an
open gate, the history still has that verdict, or the one that a rollback makes of
it. It is kept because only a tool resets the verdict and only the final validation
overwrites it, because both happen to a session that is `RUNNING` and in the hands
of the process that owns the lock (`SInv`, mutual exclusion), and because a
rollback keeps what passed (`UndoneCounts`). A session that has succeeded keeps its
verdict because no tool starts in it any more.

The table of actions is the longest argument, since a row is inserted in one
transaction and charged in another, with crashes between them. `BInv` says that
the persisted counters are those of the rows charged (`Counted`), that a process
which has looked at the budget has room for one row more (`Room`), and that the
row about to be charged is the one after the last (`Recording`). `EInv` adds that
a session which waits for an approval has no uncharged row (`Settled`), that
whoever has an action in hand has a charged one (`InPlace`), and that only
charged rows were executed (`Behind`). A row that a crash left uncharged has
its approval all the same, which is why `Settled` is needed: if a session with
such a row could wait for that approval, the tool would start unpaid. `GInv` adds that the
action about to be executed has not been (`Unstarted`) and none has twice
(`Once`); with it each step of the harness is a step of Governance for one row, or
a stutter. `ConsumedStarts` counts the approvals in `Lost`: only a fault loses
one, and only the one in the hand of the process that owns the lock. `Decided`
keeps what a rollback command knows between its two transactions although it has
no lock: from the moment a session awaits the user's decision there is no way
back.

`RankFalls` is what makes the loop of the engine end. `Rank` is a natural number
of at most `7 * MaxLlmCalls + MaxSteps + 15` for each process. Each step that a
started command takes itself lowers it, and no step of another process raises
it, so no command takes more steps than that. `Height` goes down with each step
but one, from the head of the loop to the next call to the model; that one is
paid for by `RoundsLeft`, because a call is charged before it is made. That others
cannot raise the rank is mutual exclusion once more, and that the charge is only
ever increased. It is the safety half of `CommandsEnd`.

**PolicyProofs**: `RestrictionsOnlyDeny` (`RestrictionsHold`), `SilentMeansParsed`
(`SilentCommands`), `OutsideNeedsApproval` (`OutsideIsGated`), `PolicyAndRunnerAgree`
(`PythonToolsRun`). The first needs only `Decided` (the decision in hand is that
for the action in hand); its content is `Narrowing`: the longest builtin prefix
that a command matches does not depend on the context, and what the rest of the
evaluation says depends on the context only through that prefix and the time
limit. `SilentMeansParsed` compares the scan of `OptionsAreSafe`, one pass with a
memory of one argument, with the grammar of the property, which splits a line
after one argument or after two. `ParseEquation` shows that the grammar's
recursive function exists and satisfies its equation, `WalksAgree` that the scan
and the parse agree from every position, and from every memory, on. The other
two follow from what a permitted action has passed on its way (`Granted`,
`Heard`, and `Bound`, by which a `git add` that waits for approval has words for
arguments only).

**StoreProofs**: `CallersAreTold` (`ToldTruth`) and `StoreIsAtomic` (`AtomicSpec`,
the refinement of AtomicStore). `SInv` adds to `ToldTruth` that the open
transaction holds exactly the rows of the outermost block of its owner
(`Pending`), that no block's rows are in the database or given up before it is
over and that blocks share none (`Units`), and that the next row is new (`Fresh`).
`DepthTruthful`, the first part of `ToldTruth`, is what makes a write go into the
transaction. Rollbacks, failed commits and kills are one case, `GivenUp`. For the
refinement each action is a step of AtomicStore or a stutter, of which only the
freshness of a written row needs the invariant beyond `DepthTruthful`.

The same module has the theorems about **Memory**: `SearchTellsOnlyApproved`
(`OnlyApproved`) and `SearchMissesNothing` (`NewestMatching`). Statuses change
between the statement that lists the active entries and those that read them, so
`MemInv` speaks about what was read rather than about what is stored: what is
active has been approved (`Remembered`), what is listed was active and is
listed newest first (`Listed`), what is read was listed (`ReadSoFar`), and the
result is the beginning of what matches (`Closed`). For the second theorem
`BoundedFirst` looks at the first matching entry that is left out.
`NoVerifiedFix` says that `propose_verified_fix` never makes an entry active,
because evidence that is found among the validations cannot be stored.

**OutboxProofs**: `FileIsOrdered` (`FileOrdered`), `NobodyActsAheadOfAudit`
(`ActAfterAudit`), `DamageIsBounded` (`DamageBounded`). The writer of the database
is whoever is between its append and its commit (`Locked`), with the oldest
unflushed row (`InHand`); so the event of the last line is the last one flushed,
or the next (`Top`), and the file grows in order. For the damage `DInv` counts:
each line is the one of a flushed event, the one of the flush under way, or one
that a fault has paid for, there are at most as many torn lines as faults, and an
event marked as flushed has a readable line or a torn one (`Accounted`).

**ChangeJournalProofs**: `DriftIsSeen` (`DriftSeen`), `RefusalHasReason`
(`RefusedForReason`, an action property), `OriginalsAreKept` (`OriginalsKept`),
`RollbackDoesRestore` (`RollbackRestores`). `JInv` relates rows, backups and the
tool under way: the backup that a row refers to holds what the row says, and what
the tool stored is what its row will say. `WInv` says which files the session
wrote and how it left them, `OInv` that the first row of a path has the original,
and `Restored` that the rollback, on its way down the rows, has put back what it
passed.

**CommandRunProofs**: `NothingIsLeft` (`NothingLeft`). `InReach` is the point: a
process that has not escaped is in the group that `killpg` reaches, or all those
above it still exist for `taskkill` to walk down from. From the same invariant
follows `OnlyEscapedDelay`, the safety half of `EndsUnlessEscaped`: when the
second wait for the output, the only one without a time limit, does not end, an
escaped process exists.

The same module has the theorems about **Settings**: `LimitsAreFixed`
(`LoopLimitsFixed`) and `TightestIsObeyed` (`Layered`, an action property).
`LimitsInv` says that the engine obeys the stored limits and that these are
within the options of the run that created the session; `ResolvedTypes`, that
what the layers resolve to is within the hard bounds. For `Layered` the code's
comparisons of layer with layer, in which silence takes the place of a number,
are shown to compute a least element of what was asked for (`MinIs`).

**LlmCallsProofs**: `SecondErrorAlwaysPauses` (`SecondErrorPauses`) and
`OnlyTransientRetried` (`RetriesTransient`, an action property). The engine's
count of protocol errors is the number of answers in a row that were no action
(`Counting`), and each request but the first of a call follows a fault that may
pass (`Requests`).

**FeedbackProofs**: `GateIsExact` (`GateExact`), `FailuresAreCounted`
(`FailuresCounted`), `VerdictIsTold` (`VerdictReachesModel`), `PromptIsPacked`
(`PromptPacked`). Three parts lead to them:

* `GateMeans`, for any list of validators: the gate, which compares ids, opens
  only when all required validators passed and there is one; where the ids differ
  it opens whenever that is so. It rests on `SelectedFacts`, what the loop over
  the configuration selects.
* `PackedWell`, for any budget and any three lists: what `build` keeps fits, and
  is of each list the longest beginning that fits. `AcceptedFacts` is the loop of
  `take`; `SumIsCount` shows that the sums of the property, folds that take the
  elements of a set in an arbitrary order, are the cardinality of a set of blocks,
  and with that all that one expects of a sum.
* the invariant: a verdict that is owed to the model is the latest observation
  until the prompt is built (`Owed`), there is always something to tell (`Told`),
  the tracker agrees with the row (`Counters`), and the edits since the gate was
  last open are at most those counted and one for each kill (`Counted`).

## 7. What is only model-checked

The four liveness properties: `CommandsEnd`, `AnswerTakesEffect`,
`EventuallyWritten` and `EndsUnlessEscaped`. Fairness is defined by `ENABLED`,
which the prover cannot expand. Of two of them the part that is not about
fairness is proved: `CommandsAreBounded` leaves to `CommandsEnd` only that a
command which is not stopped and not inside of a tool takes its next step, and
`OnlyEscapedDelay` leaves to `EndsUnlessEscaped` only that the runner does.

Everything else that the runs check is proved.

## 8. What is not modelled

* Reports and demo: read-only views and a scripted presentation, without
  decisions of their own. The read-only commands of the CLI likewise.
* The path resolution of `WorkspaceGuard` against symbolic links, redaction, the
  parsing of TOML, `source_roots`, the body of a request and the tool schemas:
  properties of the operating system or of text.
* The migration of old databases and the validation of JSON columns: one
  statement each, run before anything else.
* The keyring behind the credential, as far as it is not present or absent.
* In LlmCalls: a resume after a kill assumes that the user has removed the lock
  file that was left; Harness has the lock.
* In AuditOutbox: an event that can never be written, because of its text or
  because the disk stays full; `EventuallyWritten` is about failures that pass.
* In Store: a Ctrl-C that arrives inside of `commit()` (`storage.py:230` catches
  errors of SQLite only).
* In Memory: a validator whose configured id is that of an action. The ids of
  actions are drawn at random; `ConstantsAssumption` says that no evidence passes
  for both.
* In CommandRun: `taskkill` takes its tree at once; the text of the output, which
  is cut after all of it has been read, and the environment of the child.
* In Harness: the time an approval lives is a nondeterministic expiry; the
  observations fed back to the model are left out since the model's answer is
  arbitrary anyway; `command_timeout_seconds` and `max_observation_bytes` do not
  stop the loop.

## 9. Plan

Done, in this order: Statuses, Governance, Harness with its runs; AuditOutbox;
ChangeJournal; Policy; the proofs about Harness and Policy; LlmCalls; Validation,
Context and Feedback; Settings; Memory; Store with AtomicStore and its proofs;
CommandRun.

Then the proofs: Harness with its refinement of Governance and the bound on its
commands, AuditOutbox, ChangeJournal, Policy, LlmCalls, CommandRun, Feedback with
Validation and Context, Settings, and Memory.

Next: a module that composes the engine's tool step with ChangeJournal, so that
the `journal` variable of Harness is shown to abstract it.
