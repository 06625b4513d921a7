------------------------------- MODULE Harness -------------------------------
(***************************************************************************)
(* The governed agent loop of one project: the CLI processes that run and  *)
(* resume sessions under the workspace lock file, the policy gateway, the  *)
(* approval service, the persisted budgets and the user's decisions.       *)
(*                                                                         *)
(* One action is one transaction of the SQLite store together with the     *)
(* code around it that no other process can observe. A process can raise   *)
(* at any point (Abort: the lock is released by `finally`) or be killed    *)
(* (Kill: the lock file stays on disk).                                    *)
(*                                                                         *)
(* Operators named Bug_X are wrong versions of X, which no specification   *)
(* uses: with X replaced by Bug_X, a run must find its property violated.  *)
(***************************************************************************)
EXTENDS Naturals, FiniteSets, Statuses

CONSTANTS
  Procs,        \* CLI processes
  NumSessions,  \* sessions that can ever be created (a bound)
  Allowed, Gated, Denied, Finishing,
                \* the actions the model may propose, by the policy's decision
                \* (Finishing: the finish action, which the policy allows)
  Edits,        \* replace_in_file, create_file and delete_file actions
  NoAction,     \* no row, or no action in hand
  MaxSteps, MaxLlmCalls, MaxFailures, MaxRepeat,   \* BudgetConfig
  MaxFaults,    \* exceptions, kills and failed writes (a bound)
  MaxEnv,       \* deadlines passed and files edited by others (a bound)
  MaxBoth       \* all of these together (a bound)

Actions == Allowed \cup Gated \cup Denied \cup Finishing

ASSUME ProcsAssumption == Procs \cap {"free", "stale"} = {}

ASSUME ActionsAssumption ==
  /\ NoAction \notin Actions
  /\ Edits \subseteq Allowed \cup Gated
  /\ Allowed \cap (Gated \cup Denied \cup Finishing) = {}
  /\ Gated \cap (Denied \cup Finishing) = {}
  /\ Denied \cap Finishing = {}

ASSUME BudgetAssumption ==
  /\ NumSessions \in Nat
  /\ {MaxSteps, MaxLlmCalls, MaxFailures, MaxRepeat} \subseteq Nat \ {0}
  /\ {MaxFaults, MaxEnv, MaxBoth} \subseteq Nat

Sessions == 1..NumSessions

\* Rows of the actions table, numbered by their UNIQUE(session_id, step).
Steps == 1..(MaxSteps + 1)

VARIABLES
  status,     \* sessions.status, or "NONE" before the row exists
  budget,     \* the counters of sessions.budget_json
  log,        \* the action of each step's row in the actions table
  appr,       \* the approval status of that action, or "NONE"
  journal,    \* do the session's change rows match the files?
  verdict,    \* history: the last validation, and who wrote files since
  lock,       \* who owns the workspace lock file
  proc,       \* the local state of each process
  expired,    \* approvals past expires_at
  moved,      \* approvals whose workspace fingerprint no longer matches
  late,       \* sessions past session_timeout_minutes
  executed,   \* history: times the tool of a step was started
  asked,      \* history: calls made to the LLM
  consented,  \* history: the steps a user approved and did not deny since
  reverted,   \* history: sessions whose files were all rolled back
  faults, env \* used up from MaxFaults and MaxEnv

tables == <<status, budget, log, appr, journal, verdict>>
clocks == <<expired, moved, late>>
history == <<executed, asked, consented, reverted>>
bounds == <<faults, env>>
vars == <<tables, lock, proc, clocks, history, bounds>>

-----------------------------------------------------------------------------
(* Budgets (BudgetTracker)                                                  *)

NoBudget ==
  [steps |-> 0, calls |-> 0, fails |-> 0, fps |-> [a \in Actions |-> 0]]

StopReason(t, s) ==
  \/ t.steps >= MaxSteps
  \/ t.calls >= MaxLlmCalls
  \/ t.fails >= MaxFailures
  \/ \E a \in Actions : t.fps[a] >= MaxRepeat
  \/ late[s]

RecordedStep(t, a) == [t EXCEPT !.steps = @ + 1, !.fps[a] = @ + 1]
RecordedCall(t) == [t EXCEPT !.calls = @ + 1]
\* A passed validation takes one failure back instead of clearing them.
Bug_RecordedValidation(t, ok) ==
  [t EXCEPT !.fails = IF ok THEN @ - 1 ELSE @ + 1]
RecordedValidation(t, ok) == [t EXCEPT !.fails = IF ok THEN 0 ELSE @ + 1]

-----------------------------------------------------------------------------
(* Processes                                                                *)

\* seen: a rollback command read NEEDS_USER_DECISION before it began.
\* gate: the success gate was open for the final validation just run.
Idle ==
  [pc |-> "idle", sid |-> 0, trk |-> NoBudget, perr |-> 0,
   act |-> NoAction, step |-> 0, todo |-> {}, seen |-> FALSE, gate |-> FALSE]

At(p, l) == proc[p].pc = l
Sid(p) == proc[p].sid
Go(p, l) == proc' = [proc EXCEPT ![p].pc = l]
Quit(p) == proc' = [proc EXCEPT ![p] = Idle]

\* transition_session: the store reads the row again and consults the table.
Legal(s, target) == <<status[s], target>> \in ALLOWED_TRANSITIONS
Set(s, target) == status' = [status EXCEPT ![s] = target]

\* _pause: an illegal transition raises, and either way the command is over.
Pause(p, target) ==
  /\ IF Legal(Sid(p), target) THEN Set(Sid(p), target) ELSE UNCHANGED status
  /\ Go(p, "release")

\* BudgetTracker.from_session.
\* The counters start again from the configuration at every resume.
Bug_TrackerOf(s) == NoBudget
TrackerOf(s) == budget[s]

\* save_budget_tracker.
\* The counters live in memory only.
Bug_Save(p, t) == UNCHANGED budget
Save(p, t) == budget' = [budget EXCEPT ![Sid(p)] = t]

MoreAllowed == faults + env < MaxBoth

Fault ==
  /\ faults < MaxFaults /\ MoreAllowed
  /\ faults' = faults + 1 /\ UNCHANGED env

LatestApproval(s) ==
  LET K == {k \in Steps : appr[s][k] # "NONE"}
  IN IF K = {} THEN 0 ELSE CHOOSE k \in K : \A j \in K : j <= k

\* transition_approval: compare and set under BEGIN IMMEDIATE.
\* The row is written whatever its status has become.
Bug_SetApproval(s, k, target) ==
  /\ appr[s][k] # "NONE"
  /\ appr' = [appr EXCEPT ![s][k] = target]
SetApproval(s, k, target) ==
  /\ <<appr[s][k], target>> \in ApprovalTransitions
  /\ appr' = [appr EXCEPT ![s][k] = target]

-----------------------------------------------------------------------------
Init ==
  /\ status = [s \in Sessions |-> "NONE"]
  /\ budget = [s \in Sessions |-> NoBudget]
  /\ log = [s \in Sessions |-> [k \in Steps |-> NoAction]]
  /\ appr = [s \in Sessions |-> [k \in Steps |-> "NONE"]]
  /\ journal = [s \in Sessions |-> "empty"]
  /\ verdict = [s \in Sessions |-> "none"]
  /\ lock = "free"
  /\ proc = [p \in Procs |-> Idle]
  /\ expired = [s \in Sessions |-> {}]
  /\ moved = [s \in Sessions |-> {}]
  /\ late = [s \in Sessions |-> FALSE]
  /\ executed = [s \in Sessions |-> [k \in Steps |-> 0]]
  /\ asked = [s \in Sessions |-> 0]
  /\ consented = [s \in Sessions |-> {}]
  /\ reverted = {}
  /\ faults = 0
  /\ env = 0

-----------------------------------------------------------------------------
(* The lock file and the commands that take it                              *)

\* `cah run`: open(path, "x") succeeds for one process only; a process that
\* finds the file raises WorkspaceBusy and nothing has changed.
StartRun(p) ==
  /\ At(p, "idle")
  /\ \E s \in Sessions : status[s] = "NONE"
  /\ lock = "free"
  /\ lock' = p
  /\ Go(p, "create")
  /\ UNCHANGED <<tables, clocks, history, bounds>>

\* A session that is paused or awaits a decision does not count as active.
Bug_ProjectBusy == \E t \in Sessions : status[t] \in {"CREATED", "RUNNING"}
ProjectBusy == \E t \in Sessions : status[t] \in ActiveStatuses

\* create_session: one active session per project, else active_session_exists.
CreateSession(p) ==
  /\ At(p, "create")
  /\ \/ /\ ProjectBusy
        /\ Go(p, "release")
        /\ UNCHANGED status
     \/ /\ ~ProjectBusy
        /\ \E s \in Sessions :
             /\ status[s] = "NONE"
             /\ \A t \in 1..(s - 1) : status[t] # "NONE"
             /\ Set(s, "CREATED")
             /\ proc' = [proc EXCEPT ![p].pc = "run", ![p].sid = s]
  /\ UNCHANGED <<budget, log, appr, journal, verdict, lock, clocks, history,
                 bounds>>

\* `cah sessions resume`: the status is read before the lock is taken.
StartResume(p, s) ==
  /\ At(p, "idle")
  /\ status[s] \in Resumable
  /\ proc' = [proc EXCEPT ![p].pc = "acquire", ![p].sid = s]
  /\ UNCHANGED <<tables, lock, clocks, history, bounds>>

\* open(path, "w"): an existing lock file is taken over.
Bug_TakeLock(p) == lock' = p
TakeLock(p) == lock = "free" /\ lock' = p

\* WorkspaceBusy.
\* The command waits until the file is gone.
Bug_Busy(p) == FALSE
Busy(p) == lock # "free" /\ UNCHANGED lock /\ Quit(p)

Acquire(p) ==
  /\ At(p, "acquire")
  /\ \/ TakeLock(p) /\ Go(p, "recover")
     \/ Busy(p)
  /\ UNCHANGED <<tables, clocks, history, bounds>>

\* The file is created but writing the pid into it fails: the command reports
\* WorkspaceBusy, holds nothing, and never unlinks the file.
LeakLock(p) ==
  /\ \/ At(p, "acquire")
     \/ At(p, "idle") /\ \E s \in Sessions : status[s] = "NONE"
  /\ lock = "free"
  /\ lock' = "stale"
  /\ Quit(p)
  /\ Fault
  /\ UNCHANGED <<tables, clocks, history>>

\* lock.release() in `finally`, after a result or an exception.
Release(p) ==
  /\ At(p, "release")
  /\ lock' = "free"
  /\ Quit(p)
  /\ UNCHANGED <<tables, clocks, history, bounds>>

-----------------------------------------------------------------------------
(* HarnessEngine.run                                                        *)

\* A session that is neither CREATED nor RUNNING is session_not_runnable.
EngineRun(p) ==
  LET s == Sid(p) IN
  /\ At(p, "run")
  /\ \/ /\ status[s] \in {"CREATED", "RUNNING"}
        /\ verdict' = IF status[s] = "CREATED"
                      THEN [verdict EXCEPT ![s] = "baseline"] ELSE verdict
        /\ Set(s, "RUNNING")
        /\ proc' = [proc EXCEPT ![p].pc = "loop", ![p].trk = TrackerOf(s),
                                ![p].perr = 0, ![p].step = 0]
     \/ /\ status[s] \notin {"CREATED", "RUNNING"}
        /\ Go(p, "release")
        /\ UNCHANGED <<status, verdict>>
  /\ UNCHANGED <<budget, log, appr, journal, lock, clocks, history, bounds>>

\* A spent budget pauses the session. Otherwise the call is counted and saved
\* before it is made, unless the context cannot be built.
LoopTop(p) ==
  LET s == Sid(p) t == proc[p].trk IN
  /\ At(p, "loop")
  /\ \/ /\ StopReason(t, s)
        /\ Save(p, t)
        /\ Pause(p, "PAUSED_LIMIT_REACHED")
     \/ /\ ~StopReason(t, s)
        /\ UNCHANGED budget
        /\ Pause(p, "PAUSED_INTERNAL_ERROR")
     \/ /\ ~StopReason(t, s)
        /\ Save(p, RecordedCall(t))
        /\ proc' = [proc EXCEPT ![p].pc = "ask", ![p].trk = RecordedCall(t)]
        /\ UNCHANGED status
  /\ UNCHANGED <<log, appr, journal, verdict, lock, clocks, history, bounds>>

\* The model errs, answers what is not an action (twice in a row ends the
\* run), or proposes an action.
AskLlm(p) ==
  /\ At(p, "ask")
  /\ asked' = [asked EXCEPT ![Sid(p)] = @ + 1]
  /\ \/ Pause(p, "PAUSED_INTERNAL_ERROR")
     \/ /\ proc[p].perr + 1 >= 2
        /\ Pause(p, "PAUSED_PROTOCOL_ERROR")
     \/ /\ proc[p].perr + 1 < 2
        /\ proc' = [proc EXCEPT ![p].pc = "loop", ![p].perr = @ + 1]
        /\ UNCHANGED status
     \/ \E a \in Actions :
        /\ proc' = [proc EXCEPT ![p].pc = "authorize", ![p].perr = 0,
                                ![p].act = a]
        /\ UNCHANGED status
  /\ UNCHANGED <<budget, log, appr, journal, verdict, lock, clocks, executed,
                 consented, reverted, bounds>>

-----------------------------------------------------------------------------
(* PolicyGateway.authorize and what the engine does with the decision       *)

\* record_action: the row of a step is inserted once.
RecordAction(s, k, a) ==
  /\ log[s][k] = NoAction
  /\ log' = [log EXCEPT ![s][k] = a]

\* request_in_transaction: PROPOSED and PENDING within one transaction.
RequestApproval(s, k) == appr' = [appr EXCEPT ![s][k] = "PENDING"]

\* One transaction inserts the action, its decision and, for a gated action,
\* its PENDING approval. A raise before the commit (UNIQUE(session_id, step)
\* included) or from the audit flush after it pauses the session.
Authorize(p) ==
  LET s == Sid(p)
      k == proc[p].trk.steps + 1
      a == proc[p].act
      Commit == /\ RecordAction(s, k, a)
                /\ IF a \in Gated THEN RequestApproval(s, k)
                                  ELSE UNCHANGED appr
  IN
  /\ At(p, "authorize")
  /\ k \in Steps
  /\ \/ /\ Commit
        /\ proc' = [proc EXCEPT ![p].pc = "record", ![p].act = NoAction,
                                ![p].step = k]
        /\ UNCHANGED <<status, bounds>>
     \/ /\ Commit
        /\ Pause(p, "PAUSED_INTERNAL_ERROR")
        /\ Fault
     \/ /\ log[s][k] # NoAction
        /\ Pause(p, "PAUSED_INTERNAL_ERROR")
        /\ UNCHANGED <<log, appr, bounds>>
     \/ /\ log[s][k] = NoAction
        /\ Pause(p, "PAUSED_INTERNAL_ERROR")
        /\ Fault
        /\ UNCHANGED <<log, appr>>
  /\ UNCHANGED <<budget, journal, verdict, lock, clocks, history>>

\* Where the engine goes with the decision.
Dispatch(a) ==
  CASE a \in Denied -> "loop"
    [] a \in Gated -> "pause"
    [] a \in Finishing -> "final"
    [] a \in Allowed -> "execute"

\* record_step comes before the dispatch.
RecordStep(p) ==
  LET a == log[Sid(p)][proc[p].step]
      t == RecordedStep(proc[p].trk, a)
  IN
  /\ At(p, "record")
  /\ Save(p, t)
  /\ proc' = [proc EXCEPT ![p].trk = t, ![p].pc = Dispatch(a)]
  /\ UNCHANGED <<status, log, appr, journal, verdict, lock, clocks, history,
                 bounds>>

PauseForApproval(p) ==
  /\ At(p, "pause")
  /\ Pause(p, "PAUSED_APPROVAL")
  /\ UNCHANGED <<budget, log, appr, journal, verdict, lock, clocks, history,
                 bounds>>

\* The validators of stage FINAL run and their results are stored. What the
\* engine goes on with are the results in its hand.
FinalValidation(p) ==
  /\ At(p, "final")
  /\ \E open \in BOOLEAN :
       /\ verdict' = [verdict EXCEPT ![Sid(p)] =
                        IF open THEN "final_passed" ELSE "final_failed"]
       /\ proc' = [proc EXCEPT ![p].pc = "conclude", ![p].gate = open]
  /\ UNCHANGED <<status, budget, log, appr, journal, lock, clocks, history,
                 bounds>>

Conclude(p) ==
  /\ At(p, "conclude")
  /\ Pause(p, IF proc[p].gate THEN "SUCCEEDED" ELSE "NEEDS_USER_DECISION")
  /\ UNCHANGED <<budget, log, appr, journal, verdict, lock, clocks, history,
                 bounds>>

-----------------------------------------------------------------------------
(* Dispatcher.execute and _execute_grant                                    *)

\* After the approved action the engine enters run() again; in the loop the
\* next iteration follows.
AfterTool(p) ==
  IF log[Sid(p)][proc[p].step] \in Gated THEN "run" ELSE "loop"

\* is_consumed_approval.
\* An approval that is still APPROVED is looked for, which consume has changed.
Bug_ConsumedApproval(s, k) == log[s][k] \in Gated /\ appr[s][k] = "APPROVED"
ConsumedApproval(s, k) == log[s][k] \in Gated /\ appr[s][k] = "CONSUMED"

\* The grant is checked against the stored rows before any tool runs.
Dispatchable(s, k) == log[s][k] \in Allowed \/ ConsumedApproval(s, k)

\* A finished edit adds a change row that matches its file; an older row of
\* the same file may stop matching, or match again. An edit that is cut short
\* leaves either nothing or a row without its after_digest.
JournalAfter(s, k, done) ==
  CASE log[s][k] \notin Edits -> {journal[s]}
    [] log[s][k] \in Edits /\ done /\ journal[s] = "empty" -> {"clean"}
    [] log[s][k] \in Edits /\ done /\ journal[s] # "empty" -> {"clean", "drift"}
    [] log[s][k] \in Edits /\ ~done -> {journal[s], "drift"}

\* The tool of the step runs, to its end or not.
RunTool(s, k, done) ==
  /\ executed' = [executed EXCEPT ![s][k] = @ + 1]
  /\ \E j \in JournalAfter(s, k, done) : journal' = [journal EXCEPT ![s] = j]
  /\ verdict' = IF log[s][k] \in Edits
                THEN [verdict EXCEPT ![s] = "edited"] ELSE verdict

\* A tool that failed is started again.
Bug_ToolFailed(p) == UNCHANGED <<status, proc>>
ToolFailed(p) == Pause(p, "NEEDS_USER_DECISION")

Execute(p) ==
  LET s == Sid(p) k == proc[p].step IN
  /\ At(p, "execute")
  /\ \/ /\ ~Dispatchable(s, k)
        /\ ToolFailed(p)
        /\ UNCHANGED <<executed, journal, verdict>>
     \/ /\ Dispatchable(s, k)
        /\ RunTool(s, k, TRUE)
        /\ Go(p, IF log[s][k] \in Edits THEN "fast" ELSE AfterTool(p))
        /\ UNCHANGED status
     \/ /\ Dispatchable(s, k)
        /\ RunTool(s, k, FALSE)
        /\ ToolFailed(p)
  /\ UNCHANGED <<budget, log, appr, lock, clocks, asked, consented, reverted,
                 bounds>>

FastValidation(p) ==
  /\ At(p, "fast")
  /\ \E ok \in BOOLEAN :
       LET t == RecordedValidation(proc[p].trk, ok) IN
       /\ Save(p, t)
       /\ proc' = [proc EXCEPT ![p].trk = t, ![p].pc = AfterTool(p)]
  /\ UNCHANGED <<status, log, appr, journal, verdict, lock, clocks, history,
                 bounds>>

-----------------------------------------------------------------------------
(* SessionService._resume_and_run_locked                                    *)

PendingApprovals(s) == {k \in Steps : appr[s][k] = "PENDING"}

\* resume(): the change rows are compared with the files.
Recover(p) ==
  LET s == Sid(p) IN
  /\ At(p, "recover")
  /\ \/ /\ journal[s] = "drift"
        /\ proc' = [proc EXCEPT ![p].pc = "invalidate", ![p].todo = PendingApprovals(s)]
     \/ /\ journal[s] # "drift"
        /\ Go(p, IF status[s] = "PAUSED_APPROVAL" THEN "resolve"
                 ELSE IF status[s] = "PAUSED_WORKSPACE_DRIFT" THEN "release"
                 ELSE "run")
  /\ UNCHANGED <<tables, lock, clocks, history, bounds>>

\* invalidate_for_session: each listed approval in a transaction of its own;
\* one that was denied or has expired in the meantime raises.
Invalidate(p) ==
  LET s == Sid(p) IN
  /\ At(p, "invalidate")
  /\ \E k \in proc[p].todo :
       /\ \A j \in proc[p].todo : k <= j
       /\ \/ /\ SetApproval(s, k, "INVALIDATED")
             /\ proc' = [proc EXCEPT ![p].todo = @ \ {k}]
          \/ /\ <<appr[s][k], "INVALIDATED">> \notin ApprovalTransitions
             /\ Go(p, "release")
             /\ UNCHANGED appr
  /\ UNCHANGED <<status, budget, log, journal, verdict, lock, clocks, history,
                 bounds>>

\* Only a RUNNING session may enter PAUSED_WORKSPACE_DRIFT; for the others
\* transition_session raises illegal_session_transition.
DriftPause(p) ==
  /\ At(p, "invalidate")
  /\ proc[p].todo = {}
  /\ Pause(p, "PAUSED_WORKSPACE_DRIFT")
  /\ UNCHANGED <<budget, log, appr, journal, verdict, lock, clocks, history,
                 bounds>>

\* The approvals after which the session goes on without the action.
\* One that was invalidated is taken for an undecided one.
Bug_Refused == {"DENIED", "EXPIRED"}
Refused == {"DENIED", "EXPIRED", "INVALIDATED"}

\* What becomes of a PAUSED_APPROVAL session depends on its latest approval.
Resolve(p) ==
  LET s == Sid(p) k == LatestApproval(s) IN
  /\ At(p, "resolve")
  /\ \/ /\ k # 0 => appr[s][k] \notin Refused \cup {"APPROVED"}
        /\ Go(p, "release")
        /\ UNCHANGED status
     \/ /\ k # 0 /\ appr[s][k] = "APPROVED"
        /\ proc' = [proc EXCEPT ![p].pc = "consume", ![p].step = k]
        /\ UNCHANGED status
     \/ /\ k # 0 /\ appr[s][k] \in Refused
        /\ IF Legal(s, "RUNNING")
           THEN Set(s, "RUNNING") /\ Go(p, "run")
           ELSE UNCHANGED status /\ Go(p, "release")
  /\ UNCHANGED <<budget, log, appr, journal, verdict, lock, clocks, history,
                 bounds>>

\* ApprovalService.consume reads the approval and checks it against the
\* clock and the workspace; what fails the check is closed for good.
ConsumeCheck(p) ==
  LET s == Sid(p)
      k == proc[p].step
      Refuse(target) == SetApproval(s, k, target) /\ Go(p, "release")
  IN
  /\ At(p, "consume")
  /\ \/ /\ appr[s][k] # "APPROVED"
        /\ Go(p, "release")
        /\ UNCHANGED appr
     \/ /\ appr[s][k] = "APPROVED"
        /\ k \in expired[s]
        /\ Refuse("EXPIRED")
     \/ /\ appr[s][k] = "APPROVED"
        /\ k \in moved[s] \ expired[s]
        /\ Refuse("INVALIDATED")
     \/ /\ appr[s][k] = "APPROVED"
        /\ k \notin moved[s] \cup expired[s]
        /\ Go(p, "commit")
        /\ UNCHANGED appr
  /\ UNCHANGED <<status, budget, log, journal, verdict, lock, clocks, history,
                 bounds>>

\* The transaction of consume; the audit flush after it can still raise.
ConsumeCommit(p) ==
  LET s == Sid(p) k == proc[p].step IN
  /\ At(p, "commit")
  /\ \/ /\ SetApproval(s, k, "CONSUMED")
        /\ \/ Go(p, "granted") /\ UNCHANGED bounds
           \/ Go(p, "release") /\ Fault
     \/ /\ <<appr[s][k], "CONSUMED">> \notin ApprovalTransitions
        /\ Go(p, "release")
        /\ UNCHANGED <<appr, bounds>>
  /\ UNCHANGED <<status, budget, log, journal, verdict, lock, clocks, history>>

\* The session stays PAUSED_APPROVAL while the approved action runs.
Bug_Reopen(s) == status[s] = "PAUSED_APPROVAL" /\ UNCHANGED status
Reopen(s) == status[s] = "PAUSED_APPROVAL" /\ Set(s, "RUNNING")

\* continue_approved: back to RUNNING, with no look at the budget.
ContinueApproved(p) ==
  LET s == Sid(p) IN
  /\ At(p, "granted")
  /\ \/ /\ Reopen(s)
        /\ proc' = [proc EXCEPT ![p].pc = "execute", ![p].trk = TrackerOf(s)]
     \/ /\ status[s] # "PAUSED_APPROVAL"
        /\ Go(p, "release")
        /\ UNCHANGED status
  /\ UNCHANGED <<budget, log, appr, journal, verdict, lock, clocks, history,
                 bounds>>

-----------------------------------------------------------------------------
(* The user's commands. None of them takes the workspace lock.              *)

\* `cah approvals approve`: past its deadline the approval expires instead.
Approve(s, k) ==
  /\ \/ /\ k \in expired[s]
        /\ SetApproval(s, k, "EXPIRED")
        /\ UNCHANGED consented
     \/ /\ k \notin expired[s]
        /\ SetApproval(s, k, "APPROVED")
        /\ consented' = [consented EXCEPT ![s] = @ \cup {k}]
  /\ UNCHANGED <<status, budget, log, journal, verdict, lock, proc, clocks,
                 executed, asked, reverted, bounds>>

Deny(s, k) ==
  /\ SetApproval(s, k, "DENIED")
  /\ consented' = [consented EXCEPT ![s] = @ \ {k}]
  /\ UNCHANGED <<status, budget, log, journal, verdict, lock, proc, clocks,
                 executed, asked, reverted, bounds>>

\* `cah changes keep`: the status is read, then the transition is attempted.
StartKeep(p, s) ==
  /\ At(p, "idle")
  /\ status[s] = "NEEDS_USER_DECISION"
  /\ proc' = [proc EXCEPT ![p].pc = "keep", ![p].sid = s]
  /\ UNCHANGED <<tables, lock, clocks, history, bounds>>

Keep(p) ==
  /\ At(p, "keep")
  /\ IF Legal(Sid(p), "CHANGES_KEPT")
     THEN Set(Sid(p), "CHANGES_KEPT") ELSE UNCHANGED status
  /\ Quit(p)
  /\ UNCHANGED <<budget, log, appr, journal, verdict, lock, clocks, history,
                 bounds>>

\* `cah changes rollback`: any status is accepted.
StartRollback(p, s) ==
  /\ At(p, "idle")
  /\ status[s] # "NONE"
  /\ proc' = [proc EXCEPT ![p].pc = "rollback", ![p].sid = s,
                          ![p].seen = status[s] = "NEEDS_USER_DECISION"]
  /\ UNCHANGED <<tables, lock, clocks, history, bounds>>

\* The command goes on to the status only if it saw NEEDS_USER_DECISION.
RollbackEnds(p) == IF proc[p].seen THEN Go(p, "rolled") ELSE Quit(p)

\* workspace_drift: the command raises.
\* The refusal is swallowed.
Bug_RollbackRefused(p) == RollbackEnds(p)
RollbackRefused(p) == Quit(p)

\* A validation that passed was of the files before the rollback.
AfterUndo(v) == IF v = "final_passed" THEN "undone" ELSE v

\* ChangeJournal.rollback refuses when a row does not match its file. The
\* files it writes back no longer match their rows, nor, if an approval was
\* bound to one of them, that approval's workspace fingerprint. It can stop
\* half way.
RollbackFiles(p) ==
  LET s == Sid(p) IN
  /\ At(p, "rollback")
  /\ \/ /\ journal[s] = "drift"
        /\ RollbackRefused(p)
        /\ UNCHANGED <<journal, verdict, moved, reverted, bounds>>
     \/ /\ journal[s] = "empty"
        /\ RollbackEnds(p)
        /\ UNCHANGED <<journal, verdict, moved, reverted, bounds>>
     \/ /\ journal[s] = "clean"
        /\ verdict' = [verdict EXCEPT ![s] = AfterUndo(@)]
        /\ \E j \in {"clean", "drift"} : journal' = [journal EXCEPT ![s] = j]
        /\ \E K \in {{}, {LatestApproval(s)} \ {0}} :
             moved' = [moved EXCEPT ![s] = @ \cup K]
        /\ \/ /\ RollbackEnds(p)
              /\ reverted' = reverted \cup {s}
              /\ UNCHANGED bounds
           \/ Quit(p) /\ Fault /\ UNCHANGED reverted
  /\ UNCHANGED <<status, budget, log, appr, lock, expired, late, executed,
                 asked, consented>>

RollbackStatus(p) ==
  /\ At(p, "rolled")
  /\ IF Legal(Sid(p), "ROLLED_BACK")
     THEN Set(Sid(p), "ROLLED_BACK") ELSE UNCHANGED status
  /\ Quit(p)
  /\ UNCHANGED <<budget, log, appr, journal, verdict, lock, clocks, history,
                 bounds>>

-----------------------------------------------------------------------------
(* Time, other programs that edit files, exceptions and kills               *)

Env ==
  /\ env < MaxEnv /\ MoreAllowed
  /\ env' = env + 1 /\ UNCHANGED faults

\* Every approval has the same lifetime, so an earlier one expires first.
Expire(s, k) ==
  /\ appr[s][k] # "NONE"
  /\ k \notin expired[s]
  /\ \A j \in 1..(k - 1) : appr[s][j] # "NONE" => j \in expired[s]
  /\ expired' = [expired EXCEPT ![s] = @ \cup {k}]
  /\ Env
  /\ UNCHANGED <<tables, lock, proc, moved, late, history>>

SessionTimeout(s) ==
  /\ status[s] # "NONE"
  /\ ~late[s]
  /\ late' = [late EXCEPT ![s] = TRUE]
  /\ Env
  /\ UNCHANGED <<tables, lock, proc, expired, moved, history>>

\* A file of the journal is edited, or one that an open approval is bound to.
EditFile(s) ==
  /\ \/ /\ journal[s] # "empty"
        /\ journal' = [journal EXCEPT ![s] =
                         IF @ = "clean" THEN "drift" ELSE "clean"]
        /\ UNCHANGED moved
     \/ /\ LatestApproval(s) # 0
        /\ moved' = [moved EXCEPT ![s] = @ \cup {LatestApproval(s)}]
        /\ UNCHANGED journal
  /\ Env
  /\ UNCHANGED <<status, budget, log, appr, verdict, lock, proc, expired, late,
                 history>>

\* Whatever stops a process in Execute may stop it inside the tool, and in
\* AskLlm after the request has been sent.
CutShort(p) ==
  LET s == Sid(p) k == proc[p].step IN
  \/ UNCHANGED <<executed, journal, verdict, asked>>
  \/ /\ At(p, "execute")
     /\ Dispatchable(s, k)
     /\ RunTool(s, k, FALSE)
     /\ UNCHANGED asked
  \/ /\ At(p, "ask")
     /\ asked' = [asked EXCEPT ![s] = @ + 1]
     /\ UNCHANGED <<executed, journal, verdict>>

\* A raise that the command does not catch: Ctrl-C, a StorageError.
Abort(p) ==
  /\ lock = p
  /\ ~At(p, "release")
  /\ CutShort(p)
  /\ Go(p, "release")
  /\ Fault
  /\ UNCHANGED <<status, budget, log, appr, lock, clocks, consented, reverted>>

Kill(p) ==
  /\ ~At(p, "idle")
  /\ CutShort(p)
  /\ lock' = IF lock = p THEN "stale" ELSE lock
  /\ Quit(p)
  /\ Fault
  /\ UNCHANGED <<status, budget, log, appr, clocks, consented, reverted>>

-----------------------------------------------------------------------------
Resume(p) ==
  \/ Acquire(p) \/ Recover(p) \/ Invalidate(p) \/ DriftPause(p)
  \/ Resolve(p) \/ ConsumeCheck(p) \/ ConsumeCommit(p) \/ ContinueApproved(p)

Engine(p) ==
  \/ CreateSession(p) \/ EngineRun(p) \/ LoopTop(p) \/ AskLlm(p)
  \/ Authorize(p) \/ RecordStep(p) \/ PauseForApproval(p)
  \/ FinalValidation(p) \/ Conclude(p) \/ Execute(p) \/ FastValidation(p)

Decide(p) == Keep(p) \/ RollbackFiles(p) \/ RollbackStatus(p)

\* The steps that a command takes by itself once it is started.
Continue(p) == Engine(p) \/ Resume(p) \/ Decide(p) \/ Release(p)

Start(p) ==
  \/ StartRun(p)
  \/ \E s \in Sessions : StartResume(p, s) \/ StartKeep(p, s)
                         \/ StartRollback(p, s)

Answer == \E s \in Sessions, k \in Steps : Approve(s, k) \/ Deny(s, k)

Environment ==
  \/ \E s \in Sessions : SessionTimeout(s) \/ EditFile(s)
  \/ \E s \in Sessions, k \in Steps : Expire(s, k)

Failure(p) == LeakLock(p) \/ Abort(p) \/ Kill(p)

Next ==
  \/ \E p \in Procs : Start(p) \/ Continue(p) \/ Failure(p)
  \/ Answer
  \/ Environment

Spec == Init /\ [][Next]_vars

-----------------------------------------------------------------------------
(* Properties                                                               *)

Pcs ==
  {"idle", "create", "acquire", "recover", "invalidate", "resolve", "consume",
   "commit", "granted", "run", "loop", "ask", "authorize", "record", "pause",
   "final", "conclude", "execute", "fast", "release", "keep", "rollback",
   "rolled"}

Budgets == [steps : Nat, calls : Nat, fails : Nat, fps : [Actions -> Nat]]

Locals ==
  [pc : Pcs, sid : Sessions \cup {0}, trk : Budgets, perr : Nat,
   act : Actions \cup {NoAction}, step : Steps \cup {0},
   todo : SUBSET Steps, seen : BOOLEAN, gate : BOOLEAN]

Verdicts ==
  {"none", "baseline", "edited", "final_passed", "final_failed", "undone"}

\* Every variable holds what the code can store in it.
TypeOK ==
  /\ status \in [Sessions -> SessionStatus \cup {"NONE"}]
  /\ budget \in [Sessions -> Budgets]
  /\ log \in [Sessions -> [Steps -> Actions \cup {NoAction}]]
  /\ appr \in [Sessions -> [Steps -> ApprovalStatus \cup {"NONE"}]]
  /\ journal \in [Sessions -> {"empty", "clean", "drift"}]
  /\ verdict \in [Sessions -> Verdicts]
  /\ lock \in Procs \cup {"free", "stale"}
  /\ proc \in [Procs -> Locals]
  /\ expired \in [Sessions -> SUBSET Steps]
  /\ moved \in [Sessions -> SUBSET Steps]
  /\ late \in [Sessions -> BOOLEAN]
  /\ executed \in [Sessions -> [Steps -> Nat]]
  /\ asked \in [Sessions -> Nat]
  /\ consented \in [Sessions -> SUBSET Steps]
  /\ reverted \in SUBSET Sessions
  /\ faults \in Nat
  /\ env \in Nat

Started(s) == {k \in Steps : executed[s][k] > 0}

\* No tool ever starts without authority: its action is one that the policy
\* allows, or a gated one whose approval was consumed and to which the user
\* said yes and did not say no (authorize, consume, Dispatcher.execute).
EffectsGoverned ==
  \A s \in Sessions : \A k \in Started(s) :
    \/ log[s][k] \in Allowed
    \/ log[s][k] \in Gated /\ appr[s][k] = "CONSUMED" /\ k \in consented[s]

\* Whatever crashes and resumes happen, every tool started has been charged
\* to the persisted budget, and no action repeats beyond max_repeated_action
\* (record_step and save_budget_tracker come before the dispatch).
EffectsCharged ==
  \A s \in Sessions :
    /\ \A k \in Started(s) : k <= budget[s].steps
    /\ budget[s].steps <= MaxSteps
    /\ \A a \in Actions :
         /\ Cardinality({k \in Started(s) : log[s][k] = a}) <= budget[s].fps[a]
         /\ budget[s].fps[a] <= MaxRepeat

\* Nor can crashes and resumes buy the session more calls to the model than
\* max_llm_calls: a call is persisted before it is made.
CallsCharged ==
  \A s \in Sessions :
    asked[s] <= budget[s].calls /\ budget[s].calls <= MaxLlmCalls

\* The actions table has no gaps and is at most one row ahead of the persisted
\* step counter, however often the engine was interrupted between the two.
LogContiguous ==
  \A s \in Sessions :
    LET Rows == {k \in Steps : log[s][k] # NoAction} IN
    \/ Rows = 1..budget[s].steps
    \/ Rows = 1..(budget[s].steps + 1)

\* The tracker of a running engine is never stale: no other process has
\* changed the counters since it read them (BudgetTracker.from_session, the
\* workspace lock).
InLoop ==
  {"loop", "ask", "authorize", "record", "pause", "final", "conclude",
   "execute", "fast"}

TrackerFresh ==
  \A p \in Procs :
    proc[p].pc \in InLoop => proc[p].trk = budget[Sid(p)]

\* A session succeeds only on a final validation that passed after the last
\* edit of its tools, although the engine decides on results that it got before
\* other commands had their turn (HarnessEngine.run). Only a rollback, which
\* takes no lock, may have written its files in between or later.
SuccessValidated ==
  \A s \in Sessions :
    status[s] = "SUCCEEDED" => verdict[s] \in {"final_passed", "undone"}

\* ROLLED_BACK is never a lie: a rollback of the session ran to its end, or
\* there was nothing to undo, whatever was refused, stopped half way or decided
\* by another command meanwhile (changes_rollback).
RolledBackMeansReverted ==
  \A s \in Sessions :
    status[s] = "ROLLED_BACK" => s \in reverted \/ journal[s] = "empty"

\* One project never has two sessions that could still write
\* (create_session, the index one_active_writer).
OneActiveSession ==
  \A s, t \in Sessions :
    status[s] \in ActiveStatuses /\ status[t] \in ActiveStatuses => s = t

\* What the user approved is done: an approval that consume has used up has
\* its tool started by the same command. Each fault costs one approval at most,
\* although consume commits before the session is RUNNING again
\* (consume, continue_approved, _execute_grant).
Granted(s, k) ==
  \E p \in Procs :
    proc[p].pc \in {"granted", "execute"} /\ Sid(p) = s /\ proc[p].step = k

ConsumedStarts ==
  Cardinality({r \in Sessions \X Steps :
                 /\ appr[r[1]][r[2]] = "CONSUMED"
                 /\ executed[r[1]][r[2]] = 0
                 /\ ~ Granted(r[1], r[2])}) <= faults

\* Tools start only in a session that is RUNNING, so that a crash inside a
\* tool leaves a session that resume takes to be interrupted.
EffectsWhileRunning ==
  [][\A s \in Sessions : executed'[s] # executed[s] => status[s] = "RUNNING"]_vars

\* The harness implements Governance: seen through the rows of its tables,
\* every step it takes is one that the promise permits.
Permit(r) ==
  LET s == r[1] k == r[2] IN
  CASE executed[s][k] > 1 -> "started again"
    [] executed[s][k] = 1 -> "started"
    [] executed[s][k] = 0 /\ log[s][k] = NoAction -> "none"
    [] executed[s][k] = 0 /\ log[s][k] \in Denied -> "refused"
    [] executed[s][k] = 0 /\ log[s][k] \in Allowed \cup Finishing -> "allowed"
    [] executed[s][k] = 0 /\ log[s][k] \in Gated ->
         CASE appr[s][k] = "PENDING" -> "waiting"
           [] appr[s][k] = "APPROVED" -> "approved"
           [] appr[s][k] = "CONSUMED" -> "granted"
           [] OTHER -> "refused"

Gov == INSTANCE Governance
  WITH Rows <- Sessions \X Steps,
       permit <- [r \in Sessions \X Steps |-> Permit(r)]

Governed == Gov!Spec

-----------------------------------------------------------------------------
(* Liveness                                                                 *)

\* Where a tool or validators run, and with them processes that other code has
\* started: EngineRun has the baseline of a new session.
InCommand(p) ==
  \/ proc[p].pc \in {"execute", "fast", "final"}
  \/ At(p, "run") /\ status[Sid(p)] = "CREATED"

\* A command that was started runs on: HTTP requests and the database have
\* timeouts, and nothing in a process waits for another one. A tool or a
\* validator need not come to an end: after its time limit and the kill,
\* CommandRunner.run waits for as long as a process out of reach pleases.
\* The user who still has something to decide keeps typing the commands.
LiveSpec ==
  /\ Spec
  /\ \A p \in Procs : WF_vars(Continue(p) /\ ~InCommand(p))
  /\ \A s \in Sessions :
       /\ SF_vars(\E p \in Procs : StartResume(p, s))
       /\ SF_vars(\E p \in Procs : StartKeep(p, s))
       /\ SF_vars(\E p \in Procs : StartRollback(p, s))

\* Every command ends, whatever the model answers and whoever holds the lock,
\* unless one of its tools or validators never does: the budgets bound the loop
\* (stop_reason), a busy lock is not waited for, and no command waits for one
\* that hangs.
CommandsEnd ==
  \A p \in Procs : <>[]InCommand(p) \/ (~At(p, "idle") ~> At(p, "idle"))

\* A session paused for an approval that the user answered, or that expired or
\* was invalidated, goes on when it is resumed, unless the resume finds
\* drift or something was interrupted (_resume_and_run_locked).
Answered(s) ==
  /\ status[s] = "PAUSED_APPROVAL"
  /\ LatestApproval(s) # 0
  /\ appr[s][LatestApproval(s)] # "PENDING"

AnswerTakesEffect ==
  \A s \in Sessions :
    Answered(s) ~> \/ status[s] # "PAUSED_APPROVAL"
                  \/ journal[s] = "drift"
                  \/ faults > 0
=============================================================================
