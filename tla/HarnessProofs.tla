--------------------------- MODULE HarnessProofs ---------------------------
(***************************************************************************)
(* Proofs about Harness, for every number of processes, sessions and steps *)
(* and every budget, in five parts that build on one another: the lock and *)
(* the calls, the status of the sessions, authority, success and the table *)
(* of actions with its charges and its refinement of Governance, and a     *)
(* bound for the steps of a command. Each part states its invariant or its *)
(* measure first.                                                          *)
(***************************************************************************)
EXTENDS Harness, WellFoundedInduction, FiniteSetTheorems, TLAPS

-----------------------------------------------------------------------------
(***************************************************************************)
(* Part 1: the lock, the counters in memory and the calls                  *)
(***************************************************************************)

(* The inductive invariant                                                  *)

\* Where a process owns the lock file.
Held == Pcs \ {"idle", "acquire", "keep", "rollback", "rolled"}

\* Where a process has a session.
Based == Pcs \ {"idle", "create", "release"}

Shape ==
  \A p \in Procs :
    /\ proc[p].pc \in Held => lock = p
    /\ proc[p].pc \in Based => proc[p].sid \in Sessions
    /\ proc[p].pc = "authorize" => proc[p].act \in Actions
    /\ proc[p].pc = "record" =>
         proc[p].step \in Steps /\ log[proc[p].sid][proc[p].step] \in Actions

\* A call that was saved and is not made yet is not among those made.
CallPending ==
  \A p \in Procs :
    proc[p].pc = "ask" => asked[proc[p].sid] < budget[proc[p].sid].calls

IInv == TypeOK /\ Shape /\ TrackerFresh /\ CallsCharged /\ CallPending

-----------------------------------------------------------------------------
(* What a step of process p does to the others and to itself                *)

Others(p) == \A q \in Procs : q # p => proc'[q] = proc[q]

Effect(p) ==
  /\ Others(p)
  /\ \A q \in Procs : q # p /\ lock = q => lock' = q
  /\ proc'[p].pc \in Held => lock' = p
  /\ proc'[p].pc \in Based => proc'[p].sid \in Sessions
  /\ proc'[p].pc = "authorize" => proc'[p].act \in Actions
  /\ proc'[p].pc = "record" =>
       proc'[p].step \in Steps /\ log'[proc'[p].sid][proc'[p].step] \in Actions
  /\ \A s \in Sessions, k \in Steps :
       log[s][k] # NoAction => log'[s][k] = log[s][k]
  /\ UNCHANGED <<budget, asked>> \/ lock = p
  /\ proc'[p].pc \in InLoop => proc'[p].trk = budget'[proc'[p].sid]
  /\ \A s \in Sessions :
       asked'[s] <= budget'[s].calls /\ budget'[s].calls <= MaxLlmCalls
  /\ proc'[p].pc = "ask" =>
       asked'[proc'[p].sid] < budget'[proc'[p].sid].calls

\* Since p holds the lock when it changes what the others rely on, their part
\* of the invariant stays.
LEMMA FrameLemma ==
  ASSUME IInv, TypeOK', NEW p \in Procs, Effect(p)
  PROVE  IInv'
<1>0. NoAction \notin Actions BY ActionsAssumption
<1>1. ASSUME NEW q \in Procs, q # p
      PROVE  proc'[q] = proc[q] /\ (proc[q].pc \in Held => UNCHANGED <<budget, asked>>)
  BY <1>1 DEF Effect, Others, IInv, Shape
<1>2. Shape'
  <2> SUFFICES ASSUME NEW q \in Procs
               PROVE  /\ proc'[q].pc \in Held => lock' = q
                      /\ proc'[q].pc \in Based => proc'[q].sid \in Sessions
                      /\ proc'[q].pc = "authorize" => proc'[q].act \in Actions
                      /\ proc'[q].pc = "record" =>
                           /\ proc'[q].step \in Steps
                           /\ log'[proc'[q].sid][proc'[q].step] \in Actions
    BY DEF Shape
  <2>1. CASE q = p BY <2>1 DEF Effect
  <2>2. CASE q # p
    <3>1. "record" \in Based BY DEF Based, Pcs
    <3> QED BY <1>0, <1>1, <2>2, <3>1 DEF Effect, IInv, Shape
  <2> QED BY <2>1, <2>2
<1>3. InLoop \subseteq Held /\ InLoop \subseteq Based /\ "ask" \in InLoop
  BY DEF InLoop, Held, Based, Pcs
<1>4. TrackerFresh'
  <2> SUFFICES ASSUME NEW q \in Procs, proc'[q].pc \in InLoop
               PROVE  proc'[q].trk = budget'[proc'[q].sid]
    BY DEF TrackerFresh, Sid
  <2>1. CASE q = p BY <2>1 DEF Effect
  <2>2. CASE q # p BY <1>1, <1>3, <2>2 DEF IInv, TrackerFresh, Sid
  <2> QED BY <2>1, <2>2
<1>5. CallsCharged' BY DEF Effect, CallsCharged
<1>6. CallPending'
  <2> SUFFICES ASSUME NEW q \in Procs, proc'[q].pc = "ask"
               PROVE  asked'[proc'[q].sid] < budget'[proc'[q].sid].calls
    BY DEF CallPending
  <2>1. CASE q = p BY <2>1 DEF Effect
  <2>2. CASE q # p BY <1>1, <1>3, <2>2 DEF IInv, CallPending
  <2> QED BY <2>1, <2>2
<1> QED BY <1>2, <1>4, <1>5, <1>6 DEF IInv

\* Most steps leave alone the lock, the log, the counters and the calls made.
LEMMA QuietLemma ==
  ASSUME IInv, NEW p \in Procs, Others(p),
         UNCHANGED <<lock, log, budget, asked>>,
         proc'[p].pc \in Held => proc[p].pc \in Held,
         proc'[p].pc \in Based => proc'[p].sid \in Sessions,
         proc'[p].pc \notin {"authorize", "record", "ask"},
         proc'[p].pc \in InLoop => proc'[p].trk = budget[proc'[p].sid]
  PROVE  Effect(p)
BY DEF IInv, Shape, Effect, CallsCharged

-----------------------------------------------------------------------------
(* How the local state of a process is updated                              *)

LEMMA ProcUpdate ==
  ASSUME TypeOK, NEW p \in Procs, NEW r \in Locals,
         proc' = [proc EXCEPT ![p] = r]
  PROVE  proc' \in [Procs -> Locals] /\ proc'[p] = r /\ Others(p)
BY DEF TypeOK, Others

LEMMA GoFacts ==
  ASSUME TypeOK, NEW p \in Procs, NEW l \in Pcs, Go(p, l)
  PROVE  /\ proc' \in [Procs -> Locals]
         /\ Others(p)
         /\ proc'[p].pc = l
         /\ proc'[p].sid = proc[p].sid /\ proc'[p].trk = proc[p].trk
         /\ proc'[p].act = proc[p].act /\ proc'[p].step = proc[p].step
<1> DEFINE r == [proc[p] EXCEPT !.pc = l]
<1>1. proc[p] \in Locals BY DEF TypeOK
<1>2. r \in Locals /\ r.pc = l /\ r.sid = proc[p].sid /\ r.trk = proc[p].trk
      /\ r.act = proc[p].act /\ r.step = proc[p].step
  BY <1>1 DEF Locals
<1>3. proc' = [proc EXCEPT ![p] = r] BY DEF Go
<1> HIDE DEF r
<1> QED BY <1>2, <1>3, ProcUpdate

LEMMA IdleType == Idle \in Locals /\ Idle.pc = "idle"
<1>1. NoBudget \in Budgets BY DEF NoBudget, Budgets
<1> QED BY <1>1 DEF Idle, Locals, Pcs

LEMMA QuitFacts ==
  ASSUME TypeOK, NEW p \in Procs, Quit(p)
  PROVE  proc' \in [Procs -> Locals] /\ Others(p) /\ proc'[p].pc = "idle"
BY IdleType, ProcUpdate DEF Quit

LEMMA PauseFacts ==
  ASSUME TypeOK, NEW p \in Procs, NEW t \in SessionStatus, Pause(p, t)
  PROVE  /\ proc' \in [Procs -> Locals] /\ Others(p)
         /\ proc'[p].pc = "release"
         /\ status' \in [Sessions -> SessionStatus \cup {"NONE"}]
<1>1. Go(p, "release") BY DEF Pause
<1>2. "release" \in Pcs BY DEF Pcs
<1>3. status' \in [Sessions -> SessionStatus \cup {"NONE"}]
   BY DEF Pause, Set, TypeOK
<1> QED BY <1>1, <1>2, <1>3, GoFacts

LEMMA SetFacts ==
  ASSUME TypeOK, NEW s, NEW t \in SessionStatus, Set(s, t)
  PROVE  status' \in [Sessions -> SessionStatus \cup {"NONE"}]
BY DEF TypeOK, Set

LEMMA SetApprovalFacts ==
  ASSUME TypeOK, NEW s, NEW k, NEW t \in ApprovalStatus, SetApproval(s, k, t)
  PROVE  appr' \in [Sessions -> [Steps -> ApprovalStatus \cup {"NONE"}]]
BY DEF TypeOK, SetApproval

LEMMA SaveFacts ==
  ASSUME TypeOK, NEW p \in Procs, NEW t \in Budgets, Save(p, t), Sid(p) \in Sessions
  PROVE  /\ budget' \in [Sessions -> Budgets]
         /\ budget'[Sid(p)] = t
         /\ \A s \in Sessions : s # Sid(p) => budget'[s] = budget[s]
BY DEF TypeOK, Save

LEMMA RecordedFacts ==
  ASSUME NEW t \in Budgets
  PROVE  /\ RecordedCall(t) \in Budgets
         /\ RecordedCall(t).calls = t.calls + 1
         /\ \A a \in Actions : /\ RecordedStep(t, a) \in Budgets
                               /\ RecordedStep(t, a).calls = t.calls
         /\ \A ok \in BOOLEAN : /\ RecordedValidation(t, ok) \in Budgets
                                /\ RecordedValidation(t, ok).calls = t.calls
<1>1. RecordedCall(t) \in Budgets /\ RecordedCall(t).calls = t.calls + 1
  BY DEF RecordedCall, Budgets
<1>2. ASSUME NEW a \in Actions
      PROVE  RecordedStep(t, a) \in Budgets /\ RecordedStep(t, a).calls = t.calls
  <2> DEFINE f == [t.fps EXCEPT ![a] = @ + 1]
  <2>1. f \in [Actions -> Nat] BY DEF Budgets
  <2>2. RecordedStep(t, a) = [t EXCEPT !.steps = @ + 1, !.fps = f]
    BY DEF RecordedStep
  <2> HIDE DEF f
  <2>3. t.steps + 1 \in Nat /\ t.calls \in Nat /\ t.fails \in Nat BY DEF Budgets
  <2>4. RecordedStep(t, a) =
          [steps |-> t.steps + 1, calls |-> t.calls, fails |-> t.fails, fps |-> f]
    BY <2>2 DEF Budgets
  <2> QED BY <2>1, <2>3, <2>4 DEF Budgets
<1>3. ASSUME NEW ok \in BOOLEAN
      PROVE  /\ RecordedValidation(t, ok) \in Budgets
             /\ RecordedValidation(t, ok).calls = t.calls
  BY DEF RecordedValidation, Budgets
<1> QED BY <1>1, <1>2, <1>3

\* The highest member of a set of steps, which LatestApproval chooses.
LEMMA Greatest ==
  ASSUME NEW n \in Nat, NEW K \in SUBSET (1..n), K # {}
  PROVE  \E k \in K : \A j \in K : j <= k
<1> DEFINE R == {ss \in Nat \X Nat : ss[1] < ss[2]}
           T == {m \in Nat : \E k \in K : m = n - k}
<1>1. IsWellFoundedOn(R, Nat) BY NatLessThanWellFounded DEF OpToRel
<1>2. T \subseteq Nat /\ T # {}
  <2>1. PICK k \in K : TRUE OBVIOUS
  <2>2. n - k \in T BY <2>1
  <2> QED BY <2>2
<1> HIDE DEF R, T
<1>3. PICK m \in T : \A y \in T : ~(<<y, m>> \in R) BY <1>1, <1>2, WFMin
<1>4. PICK k \in K : m = n - k BY DEF T
<1>5. ASSUME NEW j \in K PROVE j <= k
  <2>1. n - j \in T BY DEF T
  <2>2. ~(<<n - j, m>> \in R) BY <1>3, <2>1
  <2>3. ~(n - j < m) BY <2>2, <1>2, <1>4, <2>1 DEF R
  <2> QED BY <2>3, <1>4
<1> QED BY <1>5

LEMMA LatestFacts ==
  ASSUME TypeOK, NEW s \in Sessions
  PROVE  LatestApproval(s) \in Steps \cup {0}
<1> DEFINE K == {k \in Steps : appr[s][k] # "NONE"}
<1>1. CASE K = {} BY <1>1 DEF LatestApproval
<1>2. CASE K # {}
  <2>1. MaxSteps + 1 \in Nat BY BudgetAssumption
  <2>2. K \subseteq 1..(MaxSteps + 1) BY DEF Steps
  <2> HIDE DEF K
  <2>3. \E k \in K : \A j \in K : j <= k BY <1>2, <2>1, <2>2, Greatest
  <2>4. (CHOOSE k \in K : \A j \in K : j <= k) \in K BY <2>3
  <2>5. LatestApproval(s) \in K BY <1>2, <2>4 DEF LatestApproval, K
  <2> QED BY <2>5 DEF K
<1> QED BY <1>1, <1>2

-----------------------------------------------------------------------------
(* The commands and the lock                                                *)

LEMMA StartRunStep ==
  ASSUME IInv, NEW p \in Procs, StartRun(p) PROVE IInv'
<1>1. TypeOK /\ "create" \in Pcs /\ Go(p, "create") /\ lock = "free" /\ lock' = p
      /\ UNCHANGED <<tables, clocks, history, bounds>>
  BY DEF IInv, Pcs, StartRun
<1>2. proc' \in [Procs -> Locals] /\ Others(p) /\ proc'[p].pc = "create"
  BY <1>1, GoFacts
<1>3. TypeOK'
  BY <1>1, <1>2 DEF TypeOK, tables, clocks, history, bounds
<1>4. Effect(p)
  BY <1>1, <1>2, ProcsAssumption
  DEF IInv, CallsCharged, Effect, Based, InLoop, tables, history
<1> QED BY <1>3, <1>4, FrameLemma

LEMMA CreateSessionStep ==
  ASSUME IInv, NEW p \in Procs, CreateSession(p) PROVE IInv'
<1>1. TypeOK /\ proc[p].pc = "create" /\ "create" \in Held
      /\ UNCHANGED <<budget, log, appr, journal, verdict, lock, clocks, history,
                     bounds>>
  BY DEF IInv, Held, Pcs, CreateSession, At
<1>2. CASE Go(p, "release") /\ UNCHANGED status
  <2>1. proc' \in [Procs -> Locals] /\ Others(p) /\ proc'[p].pc = "release"
    BY <1>1, <1>2, GoFacts DEF Pcs
  <2>2. TypeOK' BY <1>1, <1>2, <2>1 DEF TypeOK, clocks, history, bounds
  <2>3. Effect(p)
    BY <1>1, <2>1, QuietLemma DEF Based, InLoop, history
  <2> QED BY <2>2, <2>3, FrameLemma
<1>3. ASSUME NEW s \in Sessions, Set(s, "CREATED"),
             proc' = [proc EXCEPT ![p].pc = "run", ![p].sid = s]
      PROVE  IInv'
  <2> DEFINE r == [proc[p] EXCEPT !.pc = "run", !.sid = s]
  <2>1. proc[p] \in Locals BY <1>1 DEF TypeOK
  <2>2. r \in Locals /\ r.pc = "run" /\ r.sid = s BY <2>1 DEF Locals, Pcs
  <2>3. proc' = [proc EXCEPT ![p] = r] BY <1>3
  <2> HIDE DEF r
  <2>4. proc' \in [Procs -> Locals] /\ Others(p) /\ proc'[p] = r
    BY <1>1, <2>2, <2>3, ProcUpdate
  <2>5. status' \in [Sessions -> SessionStatus \cup {"NONE"}]
    BY <1>1, <1>3, SetFacts DEF SessionStatus
  <2>6. TypeOK' BY <1>1, <2>4, <2>5 DEF TypeOK, clocks, history, bounds
  <2>7. Effect(p)
    BY <1>1, <2>2, <2>4, QuietLemma DEF InLoop, history
  <2> QED BY <2>6, <2>7, FrameLemma
<1> QED BY <1>2, <1>3 DEF CreateSession

\* The commands that a user starts on a session outside of the lock.
LEMMA StartOtherStep ==
  ASSUME IInv, NEW p \in Procs, NEW s \in Sessions,
         StartResume(p, s) \/ StartKeep(p, s) \/ StartRollback(p, s)
  PROVE  IInv'
<1>1. TypeOK /\ UNCHANGED <<tables, lock, clocks, history, bounds>>
  BY DEF IInv, StartResume, StartKeep, StartRollback
<1>2. PICK l \in {"acquire", "keep", "rollback"}, b \in BOOLEAN :
        proc' = [proc EXCEPT ![p] = [proc[p] EXCEPT !.pc = l, !.sid = s, !.seen = b]]
  <2>1. proc[p] \in Locals BY <1>1 DEF TypeOK
  <2>2. CASE StartResume(p, s) \/ StartKeep(p, s)
    <3>1. PICK l \in {"acquire", "keep"} :
            proc' = [proc EXCEPT ![p].pc = l, ![p].sid = s]
      BY <2>2 DEF StartResume, StartKeep
    <3>2. [proc[p] EXCEPT !.pc = l, !.sid = s]
           = [proc[p] EXCEPT !.pc = l, !.sid = s, !.seen = proc[p].seen]
      BY <2>1 DEF Locals
    <3>3. proc[p].seen \in BOOLEAN BY <2>1 DEF Locals
    <3>4. proc' = [proc EXCEPT ![p] = [proc[p] EXCEPT !.pc = l, !.sid = s]]
      BY <3>1
    <3> QED BY <3>2, <3>3, <3>4
  <2>3. CASE StartRollback(p, s)
    BY <2>3 DEF StartRollback
  <2> QED BY <2>2, <2>3
<1> DEFINE r == [proc[p] EXCEPT !.pc = l, !.sid = s, !.seen = b]
<1>3. proc[p] \in Locals BY <1>1 DEF TypeOK
<1>4. r \in Locals /\ r.pc = l /\ r.sid = s BY <1>3 DEF Locals, Pcs
<1> HIDE DEF r
<1>5. proc' \in [Procs -> Locals] /\ Others(p) /\ proc'[p] = r
  BY <1>1, <1>2, <1>4, ProcUpdate DEF r
<1>6. TypeOK' BY <1>1, <1>5 DEF TypeOK, tables, clocks, history, bounds
<1>7. Effect(p)
  BY <1>1, <1>4, <1>5, QuietLemma DEF Held, InLoop, tables, history
<1> QED BY <1>6, <1>7, FrameLemma

\* The ends of a command, and what is given up with it.
LEMMA ReleaseStep ==
  ASSUME IInv, NEW p \in Procs, Release(p) PROVE IInv'
<1>1. TypeOK /\ lock = p /\ lock' = "free" /\ Quit(p)
      /\ UNCHANGED <<tables, clocks, history, bounds>>
  BY DEF IInv, Shape, Held, Pcs, Release, At
<1>2. proc' \in [Procs -> Locals] /\ Others(p) /\ proc'[p].pc = "idle"
  BY <1>1, QuitFacts
<1>3. TypeOK' BY <1>1, <1>2 DEF TypeOK, tables, clocks, history, bounds
<1>4. Effect(p)
  BY <1>1, <1>2
  DEF IInv, CallsCharged, Effect, Held, Based, InLoop, tables, history
<1> QED BY <1>3, <1>4, FrameLemma

LEMMA AcquireStep ==
  ASSUME IInv, NEW p \in Procs, Acquire(p) PROVE IInv'
<1>1. TypeOK /\ proc[p].pc = "acquire" /\ proc[p].sid \in Sessions
      /\ UNCHANGED <<tables, clocks, history, bounds>>
  BY DEF IInv, Shape, Based, Pcs, Acquire, At
<1>2. CASE TakeLock(p) /\ Go(p, "recover")
  <2>1. lock = "free" /\ lock' = p BY <1>2 DEF TakeLock
  <2>2. proc' \in [Procs -> Locals] /\ Others(p)
        /\ proc'[p].pc = "recover" /\ proc'[p].sid = proc[p].sid
    BY <1>1, <1>2, GoFacts DEF Pcs
  <2>3. TypeOK' BY <1>1, <2>1, <2>2 DEF TypeOK, tables, clocks, history, bounds
  <2>4. Effect(p)
    BY <1>1, <2>1, <2>2, ProcsAssumption
    DEF IInv, CallsCharged, Effect, InLoop, tables, history
  <2> QED BY <2>3, <2>4, FrameLemma
<1>3. CASE Busy(p)
  <2>1. proc' \in [Procs -> Locals] /\ Others(p) /\ proc'[p].pc = "idle"
    BY <1>1, <1>3, QuitFacts DEF Busy
  <2>2. TypeOK'
    BY <1>1, <1>3, <2>1 DEF Busy, TypeOK, tables, clocks, history, bounds
  <2>3. Effect(p)
    BY <1>1, <1>3, <2>1, QuietLemma DEF Busy, Held, Based, InLoop, tables, history
  <2> QED BY <2>2, <2>3, FrameLemma
<1> QED BY <1>2, <1>3 DEF Acquire

LEMMA LeakLockStep ==
  ASSUME IInv, NEW p \in Procs, LeakLock(p) PROVE IInv'
<1>1. TypeOK /\ lock = "free" /\ lock' = "stale" /\ Quit(p) /\ Fault
      /\ UNCHANGED <<tables, clocks, history>>
  BY DEF IInv, LeakLock
<1>2. proc' \in [Procs -> Locals] /\ Others(p) /\ proc'[p].pc = "idle"
  BY <1>1, QuitFacts
<1>3. TypeOK' BY <1>1, <1>2 DEF TypeOK, Fault, tables, clocks, history
<1>4. Effect(p)
  BY <1>1, <1>2, ProcsAssumption
  DEF IInv, CallsCharged, Effect, Held, Based, InLoop, tables, history
<1> QED BY <1>3, <1>4, FrameLemma

-----------------------------------------------------------------------------
(* The engine                                                               *)

\* A command that only moves on to its end, or pauses the session first.
LEMMA EndEffect ==
  ASSUME IInv, NEW p \in Procs, Others(p), proc[p].pc \in Held,
         proc'[p].pc = "release", UNCHANGED <<lock, log, budget, asked>>
  PROVE  Effect(p)
BY QuietLemma DEF Based, InLoop

\* One that goes on in the loop with the counters it has.
LEMMA LoopEffect ==
  ASSUME IInv, NEW p \in Procs, Others(p), proc[p].pc \in InLoop,
         proc'[p].pc \in Held, proc'[p].pc \notin {"authorize", "record", "ask"},
         proc'[p].sid = proc[p].sid, proc'[p].trk = proc[p].trk,
         UNCHANGED <<lock, log, budget, asked>>
  PROVE  Effect(p)
<1>1. proc[p].pc \in Held /\ proc[p].pc \in Based BY DEF InLoop, Held, Based, Pcs
<1>2. proc[p].sid \in Sessions BY <1>1 DEF IInv, Shape
<1>3. proc[p].trk = budget[proc[p].sid] BY DEF IInv, TrackerFresh, Sid
<1> QED BY <1>1, <1>2, <1>3, QuietLemma

\* What the invariant says of a process in the loop.
LEMMA InLoopFacts ==
  ASSUME IInv, NEW p \in Procs, proc[p].pc \in InLoop
  PROVE  /\ TypeOK
         /\ proc[p].pc \in Held
         /\ lock = p
         /\ proc[p] \in Locals
         /\ Sid(p) = proc[p].sid /\ proc[p].sid \in Sessions
         /\ proc[p].trk \in Budgets /\ proc[p].trk = budget[proc[p].sid]
<1>1. proc[p].pc \in Held /\ proc[p].pc \in Based BY DEF InLoop, Held, Based, Pcs
<1>2. proc[p] \in Locals BY DEF IInv, TypeOK
<1>3. proc[p].trk \in Budgets BY <1>2 DEF Locals
<1> QED BY <1>1, <1>2, <1>3 DEF IInv, Shape, TrackerFresh, Sid

LEMMA EngineRunStep ==
  ASSUME IInv, NEW p \in Procs, EngineRun(p) PROVE IInv'
<1>1. TypeOK /\ proc[p].pc = "run" /\ proc[p].pc \in Held /\ proc[p].sid \in Sessions
      /\ Sid(p) = proc[p].sid
      /\ UNCHANGED <<budget, log, appr, journal, lock, clocks, history, bounds>>
  BY DEF IInv, Shape, Held, Based, Pcs, EngineRun, At, Sid
<1>2. CASE Go(p, "release") /\ UNCHANGED <<status, verdict>>
  <2>1. proc' \in [Procs -> Locals] /\ Others(p) /\ proc'[p].pc = "release"
    BY <1>1, <1>2, GoFacts DEF Pcs
  <2>2. TypeOK' BY <1>1, <1>2, <2>1 DEF TypeOK, clocks, history, bounds
  <2> QED BY <1>1, <2>1, <2>2, EndEffect, FrameLemma DEF history
<1>3. CASE /\ verdict' = IF status[Sid(p)] = "CREATED"
                         THEN [verdict EXCEPT ![Sid(p)] = "baseline"] ELSE verdict
           /\ Set(Sid(p), "RUNNING")
           /\ proc' = [proc EXCEPT ![p].pc = "loop", ![p].trk = TrackerOf(Sid(p)),
                                   ![p].perr = 0, ![p].step = 0]
  <2> DEFINE r == [proc[p] EXCEPT !.pc = "loop", !.trk = budget[proc[p].sid],
                                  !.perr = 0, !.step = 0]
  <2>1. proc[p] \in Locals /\ budget[proc[p].sid] \in Budgets BY <1>1 DEF TypeOK
  <2>2. r \in Locals /\ r.pc = "loop" /\ r.sid = proc[p].sid
        /\ r.trk = budget[proc[p].sid]
    BY <2>1 DEF Locals, Pcs
  <2>3. proc' = [proc EXCEPT ![p] = r] BY <1>1, <1>3 DEF TrackerOf
  <2> HIDE DEF r
  <2>4. proc' \in [Procs -> Locals] /\ Others(p) /\ proc'[p] = r
    BY <1>1, <2>2, <2>3, ProcUpdate
  <2>5. status' \in [Sessions -> SessionStatus \cup {"NONE"}]
    BY <1>1, <1>3, SetFacts DEF SessionStatus
  <2>6. verdict' \in [Sessions -> Verdicts] BY <1>1, <1>3 DEF TypeOK, Verdicts
  <2>7. TypeOK' BY <1>1, <1>3, <2>4, <2>5, <2>6 DEF TypeOK, clocks, history, bounds
  <2>8. Effect(p)
    BY <1>1, <2>2, <2>4, QuietLemma DEF history
  <2> QED BY <2>7, <2>8, FrameLemma
<1> QED BY <1>2, <1>3 DEF EngineRun

LEMMA LoopTopStep ==
  ASSUME IInv, NEW p \in Procs, LoopTop(p) PROVE IInv'
<1> DEFINE t == proc[p].trk
           c == RecordedCall(t)
<1>1. proc[p].pc \in InLoop /\ At(p, "loop")
      /\ UNCHANGED <<log, appr, journal, verdict, lock, clocks, history, bounds>>
  BY DEF LoopTop, At, InLoop
<1>2. TypeOK /\ proc[p].pc \in Held /\ lock = p /\ proc[p] \in Locals
      /\ Sid(p) = proc[p].sid /\ proc[p].sid \in Sessions
      /\ t \in Budgets /\ t = budget[proc[p].sid]
  BY <1>1, InLoopFacts
<1>3. ASSUME NEW target \in SessionStatus, Pause(p, target), UNCHANGED budget
      PROVE  IInv'
  <2>1. proc' \in [Procs -> Locals] /\ Others(p) /\ proc'[p].pc = "release"
        /\ status' \in [Sessions -> SessionStatus \cup {"NONE"}]
    BY <1>2, <1>3, PauseFacts
  <2>2. TypeOK' BY <1>1, <1>2, <1>3, <2>1 DEF TypeOK, clocks, history, bounds
  <2> QED BY <1>1, <1>2, <1>3, <2>1, <2>2, EndEffect, FrameLemma DEF history
<1>4. CASE Save(p, t) /\ Pause(p, "PAUSED_LIMIT_REACHED")
  <2>1. budget' = budget BY <1>2, <1>4 DEF Save, TypeOK
  <2> QED BY <1>3, <1>4, <2>1 DEF SessionStatus
<1>5. CASE UNCHANGED budget /\ Pause(p, "PAUSED_INTERNAL_ERROR")
  BY <1>3, <1>5 DEF SessionStatus
<1>6. CASE /\ ~StopReason(t, Sid(p))
           /\ Save(p, c)
           /\ proc' = [proc EXCEPT ![p].pc = "ask", ![p].trk = c]
           /\ UNCHANGED status
  <2>1. c \in Budgets /\ c.calls = t.calls + 1 /\ t.calls \in Nat
    BY <1>2, RecordedFacts DEF Budgets
  <2> HIDE DEF c
  <2> DEFINE r == [proc[p] EXCEPT !.pc = "ask", !.trk = c]
  <2>2. r \in Locals /\ r.pc = "ask" /\ r.sid = proc[p].sid /\ r.trk = c
    BY <1>2, <2>1 DEF Locals, Pcs
  <2>3. proc' = [proc EXCEPT ![p] = r] BY <1>6
  <2> HIDE DEF r
  <2>4. proc' \in [Procs -> Locals] /\ Others(p) /\ proc'[p] = r
    BY <1>2, <2>2, <2>3, ProcUpdate
  <2>5. budget' \in [Sessions -> Budgets] /\ budget'[proc[p].sid] = c
        /\ \A s \in Sessions : s # proc[p].sid => budget'[s] = budget[s]
    BY <1>2, <1>6, <2>1, SaveFacts
  <2>6. TypeOK' BY <1>1, <1>2, <1>6, <2>4, <2>5 DEF TypeOK, clocks, history, bounds
  <2>7. t.calls < MaxLlmCalls /\ MaxLlmCalls \in Nat
    BY <1>6, <2>1, BudgetAssumption DEF StopReason
  <2>8. asked[proc[p].sid] \in Nat /\ asked[proc[p].sid] <= t.calls
    BY <1>2 DEF IInv, CallsCharged, TypeOK
  <2>9. \A s \in Sessions :
          asked'[s] <= budget'[s].calls /\ budget'[s].calls <= MaxLlmCalls
    BY <1>1, <2>1, <2>5, <2>7, <2>8 DEF IInv, CallsCharged, history
  <2>10. Effect(p)
    BY <1>1, <1>2, <2>1, <2>2, <2>4, <2>5, <2>8, <2>9 DEF Effect, history
  <2> QED BY <2>6, <2>10, FrameLemma
<1> QED BY <1>1, <1>4, <1>5, <1>6 DEF LoopTop

LEMMA AskLlmStep ==
  ASSUME IInv, NEW p \in Procs, AskLlm(p) PROVE IInv'
<1>1. proc[p].pc \in InLoop /\ proc[p].pc = "ask"
      /\ UNCHANGED <<budget, log, appr, journal, verdict, lock, clocks, executed,
                     consented, reverted, bounds>>
  BY DEF AskLlm, At, InLoop
<1>2. TypeOK /\ proc[p].pc \in Held /\ lock = p /\ proc[p] \in Locals
      /\ Sid(p) = proc[p].sid /\ proc[p].sid \in Sessions
      /\ proc[p].trk \in Budgets /\ proc[p].trk = budget[proc[p].sid]
  BY <1>1, InLoopFacts
<1>3. asked' = [asked EXCEPT ![proc[p].sid] = @ + 1] BY <1>2 DEF AskLlm
<1>4. asked' \in [Sessions -> Nat] BY <1>2, <1>3 DEF TypeOK
<1>5. \A s \in Sessions :
        asked'[s] <= budget'[s].calls /\ budget'[s].calls <= MaxLlmCalls
  <2> SUFFICES ASSUME NEW s \in Sessions
               PROVE  asked'[s] <= budget[s].calls /\ budget[s].calls <= MaxLlmCalls
    BY <1>1
  <2>1. asked[s] \in Nat /\ budget[s] \in Budgets BY <1>2 DEF TypeOK
  <2>2. budget[s].calls \in Nat BY <2>1 DEF Budgets
  <2>3. asked[s] <= budget[s].calls /\ budget[s].calls <= MaxLlmCalls
    BY DEF IInv, CallsCharged
  <2>4. asked'[s] = IF s = proc[p].sid THEN asked[s] + 1 ELSE asked[s]
    BY <1>2, <1>3 DEF TypeOK
  <2>5. s = proc[p].sid => asked[s] < budget[s].calls
    BY <1>1 DEF IInv, CallPending
  <2> QED BY <2>1, <2>2, <2>3, <2>4, <2>5
<1> DEFINE Moved == \E r \in Locals :
        /\ proc' = [proc EXCEPT ![p] = r]
        /\ r.pc \in {"release", "loop", "authorize"}
        /\ r.sid = proc[p].sid /\ r.trk = proc[p].trk
        /\ r.pc = "authorize" => r.act \in Actions
        /\ status' \in [Sessions -> SessionStatus \cup {"NONE"}]
<1>6. Moved
  <2>1. ASSUME NEW target \in SessionStatus, Pause(p, target)
        PROVE  Moved
    <3> DEFINE r == [proc[p] EXCEPT !.pc = "release"]
    <3>1. r \in Locals /\ r.pc = "release" /\ r.sid = proc[p].sid
          /\ r.trk = proc[p].trk
      BY <1>2 DEF Locals, Pcs
    <3>2. proc' = [proc EXCEPT ![p] = r] BY <2>1 DEF Pause, Go
    <3> HIDE DEF r
    <3>3. status' \in [Sessions -> SessionStatus \cup {"NONE"}]
      BY <1>2, <2>1, PauseFacts
    <3> QED BY <3>1, <3>2, <3>3
  <2>2. ASSUME UNCHANGED status,
               proc' = [proc EXCEPT ![p].pc = "loop", ![p].perr = @ + 1]
        PROVE  Moved
    <3> DEFINE n == proc[p].perr + 1
               r == [proc[p] EXCEPT !.pc = "loop", !.perr = n]
    <3>0. n \in Nat BY <1>2 DEF Locals
    <3> HIDE DEF n
    <3>1. r \in Locals /\ r.pc = "loop" /\ r.sid = proc[p].sid
          /\ r.trk = proc[p].trk
      BY <1>2, <3>0 DEF Locals, Pcs
    <3>2. proc' = [proc EXCEPT ![p] = r] BY <2>2 DEF n
    <3> HIDE DEF r
    <3> QED BY <1>2, <2>2, <3>1, <3>2 DEF TypeOK
  <2>3. ASSUME NEW a \in Actions, UNCHANGED status,
               proc' = [proc EXCEPT ![p].pc = "authorize", ![p].perr = 0,
                                    ![p].act = a]
        PROVE  Moved
    <3> DEFINE r == [proc[p] EXCEPT !.pc = "authorize", !.perr = 0, !.act = a]
    <3>1. r \in Locals /\ r.pc = "authorize" /\ r.sid = proc[p].sid
          /\ r.trk = proc[p].trk /\ r.act = a
      BY <1>2 DEF Locals, Pcs
    <3>2. proc' = [proc EXCEPT ![p] = r] BY <2>3
    <3> HIDE DEF r
    <3> QED BY <1>2, <2>3, <3>1, <3>2 DEF TypeOK
  <2>4. {"PAUSED_INTERNAL_ERROR", "PAUSED_PROTOCOL_ERROR"} \subseteq SessionStatus
    BY DEF SessionStatus
  <2> HIDE DEF Moved
  <2> QED BY <2>1, <2>2, <2>3, <2>4 DEF AskLlm
<1>7. PICK r \in Locals :
        /\ proc' = [proc EXCEPT ![p] = r]
        /\ r.pc \in {"release", "loop", "authorize"}
        /\ r.sid = proc[p].sid /\ r.trk = proc[p].trk
        /\ r.pc = "authorize" => r.act \in Actions
        /\ status' \in [Sessions -> SessionStatus \cup {"NONE"}]
  BY <1>6
<1>8. proc' \in [Procs -> Locals] /\ Others(p) /\ proc'[p] = r
  BY <1>2, <1>7, ProcUpdate
<1>9. TypeOK' BY <1>1, <1>2, <1>4, <1>7, <1>8 DEF TypeOK, clocks, bounds
<1>10. Effect(p)
  BY <1>1, <1>2, <1>5, <1>7, <1>8 DEF Effect
<1> QED BY <1>9, <1>10, FrameLemma

LEMMA AuthorizeStep ==
  ASSUME IInv, NEW p \in Procs, Authorize(p) PROVE IInv'
<1> DEFINE s == proc[p].sid
           k == proc[p].trk.steps + 1
           a == proc[p].act
<1>1. proc[p].pc \in InLoop /\ proc[p].pc = "authorize" /\ k \in Steps
      /\ UNCHANGED <<budget, journal, verdict, lock, clocks, history>>
  BY DEF Authorize, At, InLoop
<1>2. TypeOK /\ proc[p].pc \in Held /\ lock = p /\ proc[p] \in Locals
      /\ Sid(p) = s /\ s \in Sessions
      /\ proc[p].trk \in Budgets /\ proc[p].trk = budget[s]
  BY <1>1, InLoopFacts
<1>3. a \in Actions BY <1>1 DEF IInv, Shape
<1> DEFINE Commit ==
             /\ log[s][k] = NoAction
             /\ log' = [log EXCEPT ![s][k] = a]
             /\ appr' = IF a \in Gated
                        THEN [appr EXCEPT ![s][k] = "PENDING"] ELSE appr
<1> HIDE DEF s, k, a
<1>4. ASSUME Commit
      PROVE  /\ log' \in [Sessions -> [Steps -> Actions \cup {NoAction}]]
             /\ appr' \in [Sessions -> [Steps -> ApprovalStatus \cup {"NONE"}]]
             /\ log'[s][k] = a
             /\ \A t \in Sessions, j \in Steps :
                  log[t][j] # NoAction => log'[t][j] = log[t][j]
  <2>1. log' \in [Sessions -> [Steps -> Actions \cup {NoAction}]] /\ log'[s][k] = a
    BY <1>1, <1>2, <1>3, <1>4 DEF TypeOK
  <2>2. appr' \in [Sessions -> [Steps -> ApprovalStatus \cup {"NONE"}]]
    BY <1>1, <1>2, <1>4 DEF TypeOK, ApprovalStatus
  <2>3. ASSUME NEW t \in Sessions, NEW j \in Steps, log[t][j] # NoAction
        PROVE  log'[t][j] = log[t][j]
    BY <1>1, <1>2, <1>4, <2>3 DEF TypeOK
  <2> QED BY <2>1, <2>2, <2>3
<1>5. ASSUME Commit \/ UNCHANGED <<log, appr>>, Pause(p, "PAUSED_INTERNAL_ERROR"),
             Fault \/ UNCHANGED bounds
      PROVE  IInv'
  <2>1. proc' \in [Procs -> Locals] /\ Others(p) /\ proc'[p].pc = "release"
        /\ status' \in [Sessions -> SessionStatus \cup {"NONE"}]
    BY <1>2, <1>5, PauseFacts DEF SessionStatus
  <2>2. /\ log' \in [Sessions -> [Steps -> Actions \cup {NoAction}]]
        /\ appr' \in [Sessions -> [Steps -> ApprovalStatus \cup {"NONE"}]]
        /\ \A t \in Sessions, j \in Steps :
             log[t][j] # NoAction => log'[t][j] = log[t][j]
    BY <1>2, <1>4, <1>5 DEF TypeOK
  <2>3. faults' \in Nat /\ env' \in Nat BY <1>2, <1>5 DEF TypeOK, Fault, bounds
  <2>4. TypeOK' BY <1>1, <1>2, <2>1, <2>2, <2>3 DEF TypeOK, clocks, history
  <2>5. Effect(p)
    BY <1>1, <1>2, <2>1, <2>2
    DEF IInv, CallsCharged, Effect, Based, InLoop, history
  <2> QED BY <2>4, <2>5, FrameLemma
<1>6. ASSUME Commit, UNCHANGED <<status, bounds>>,
             proc' = [proc EXCEPT ![p].pc = "record", ![p].act = NoAction,
                                  ![p].step = k]
      PROVE  IInv'
  <2> DEFINE r == [proc[p] EXCEPT !.pc = "record", !.act = NoAction, !.step = k]
  <2>1. r \in Locals /\ r.pc = "record" /\ r.sid = s /\ r.trk = proc[p].trk
        /\ r.step = k
    BY <1>1, <1>2 DEF Locals, Pcs, s
  <2>2. proc' = [proc EXCEPT ![p] = r] BY <1>6
  <2> HIDE DEF r
  <2>3. proc' \in [Procs -> Locals] /\ Others(p) /\ proc'[p] = r
    BY <1>2, <2>1, <2>2, ProcUpdate
  <2>4. TypeOK' BY <1>1, <1>2, <1>4, <1>6, <2>3 DEF TypeOK, clocks, history, bounds
  <2>5. Effect(p)
    BY <1>1, <1>2, <1>3, <1>4, <1>6, <2>1, <2>3
    DEF IInv, CallsCharged, Effect, history
  <2> QED BY <2>4, <2>5, FrameLemma
<1>7. QED
  <2>1. Sid(p) = s BY <1>2
  <2> HIDE DEF Commit
  <2> QED
    BY <1>5, <1>6, <2>1
    DEF Authorize, RecordAction, RequestApproval, bounds, Commit, s, k, a

LEMMA RecordStepStep ==
  ASSUME IInv, NEW p \in Procs, RecordStep(p) PROVE IInv'
<1> DEFINE s == Sid(p)
           a == log[s][proc[p].step]
           t == RecordedStep(proc[p].trk, a)
<1>1. proc[p].pc \in InLoop /\ proc[p].pc = "record"
      /\ UNCHANGED <<status, log, appr, journal, verdict, lock, clocks, history,
                     bounds>>
  BY DEF RecordStep, At, InLoop
<1>2. TypeOK /\ proc[p].pc \in Held /\ lock = p /\ proc[p] \in Locals
      /\ s = proc[p].sid /\ s \in Sessions
      /\ proc[p].trk \in Budgets /\ proc[p].trk = budget[s]
  BY <1>1, InLoopFacts
<1>3. a \in Actions BY <1>1, <1>2 DEF IInv, Shape
<1>4. t \in Budgets /\ t.calls = budget[s].calls BY <1>2, <1>3, RecordedFacts
<1> DEFINE l == Dispatch(a)
           r == [proc[p] EXCEPT !.trk = t, !.pc = l]
<1>5. l \in {"loop", "pause", "final", "execute"} BY <1>3 DEF Actions, Dispatch
<1>6. Save(p, t) /\ proc' = [proc EXCEPT ![p] = r] BY DEF RecordStep
<1> HIDE DEF t, l, a
<1>7. r \in Locals /\ r.pc = l /\ r.trk = t /\ r.sid = s
  BY <1>2, <1>4, <1>5 DEF Locals, Pcs
<1> HIDE DEF r
<1>8. proc' \in [Procs -> Locals] /\ Others(p) /\ proc'[p] = r
  BY <1>2, <1>6, <1>7, ProcUpdate
<1>9. budget' \in [Sessions -> Budgets] /\ budget'[s] = t
      /\ \A u \in Sessions : u # s => budget'[u] = budget[u]
  BY <1>2, <1>4, <1>6, SaveFacts
<1>10. TypeOK' BY <1>1, <1>2, <1>8, <1>9 DEF TypeOK, clocks, history, bounds
<1>11. \A u \in Sessions :
         asked'[u] <= budget'[u].calls /\ budget'[u].calls <= MaxLlmCalls
  BY <1>1, <1>4, <1>9 DEF IInv, CallsCharged, history
<1>12. Effect(p)
  BY <1>1, <1>2, <1>5, <1>7, <1>8, <1>9, <1>11 DEF Effect, history
<1> QED BY <1>10, <1>12, FrameLemma

LEMMA FastValidationStep ==
  ASSUME IInv, NEW p \in Procs, FastValidation(p) PROVE IInv'
<1> DEFINE s == proc[p].sid
<1>1. proc[p].pc \in InLoop
      /\ UNCHANGED <<status, log, appr, journal, verdict, lock, clocks, history,
                     bounds>>
  BY DEF FastValidation, At, InLoop
<1>2. TypeOK /\ proc[p].pc \in Held /\ lock = p /\ proc[p] \in Locals
      /\ Sid(p) = s /\ s \in Sessions
      /\ proc[p].trk \in Budgets /\ proc[p].trk = budget[s]
  BY <1>1, InLoopFacts
<1>3. PICK ok \in BOOLEAN :
        /\ Save(p, RecordedValidation(proc[p].trk, ok))
        /\ proc' = [proc EXCEPT ![p].trk = RecordedValidation(proc[p].trk, ok),
                                ![p].pc = AfterTool(p)]
  BY DEF FastValidation
<1> DEFINE t == RecordedValidation(proc[p].trk, ok)
           l == AfterTool(p)
           r == [proc[p] EXCEPT !.trk = t, !.pc = l]
<1>4. t \in Budgets /\ t.calls = budget[s].calls BY <1>2, RecordedFacts
<1>5. l \in {"loop", "run"} BY DEF AfterTool
<1>6. Save(p, t) /\ proc' = [proc EXCEPT ![p] = r] BY <1>3
<1> HIDE DEF t, l
<1>7. r \in Locals /\ r.pc = l /\ r.trk = t /\ r.sid = s
  BY <1>2, <1>4, <1>5 DEF Locals, Pcs
<1> HIDE DEF r
<1>8. proc' \in [Procs -> Locals] /\ Others(p) /\ proc'[p] = r
  BY <1>2, <1>6, <1>7, ProcUpdate
<1>9. budget' \in [Sessions -> Budgets] /\ budget'[s] = t
      /\ \A u \in Sessions : u # s => budget'[u] = budget[u]
  BY <1>2, <1>4, <1>6, SaveFacts
<1>10. TypeOK' BY <1>1, <1>2, <1>8, <1>9 DEF TypeOK, clocks, history, bounds
<1>11. \A u \in Sessions :
         asked'[u] <= budget'[u].calls /\ budget'[u].calls <= MaxLlmCalls
  BY <1>1, <1>4, <1>9 DEF IInv, CallsCharged, history
<1>12. Effect(p)
  BY <1>1, <1>2, <1>5, <1>7, <1>8, <1>9, <1>11 DEF Effect, history
<1> QED BY <1>10, <1>12, FrameLemma

\* The steps that do nothing but pause the session.
LEMMA PauseStep ==
  ASSUME IInv, NEW p \in Procs,
         PauseForApproval(p) \/ Conclude(p) \/ DriftPause(p)
  PROVE  IInv'
<1>1. TypeOK /\ proc[p].pc \in Held
      /\ UNCHANGED <<budget, log, appr, journal, verdict, lock, clocks, history,
                     bounds>>
  BY DEF IInv, PauseForApproval, Conclude, DriftPause, At, Held, Pcs
<1>2. PICK t \in SessionStatus : Pause(p, t)
  BY DEF PauseForApproval, Conclude, DriftPause, SessionStatus
<1>3. proc' \in [Procs -> Locals] /\ Others(p) /\ proc'[p].pc = "release"
      /\ status' \in [Sessions -> SessionStatus \cup {"NONE"}]
  BY <1>1, <1>2, PauseFacts
<1>4. TypeOK' BY <1>1, <1>3 DEF TypeOK, clocks, history, bounds
<1> QED BY <1>1, <1>3, <1>4, EndEffect, FrameLemma DEF history

\* What the engine goes on with is the result that the history has, so far.
LEMMA FinalFacts ==
  ASSUME TypeOK, NEW p \in Procs, FinalValidation(p)
  PROVE  /\ proc' \in [Procs -> Locals] /\ Others(p) /\ proc'[p].pc = "conclude"
         /\ proc'[p].sid = proc[p].sid /\ proc'[p].trk = proc[p].trk
         /\ proc'[p].gate /\ Sid(p) \in Sessions => verdict'[Sid(p)] = "final_passed"
<1>1. PICK open \in BOOLEAN :
        /\ verdict' = [verdict EXCEPT ![Sid(p)] =
                         IF open THEN "final_passed" ELSE "final_failed"]
        /\ proc' = [proc EXCEPT ![p].pc = "conclude", ![p].gate = open]
  BY DEF FinalValidation
<1> DEFINE r == [proc[p] EXCEPT !.pc = "conclude", !.gate = open]
<1>2. proc[p] \in Locals BY DEF TypeOK
<1>3. "conclude" \in Pcs BY DEF Pcs
<1>4. r \in Locals /\ r.pc = "conclude" /\ r.gate = open
      /\ r.sid = proc[p].sid /\ r.trk = proc[p].trk
  BY <1>2, <1>3 DEF Locals
<1>5. proc' = [proc EXCEPT ![p] = r] BY <1>1
<1> HIDE DEF r
<1>6. proc' \in [Procs -> Locals] /\ proc'[p] = r /\ Others(p)
  BY <1>4, <1>5, ProcUpdate
<1>7. open /\ Sid(p) \in Sessions => verdict'[Sid(p)] = "final_passed"
  BY <1>1 DEF TypeOK
<1> QED BY <1>4, <1>6, <1>7

LEMMA FinalValidationStep ==
  ASSUME IInv, NEW p \in Procs, FinalValidation(p) PROVE IInv'
<1>1. proc[p].pc \in InLoop
      /\ UNCHANGED <<status, budget, log, appr, journal, lock, clocks, history,
                     bounds>>
  BY DEF FinalValidation, At, InLoop
<1>2. TypeOK BY DEF IInv
<1>3. verdict' \in [Sessions -> Verdicts]
  BY <1>2 DEF FinalValidation, TypeOK, Verdicts
<1>4. "conclude" \in Pcs /\ "conclude" \in Held BY DEF Held, Pcs
<1>5. proc' \in [Procs -> Locals] /\ Others(p) /\ proc'[p].pc = "conclude"
      /\ proc'[p].sid = proc[p].sid /\ proc'[p].trk = proc[p].trk
  BY <1>2, FinalFacts
<1>6. TypeOK' BY <1>1, <1>2, <1>3, <1>5 DEF TypeOK, clocks, history, bounds
<1>7. Effect(p) BY <1>1, <1>4, <1>5, LoopEffect DEF history
<1> QED BY <1>6, <1>7, FrameLemma

LEMMA RunToolFacts ==
  ASSUME TypeOK, NEW s \in Sessions, NEW k, NEW done \in BOOLEAN,
         RunTool(s, k, done)
  PROVE  /\ executed' \in [Sessions -> [Steps -> Nat]]
         /\ journal' \in [Sessions -> {"empty", "clean", "drift"}]
         /\ verdict' \in [Sessions -> Verdicts]
<1>1. executed' \in [Sessions -> [Steps -> Nat]]
  <2>1. executed' = [executed EXCEPT ![s] = [executed[s] EXCEPT ![k] = @ + 1]]
    BY DEF RunTool
  <2>2. executed \in [Sessions -> [Steps -> Nat]] /\ executed[s] \in [Steps -> Nat]
    BY DEF TypeOK
  <2>3. ASSUME NEW f \in [Steps -> Nat]
        PROVE  [f EXCEPT ![k] = f[k] + 1] \in [Steps -> Nat]
    <3> DEFINE n == f[k] + 1
    <3>1. k \in Steps => n \in Nat OBVIOUS
    <3> HIDE DEF n
    <3> QED BY <3>1 DEF n
  <2> QED BY <2>1, <2>2, <2>3
<1>2. journal[s] \in {"empty", "clean", "drift"} BY DEF TypeOK
<1>3. JournalAfter(s, k, done) \subseteq {"empty", "clean", "drift"}
  <2>1. CASE log[s][k] \notin Edits BY <1>2, <2>1 DEF JournalAfter
  <2>2. CASE log[s][k] \in Edits /\ done /\ journal[s] = "empty"
    BY <1>2, <2>2 DEF JournalAfter
  <2>3. CASE log[s][k] \in Edits /\ done /\ journal[s] # "empty"
    BY <1>2, <2>3 DEF JournalAfter
  <2>4. CASE log[s][k] \in Edits /\ ~done
    BY <1>2, <2>4 DEF JournalAfter
  <2> QED BY <2>1, <2>2, <2>3, <2>4
<1>4. journal' \in [Sessions -> {"empty", "clean", "drift"}]
  BY <1>3 DEF RunTool, TypeOK
<1>5. verdict' \in [Sessions -> Verdicts]
  BY DEF RunTool, TypeOK, Verdicts
<1> QED BY <1>1, <1>4, <1>5

LEMMA ExecuteStep ==
  ASSUME IInv, NEW p \in Procs, Execute(p) PROVE IInv'
<1> DEFINE s == Sid(p)
           k == proc[p].step
<1>1. proc[p].pc \in InLoop
      /\ UNCHANGED <<budget, log, appr, lock, clocks, asked, consented, reverted,
                     bounds>>
  BY DEF Execute, At, InLoop
<1>2. TypeOK /\ proc[p].pc \in Held /\ s = proc[p].sid /\ s \in Sessions
  BY <1>1, InLoopFacts
<1>3. /\ executed' \in [Sessions -> [Steps -> Nat]]
      /\ journal' \in [Sessions -> {"empty", "clean", "drift"}]
      /\ verdict' \in [Sessions -> Verdicts]
  <2>1. CASE UNCHANGED <<executed, journal, verdict>>
    BY <1>2, <2>1 DEF TypeOK
  <2>2. ASSUME NEW done \in BOOLEAN, RunTool(s, k, done)
        PROVE  /\ executed' \in [Sessions -> [Steps -> Nat]]
               /\ journal' \in [Sessions -> {"empty", "clean", "drift"}]
               /\ verdict' \in [Sessions -> Verdicts]
    BY <1>2, <2>2, RunToolFacts
  <2> QED BY <2>1, <2>2 DEF Execute
<1>4. CASE ToolFailed(p)
  <2>1. proc' \in [Procs -> Locals] /\ Others(p) /\ proc'[p].pc = "release"
        /\ status' \in [Sessions -> SessionStatus \cup {"NONE"}]
    BY <1>2, <1>4, PauseFacts DEF ToolFailed, SessionStatus
  <2>2. TypeOK' BY <1>1, <1>2, <1>3, <2>1 DEF TypeOK, clocks, bounds
  <2> QED BY <1>1, <1>2, <2>1, <2>2, EndEffect, FrameLemma
<1>5. CASE /\ Go(p, IF log[s][k] \in Edits THEN "fast" ELSE AfterTool(p))
           /\ UNCHANGED status
  <2>1. PICK l \in {"fast", "loop", "run"} : Go(p, l)
    BY <1>5 DEF AfterTool
  <2>2. l \in Pcs /\ l \in Held BY DEF Held, Pcs
  <2>3. proc' \in [Procs -> Locals] /\ Others(p) /\ proc'[p].pc = l
        /\ proc'[p].sid = proc[p].sid /\ proc'[p].trk = proc[p].trk
    BY <1>2, <2>1, <2>2, GoFacts
  <2>4. TypeOK' BY <1>1, <1>2, <1>3, <1>5, <2>3 DEF TypeOK, clocks, bounds
  <2>5. Effect(p) BY <1>1, <2>2, <2>3, LoopEffect
  <2> QED BY <2>4, <2>5, FrameLemma
<1> QED BY <1>4, <1>5 DEF Execute

-----------------------------------------------------------------------------
(* The resume                                                               *)

\* What the invariant says of a process on its way to the loop.
LEMMA ResumeFacts ==
  ASSUME IInv, NEW p \in Procs,
         proc[p].pc \in {"recover", "invalidate", "resolve", "consume",
                         "commit", "granted"}
  PROVE  /\ TypeOK
         /\ proc[p].pc \in Held
         /\ proc[p] \in Locals
         /\ Sid(p) = proc[p].sid /\ proc[p].sid \in Sessions
<1>1. proc[p].pc \in Held /\ proc[p].pc \in Based BY DEF Held, Based, Pcs
<1> QED BY <1>1 DEF IInv, TypeOK, Shape, Sid

\* A step of it that leaves the session on the way to the loop, or ends.
LEMMA ResumeEffect ==
  ASSUME IInv, NEW p \in Procs, Others(p), proc[p].pc \in Held,
         proc[p].sid \in Sessions, proc'[p].sid = proc[p].sid,
         proc'[p].pc \in {"recover", "invalidate", "resolve", "consume",
                          "commit", "granted", "run", "release"},
         UNCHANGED <<lock, log, budget, asked>>
  PROVE  Effect(p)
BY QuietLemma DEF InLoop

LEMMA RecoverStep ==
  ASSUME IInv, NEW p \in Procs, Recover(p) PROVE IInv'
<1>1. proc[p].pc = "recover" /\ UNCHANGED <<tables, lock, clocks, history, bounds>>
  BY DEF Recover, At
<1>2. TypeOK /\ proc[p].pc \in Held /\ proc[p] \in Locals
      /\ Sid(p) = proc[p].sid /\ proc[p].sid \in Sessions
  BY <1>1, ResumeFacts
<1>3. PICK r \in Locals :
        /\ proc' = [proc EXCEPT ![p] = r]
        /\ r.pc \in {"invalidate", "resolve", "release", "run"}
        /\ r.sid = proc[p].sid
  <2>1. ASSUME NEW K \in SUBSET Steps,
               proc' = [proc EXCEPT ![p].pc = "invalidate", ![p].todo = K]
        PROVE  \E r \in Locals :
                 /\ proc' = [proc EXCEPT ![p] = r]
                 /\ r.pc = "invalidate" /\ r.sid = proc[p].sid
    <3> DEFINE r == [proc[p] EXCEPT !.pc = "invalidate", !.todo = K]
    <3>1. r \in Locals /\ r.pc = "invalidate" /\ r.sid = proc[p].sid
      BY <1>2 DEF Locals, Pcs
    <3>2. proc' = [proc EXCEPT ![p] = r] BY <2>1
    <3> HIDE DEF r
    <3> QED BY <3>1, <3>2
  <2>2. ASSUME NEW l \in {"resolve", "release", "run"}, Go(p, l)
        PROVE  \E r \in Locals :
                 /\ proc' = [proc EXCEPT ![p] = r]
                 /\ r.pc = l /\ r.sid = proc[p].sid
    <3> DEFINE r == [proc[p] EXCEPT !.pc = l]
    <3>1. r \in Locals /\ r.pc = l /\ r.sid = proc[p].sid
      BY <1>2 DEF Locals, Pcs
    <3>2. proc' = [proc EXCEPT ![p] = r] BY <2>2 DEF Go
    <3> HIDE DEF r
    <3> QED BY <3>1, <3>2
  <2>3. PendingApprovals(Sid(p)) \in SUBSET Steps BY DEF PendingApprovals
  <2>4. CASE journal[Sid(p)] = "drift" BY <2>1, <2>3, <2>4 DEF Recover
  <2>5. CASE journal[Sid(p)] # "drift" BY <2>2, <2>5 DEF Recover
  <2> QED BY <2>4, <2>5
<1>4. proc' \in [Procs -> Locals] /\ Others(p) /\ proc'[p] = r
  BY <1>2, <1>3, ProcUpdate
<1>5. TypeOK' BY <1>1, <1>2, <1>4 DEF TypeOK, tables, clocks, history, bounds
<1>6. Effect(p) BY <1>1, <1>2, <1>3, <1>4, ResumeEffect DEF tables, history
<1> QED BY <1>5, <1>6, FrameLemma

LEMMA InvalidateStep ==
  ASSUME IInv, NEW p \in Procs, Invalidate(p) PROVE IInv'
<1>1. proc[p].pc = "invalidate"
      /\ UNCHANGED <<status, budget, log, journal, verdict, lock, clocks, history,
                     bounds>>
  BY DEF Invalidate, At
<1>2. TypeOK /\ proc[p].pc \in Held /\ proc[p] \in Locals
      /\ Sid(p) = proc[p].sid /\ proc[p].sid \in Sessions
  BY <1>1, ResumeFacts
<1>3. ASSUME NEW k, SetApproval(Sid(p), k, "INVALIDATED"),
             proc' = [proc EXCEPT ![p].todo = @ \ {k}]
      PROVE  IInv'
  <2> DEFINE r == [proc[p] EXCEPT !.todo = @ \ {k}]
  <2>1. r \in Locals /\ r.pc = "invalidate" /\ r.sid = proc[p].sid
    BY <1>1, <1>2 DEF Locals
  <2>2. proc' = [proc EXCEPT ![p] = r] BY <1>3
  <2> HIDE DEF r
  <2>3. proc' \in [Procs -> Locals] /\ Others(p) /\ proc'[p] = r
    BY <1>2, <2>1, <2>2, ProcUpdate
  <2>4. appr' \in [Sessions -> [Steps -> ApprovalStatus \cup {"NONE"}]]
    BY <1>2, <1>3, SetApprovalFacts DEF ApprovalStatus
  <2>5. TypeOK' BY <1>1, <1>2, <2>3, <2>4 DEF TypeOK, clocks, history, bounds
  <2>6. Effect(p) BY <1>1, <1>2, <2>1, <2>3, ResumeEffect DEF history
  <2> QED BY <2>5, <2>6, FrameLemma
<1>4. CASE Go(p, "release") /\ UNCHANGED appr
  <2>1. proc' \in [Procs -> Locals] /\ Others(p) /\ proc'[p].pc = "release"
    BY <1>2, <1>4, GoFacts DEF Pcs
  <2>2. TypeOK' BY <1>1, <1>2, <1>4, <2>1 DEF TypeOK, clocks, history, bounds
  <2> QED BY <1>1, <1>2, <2>1, <2>2, EndEffect, FrameLemma DEF history
<1> QED BY <1>3, <1>4 DEF Invalidate

LEMMA ResolveStep ==
  ASSUME IInv, NEW p \in Procs, Resolve(p) PROVE IInv'
<1>1. proc[p].pc = "resolve"
      /\ UNCHANGED <<budget, log, appr, journal, verdict, lock, clocks, history,
                     bounds>>
  BY DEF Resolve, At
<1>2. TypeOK /\ proc[p].pc \in Held /\ proc[p] \in Locals
      /\ Sid(p) = proc[p].sid /\ proc[p].sid \in Sessions
  BY <1>1, ResumeFacts
<1>3. LatestApproval(Sid(p)) \in Steps \cup {0} BY <1>2, LatestFacts
<1>4. ASSUME NEW l \in {"release", "run"}, Go(p, l),
             UNCHANGED status \/ Set(Sid(p), "RUNNING")
      PROVE  IInv'
  <2>1. proc' \in [Procs -> Locals] /\ Others(p) /\ proc'[p].pc = l
        /\ proc'[p].sid = proc[p].sid
    BY <1>2, <1>4, GoFacts DEF Pcs
  <2>2. status' \in [Sessions -> SessionStatus \cup {"NONE"}]
    BY <1>2, <1>4, SetFacts DEF TypeOK, SessionStatus
  <2>3. TypeOK' BY <1>1, <1>2, <2>1, <2>2 DEF TypeOK, clocks, history, bounds
  <2>4. Effect(p) BY <1>1, <1>2, <2>1, ResumeEffect DEF history
  <2> QED BY <2>3, <2>4, FrameLemma
<1>5. ASSUME NEW k \in Steps \cup {0}, UNCHANGED status,
             proc' = [proc EXCEPT ![p].pc = "consume", ![p].step = k]
      PROVE  IInv'
  <2> DEFINE r == [proc[p] EXCEPT !.pc = "consume", !.step = k]
  <2>1. r \in Locals /\ r.pc = "consume" /\ r.sid = proc[p].sid
    BY <1>2 DEF Locals, Pcs
  <2>2. proc' = [proc EXCEPT ![p] = r] BY <1>5
  <2> HIDE DEF r
  <2>3. proc' \in [Procs -> Locals] /\ Others(p) /\ proc'[p] = r
    BY <1>2, <2>1, <2>2, ProcUpdate
  <2>4. TypeOK' BY <1>1, <1>2, <1>5, <2>3 DEF TypeOK, clocks, history, bounds
  <2>5. Effect(p) BY <1>1, <1>2, <2>1, <2>3, ResumeEffect DEF history
  <2> QED BY <2>4, <2>5, FrameLemma
<1> QED BY <1>3, <1>4, <1>5 DEF Resolve

LEMMA ConsumeCheckStep ==
  ASSUME IInv, NEW p \in Procs, ConsumeCheck(p) PROVE IInv'
<1>1. proc[p].pc = "consume"
      /\ UNCHANGED <<status, budget, log, journal, verdict, lock, clocks, history,
                     bounds>>
  BY DEF ConsumeCheck, At
<1>2. TypeOK /\ proc[p].pc \in Held /\ proc[p].sid \in Sessions
  BY <1>1, ResumeFacts
<1>3. PICK l \in {"release", "commit"} : Go(p, l) BY DEF ConsumeCheck
<1>4. appr' \in [Sessions -> [Steps -> ApprovalStatus \cup {"NONE"}]]
  <2>1. {"EXPIRED", "INVALIDATED"} \subseteq ApprovalStatus BY DEF ApprovalStatus
  <2>2. UNCHANGED appr \/ SetApproval(Sid(p), proc[p].step, "EXPIRED")
        \/ SetApproval(Sid(p), proc[p].step, "INVALIDATED")
    BY DEF ConsumeCheck
  <2> QED BY <1>2, <2>1, <2>2, SetApprovalFacts DEF TypeOK
<1>5. proc' \in [Procs -> Locals] /\ Others(p) /\ proc'[p].pc = l
      /\ proc'[p].sid = proc[p].sid
  BY <1>2, <1>3, GoFacts DEF Pcs
<1>6. TypeOK' BY <1>1, <1>2, <1>4, <1>5 DEF TypeOK, clocks, history, bounds
<1>7. Effect(p) BY <1>1, <1>2, <1>5, ResumeEffect DEF history
<1> QED BY <1>6, <1>7, FrameLemma

LEMMA ConsumeCommitStep ==
  ASSUME IInv, NEW p \in Procs, ConsumeCommit(p) PROVE IInv'
<1>1. proc[p].pc = "commit"
      /\ UNCHANGED <<status, budget, log, journal, verdict, lock, clocks, history>>
  BY DEF ConsumeCommit, At
<1>2. TypeOK /\ proc[p].pc \in Held /\ proc[p].sid \in Sessions
  BY <1>1, ResumeFacts
<1>3. PICK l \in {"release", "granted"} : Go(p, l) BY DEF ConsumeCommit
<1>4. appr' \in [Sessions -> [Steps -> ApprovalStatus \cup {"NONE"}]]
  <2>1. UNCHANGED appr \/ SetApproval(Sid(p), proc[p].step, "CONSUMED")
    BY DEF ConsumeCommit
  <2> QED BY <1>2, <2>1, SetApprovalFacts DEF TypeOK, ApprovalStatus
<1>5. faults' \in Nat /\ env' \in Nat
  BY <1>2 DEF ConsumeCommit, TypeOK, Fault, bounds
<1>6. proc' \in [Procs -> Locals] /\ Others(p) /\ proc'[p].pc = l
      /\ proc'[p].sid = proc[p].sid
  BY <1>2, <1>3, GoFacts DEF Pcs
<1>7. TypeOK' BY <1>1, <1>2, <1>4, <1>5, <1>6 DEF TypeOK, clocks, history
<1>8. Effect(p) BY <1>1, <1>2, <1>6, ResumeEffect DEF history
<1> QED BY <1>7, <1>8, FrameLemma

LEMMA ContinueApprovedStep ==
  ASSUME IInv, NEW p \in Procs, ContinueApproved(p) PROVE IInv'
<1>1. proc[p].pc = "granted"
      /\ UNCHANGED <<budget, log, appr, journal, verdict, lock, clocks, history,
                     bounds>>
  BY DEF ContinueApproved, At
<1>2. TypeOK /\ proc[p].pc \in Held /\ proc[p] \in Locals
      /\ Sid(p) = proc[p].sid /\ proc[p].sid \in Sessions
  BY <1>1, ResumeFacts
<1>3. CASE Go(p, "release") /\ UNCHANGED status
  <2>1. proc' \in [Procs -> Locals] /\ Others(p) /\ proc'[p].pc = "release"
    BY <1>2, <1>3, GoFacts DEF Pcs
  <2>2. TypeOK' BY <1>1, <1>2, <1>3, <2>1 DEF TypeOK, clocks, history, bounds
  <2> QED BY <1>1, <1>2, <2>1, <2>2, EndEffect, FrameLemma DEF history
<1>4. CASE /\ Reopen(Sid(p))
           /\ proc' = [proc EXCEPT ![p].pc = "execute",
                                   ![p].trk = TrackerOf(Sid(p))]
  <2> DEFINE r == [proc[p] EXCEPT !.pc = "execute", !.trk = budget[proc[p].sid]]
  <2>1. budget[proc[p].sid] \in Budgets BY <1>2 DEF TypeOK
  <2>2. r \in Locals /\ r.pc = "execute" /\ r.sid = proc[p].sid
        /\ r.trk = budget[proc[p].sid]
    BY <1>2, <2>1 DEF Locals, Pcs
  <2>3. proc' = [proc EXCEPT ![p] = r] BY <1>2, <1>4 DEF TrackerOf
  <2> HIDE DEF r
  <2>4. proc' \in [Procs -> Locals] /\ Others(p) /\ proc'[p] = r
    BY <1>2, <2>2, <2>3, ProcUpdate
  <2>5. status' \in [Sessions -> SessionStatus \cup {"NONE"}]
    BY <1>2, <1>4, SetFacts DEF Reopen, SessionStatus
  <2>6. TypeOK' BY <1>1, <1>2, <2>4, <2>5 DEF TypeOK, clocks, history, bounds
  <2>7. Effect(p) BY <1>1, <1>2, <2>2, <2>4, QuietLemma DEF history
  <2> QED BY <2>6, <2>7, FrameLemma
<1> QED BY <1>3, <1>4 DEF ContinueApproved

-----------------------------------------------------------------------------
(* The user's decisions, the environment, exceptions and kills              *)

LEMMA KeepStep ==
  ASSUME IInv, NEW p \in Procs, Keep(p) \/ RollbackStatus(p) PROVE IInv'
<1>1. TypeOK /\ Quit(p)
      /\ UNCHANGED <<budget, log, appr, journal, verdict, lock, clocks, history,
                     bounds>>
  BY DEF IInv, Keep, RollbackStatus
<1>2. PICK t \in SessionStatus : UNCHANGED status \/ Set(Sid(p), t)
  BY DEF Keep, RollbackStatus, SessionStatus
<1>3. status' \in [Sessions -> SessionStatus \cup {"NONE"}]
  BY <1>1, <1>2, SetFacts DEF TypeOK
<1>4. proc' \in [Procs -> Locals] /\ Others(p) /\ proc'[p].pc = "idle"
  BY <1>1, QuitFacts
<1>5. TypeOK' BY <1>1, <1>3, <1>4 DEF TypeOK, clocks, history, bounds
<1>6. Effect(p) BY <1>1, <1>4, QuietLemma DEF Held, Based, InLoop, history
<1> QED BY <1>5, <1>6, FrameLemma

LEMMA RollbackFilesStep ==
  ASSUME IInv, NEW p \in Procs, RollbackFiles(p) PROVE IInv'
<1> DEFINE s == Sid(p)
<1>1. proc[p].pc = "rollback"
      /\ UNCHANGED <<status, budget, log, appr, lock, expired, late, executed,
                     asked, consented>>
  BY DEF RollbackFiles, At
<1>2. TypeOK /\ s = proc[p].sid /\ s \in Sessions
  BY <1>1 DEF IInv, Shape, Based, Pcs, Sid
<1>3. LatestApproval(s) \in Steps \cup {0} BY <1>2, LatestFacts
<1>4. Quit(p) \/ Go(p, "rolled")
  BY DEF RollbackFiles, RollbackEnds, RollbackRefused
<1>5. proc' \in [Procs -> Locals] /\ Others(p) /\ proc'[p].pc \in {"idle", "rolled"}
      /\ (proc'[p].pc = "rolled" => proc'[p].sid = proc[p].sid)
  <2>1. "rolled" \in Pcs BY DEF Pcs
  <2>2. CASE Quit(p) BY <1>2, <2>2, QuitFacts
  <2>3. CASE Go(p, "rolled") BY <1>2, <2>1, <2>3, GoFacts
  <2> QED BY <1>4, <2>2, <2>3
<1> HIDE DEF s
<1>6. /\ journal' \in [Sessions -> {"empty", "clean", "drift"}]
      /\ moved' \in [Sessions -> SUBSET Steps]
      /\ reverted' \in SUBSET Sessions
      /\ faults' \in Nat /\ env' \in Nat
  <2>1. CASE UNCHANGED <<journal, moved, reverted, bounds>>
    BY <1>2, <2>1 DEF TypeOK, bounds
  <2>2. CASE /\ \E j \in {"clean", "drift"} : journal' = [journal EXCEPT ![s] = j]
             /\ reverted' \in {reverted, reverted \cup {s}}
             /\ \E K \in {{}, {LatestApproval(s)} \ {0}} :
                  moved' = [moved EXCEPT ![s] = @ \cup K]
             /\ Fault \/ UNCHANGED bounds
    <3>1. PICK K \in SUBSET Steps : moved' = [moved EXCEPT ![s] = @ \cup K]
      BY <1>3, <2>2
    <3>2. moved' \in [Sessions -> SUBSET Steps] BY <1>2, <3>1 DEF TypeOK
    <3>3. faults' \in Nat /\ env' \in Nat BY <1>2, <2>2 DEF TypeOK, Fault, bounds
    <3>4. journal' \in [Sessions -> {"empty", "clean", "drift"}]
          /\ reverted' \in SUBSET Sessions
      BY <1>2, <2>2 DEF TypeOK
    <3> QED BY <3>2, <3>3, <3>4
  <2> QED BY <2>1, <2>2 DEF RollbackFiles, s
<1>7. verdict' \in [Sessions -> Verdicts]
  <2>1. verdict' = verdict \/ verdict' = [verdict EXCEPT ![s] = AfterUndo(verdict[s])]
    BY DEF RollbackFiles, s
  <2>2. verdict[s] \in Verdicts BY <1>2 DEF TypeOK
  <2>3. AfterUndo(verdict[s]) \in Verdicts BY <2>2 DEF AfterUndo, Verdicts
  <2> QED BY <1>2, <2>1, <2>3 DEF TypeOK
<1>8. TypeOK' BY <1>1, <1>2, <1>5, <1>6, <1>7 DEF TypeOK
<1>9. Effect(p) BY <1>1, <1>2, <1>5, QuietLemma DEF Held, Based, InLoop
<1> QED BY <1>8, <1>9, FrameLemma

LEMMA CutShortFacts ==
  ASSUME IInv, NEW p \in Procs, CutShort(p)
  PROVE  /\ executed' \in [Sessions -> [Steps -> Nat]]
         /\ journal' \in [Sessions -> {"empty", "clean", "drift"}]
         /\ verdict' \in [Sessions -> Verdicts]
         /\ asked' \in [Sessions -> Nat]
         /\ UNCHANGED asked \/ lock = p
         /\ \A s \in Sessions : asked'[s] <= budget[s].calls
<1>1. TypeOK /\ \A s \in Sessions : asked[s] <= budget[s].calls
  BY DEF IInv, CallsCharged
<1>2. CASE UNCHANGED <<executed, journal, verdict, asked>>
  BY <1>1, <1>2 DEF TypeOK
<1>3. CASE /\ At(p, "execute") /\ RunTool(Sid(p), proc[p].step, FALSE)
           /\ UNCHANGED asked
  <2>1. Sid(p) \in Sessions BY <1>3 DEF IInv, Shape, At, Based, Pcs, Sid
  <2> QED BY <1>1, <1>3, <2>1, RunToolFacts DEF TypeOK
<1>4. CASE /\ At(p, "ask") /\ asked' = [asked EXCEPT ![Sid(p)] = @ + 1]
           /\ UNCHANGED <<executed, journal, verdict>>
  <2>1. /\ lock = p /\ Sid(p) \in Sessions
        /\ asked[Sid(p)] < budget[Sid(p)].calls
    BY <1>4 DEF IInv, Shape, CallPending, At, Held, Based, Pcs, Sid
  <2>2. asked' \in [Sessions -> Nat] BY <1>1, <1>4, <2>1 DEF TypeOK
  <2>3. ASSUME NEW s \in Sessions PROVE asked'[s] <= budget[s].calls
    <3>1. asked[s] \in Nat /\ budget[s] \in Budgets BY <1>1 DEF TypeOK
    <3>2. budget[s].calls \in Nat BY <3>1 DEF Budgets
    <3>3. asked'[s] = IF s = Sid(p) THEN asked[s] + 1 ELSE asked[s]
      BY <1>1, <1>4, <2>1 DEF TypeOK
    <3> QED BY <1>1, <2>1, <3>1, <3>2, <3>3
  <2> QED BY <1>1, <1>4, <2>1, <2>2, <2>3 DEF TypeOK
<1> QED BY <1>2, <1>3, <1>4 DEF CutShort

LEMMA AbortStep ==
  ASSUME IInv, NEW p \in Procs, Abort(p) PROVE IInv'
<1>1. TypeOK /\ lock = p /\ Go(p, "release") /\ Fault /\ CutShort(p)
      /\ UNCHANGED <<status, budget, log, appr, lock, clocks, consented, reverted>>
  BY DEF IInv, Abort
<1>2. proc' \in [Procs -> Locals] /\ Others(p) /\ proc'[p].pc = "release"
  BY <1>1, GoFacts DEF Pcs
<1>3. TypeOK' BY <1>1, <1>2, CutShortFacts DEF TypeOK, Fault, clocks
<1>4. Effect(p)
  BY <1>1, <1>2, CutShortFacts
  DEF IInv, CallsCharged, Effect, Based, InLoop
<1> QED BY <1>3, <1>4, FrameLemma

LEMMA KillStep ==
  ASSUME IInv, NEW p \in Procs, Kill(p) PROVE IInv'
<1>1. TypeOK /\ Quit(p) /\ Fault /\ CutShort(p)
      /\ lock' = (IF lock = p THEN "stale" ELSE lock)
      /\ UNCHANGED <<status, budget, log, appr, clocks, consented, reverted>>
  BY DEF IInv, Kill
<1>2. proc' \in [Procs -> Locals] /\ Others(p) /\ proc'[p].pc = "idle"
  BY <1>1, QuitFacts
<1>3. TypeOK' BY <1>1, <1>2, CutShortFacts DEF TypeOK, Fault, clocks
<1>4. Effect(p)
  BY <1>1, <1>2, CutShortFacts
  DEF IInv, CallsCharged, Effect, Held, Based, InLoop
<1> QED BY <1>3, <1>4, FrameLemma

\* The steps that no process of the model takes.
LEMMA OutsideLemma ==
  ASSUME IInv, TypeOK', UNCHANGED <<proc, lock, log, budget, asked>>
  PROVE  IInv'
BY DEF IInv, Shape, TrackerFresh, CallsCharged, CallPending, Sid

LEMMA AnswerStep ==
  ASSUME IInv, Answer PROVE IInv'
<1>1. PICK s \in Sessions, k \in Steps : Approve(s, k) \/ Deny(s, k) BY DEF Answer
<1>2. TypeOK BY DEF IInv
<1>3. UNCHANGED <<status, budget, log, journal, verdict, lock, proc, clocks,
                  executed, asked, reverted, bounds>>
  BY <1>1 DEF Approve, Deny
<1>4. appr' \in [Sessions -> [Steps -> ApprovalStatus \cup {"NONE"}]]
  <2>1. PICK t \in ApprovalStatus : SetApproval(s, k, t)
    BY <1>1 DEF Approve, Deny, ApprovalStatus
  <2> QED BY <1>2, <2>1, SetApprovalFacts
<1>5. consented' \in [Sessions -> SUBSET Steps]
  <2>1. consented[s] \in SUBSET Steps BY <1>2 DEF TypeOK
  <2>2. consented[s] \cup {k} \in SUBSET Steps BY <2>1
  <2>3. consented[s] \ {k} \in SUBSET Steps BY <2>1
  <2>4. PICK K \in SUBSET Steps :
          UNCHANGED consented \/ consented' = [consented EXCEPT ![s] = K]
    BY <1>1, <2>2, <2>3 DEF Approve, Deny
  <2> QED BY <1>2, <2>4 DEF TypeOK
<1>6. TypeOK' BY <1>2, <1>3, <1>4, <1>5 DEF TypeOK, clocks, bounds
<1> QED BY <1>3, <1>6, OutsideLemma

LEMMA EnvironmentStep ==
  ASSUME IInv, Environment PROVE IInv'
<1>1. TypeOK BY DEF IInv
<1>2. ASSUME NEW s \in Sessions, SessionTimeout(s) PROVE IInv'
  <2>1. TypeOK'
    BY <1>1, <1>2 DEF SessionTimeout, Env, TypeOK, tables, history
  <2> QED BY <1>2, <2>1, OutsideLemma DEF SessionTimeout, tables, history
<1>3. ASSUME NEW s \in Sessions, EditFile(s) PROVE IInv'
  <2>1. LatestApproval(s) \in Steps \cup {0} BY <1>1, LatestFacts
  <2>2. journal' \in [Sessions -> {"empty", "clean", "drift"}]
    BY <1>1, <1>3 DEF EditFile, TypeOK
  <2>3. moved' \in [Sessions -> SUBSET Steps]
    <3>1. moved[s] \in SUBSET Steps BY <1>1 DEF TypeOK
    <3>2. LatestApproval(s) # 0 => moved[s] \cup {LatestApproval(s)} \in SUBSET Steps
      BY <2>1, <3>1
    <3>3. PICK K \in SUBSET Steps :
            UNCHANGED moved \/ moved' = [moved EXCEPT ![s] = K]
      BY <1>3, <3>1, <3>2 DEF EditFile
    <3> QED BY <1>1, <3>3 DEF TypeOK
  <2>4. TypeOK' BY <1>1, <1>3, <2>2, <2>3 DEF EditFile, Env, TypeOK, history
  <2> QED BY <1>3, <2>4, OutsideLemma DEF EditFile, history
<1>4. ASSUME NEW s \in Sessions, NEW k \in Steps, Expire(s, k) PROVE IInv'
  <2>1. expired' \in [Sessions -> SUBSET Steps]
    BY <1>1, <1>4 DEF Expire, TypeOK
  <2>2. TypeOK' BY <1>1, <1>4, <2>1 DEF Expire, Env, TypeOK, tables, history
  <2> QED BY <1>4, <2>2, OutsideLemma DEF Expire, tables, history
<1> QED BY <1>2, <1>3, <1>4 DEF Environment

-----------------------------------------------------------------------------
(* The theorems                                                             *)

LEMMA InitIInv == Init => IInv
<1> SUFFICES ASSUME Init PROVE IInv OBVIOUS
<1>1. NoBudget \in Budgets /\ NoBudget.calls = 0 BY DEF NoBudget, Budgets
<1>2. TypeOK
  BY <1>1, IdleType DEF Init, TypeOK, Verdicts
<1>3. \A p \in Procs : proc[p].pc = "idle" BY IdleType DEF Init
<1>4. Shape BY <1>3 DEF Shape, Held, Based
<1>5. TrackerFresh BY <1>3 DEF TrackerFresh, InLoop
<1>6. CallPending BY <1>3 DEF CallPending
<1>7. CallsCharged BY <1>1, BudgetAssumption DEF Init, CallsCharged
<1> QED BY <1>2, <1>4, <1>5, <1>6, <1>7 DEF IInv

\* One step for each action of Next.
LEMMA NextIInv == IInv /\ [Next]_vars => IInv'
<1> SUFFICES ASSUME IInv, [Next]_vars PROVE IInv' OBVIOUS
<1>1. ASSUME NEW p \in Procs, Start(p) PROVE IInv'
  BY <1>1, StartRunStep, StartOtherStep DEF Start
<1>2. ASSUME NEW p \in Procs, Engine(p) PROVE IInv'
  BY <1>2, CreateSessionStep, EngineRunStep, LoopTopStep, AskLlmStep,
     AuthorizeStep, RecordStepStep, PauseStep, FinalValidationStep, ExecuteStep,
     FastValidationStep
  DEF Engine
<1>3. ASSUME NEW p \in Procs, Resume(p) PROVE IInv'
  BY <1>3, AcquireStep, RecoverStep, InvalidateStep, PauseStep, ResolveStep,
     ConsumeCheckStep, ConsumeCommitStep, ContinueApprovedStep
  DEF Resume
<1>4. ASSUME NEW p \in Procs, Decide(p) \/ Release(p) PROVE IInv'
  BY <1>4, KeepStep, RollbackFilesStep, ReleaseStep DEF Decide
<1>5. ASSUME NEW p \in Procs, Failure(p) PROVE IInv'
  BY <1>5, LeakLockStep, AbortStep, KillStep DEF Failure
<1>6. CASE UNCHANGED vars
  <2>1. TypeOK' BY <1>6 DEF IInv, TypeOK, vars, tables, clocks, history, bounds
  <2> QED BY <1>6, <2>1, OutsideLemma DEF vars, tables, history
<1>7. CASE Next
  BY <1>1, <1>2, <1>3, <1>4, <1>5, <1>7, AnswerStep, EnvironmentStep
  DEF Next, Continue
<1> QED BY <1>6, <1>7

THEOREM Invariant == Spec => []IInv
BY InitIInv, NextIInv, PTL DEF Spec

\* Every variable holds what the code can store in it, whatever the commands,
\* the failures and the answers of the model.
THEOREM TypeCorrect == Spec => []TypeOK
<1>1. IInv => TypeOK BY DEF IInv
<1> QED BY <1>1, Invariant, PTL

\* Two processes are never inside the engine or the resume together, so the
\* counters that a running engine holds are those in the database.
THEOREM TrackersAreFresh == Spec => []TrackerFresh
<1>1. IInv => TrackerFresh BY DEF IInv
<1> QED BY <1>1, Invariant, PTL

\* No crash or resume buys a session a call to the model that its budget does
\* not cover: the call is saved before it is made.
THEOREM CallsAreCharged == Spec => []CallsCharged
<1>1. IInv => CallsCharged BY DEF IInv
<1> QED BY <1>1, Invariant, PTL

-----------------------------------------------------------------------------
(***************************************************************************)
(* Part 2: the status of the sessions                                      *)
(*                                                                         *)
(* At most one session is active, and tools start only in a running one.   *)
(* From part 1: only the owner of the lock is in the engine.               *)
(***************************************************************************)

\* A process in the loop of the engine works on a session that is RUNNING.
Running ==
  \A p \in Procs : proc[p].pc \in InLoop => status[proc[p].sid] = "RUNNING"

SInv == IInv /\ Running /\ OneActiveSession

\* What a step of p does to the statuses: without the lock it only closes a
\* session that awaits the user's decision; and it makes a session active
\* only when no other one is.
StatusEffect(p) ==
  /\ Others(p)
  /\ lock # p => \A s \in Sessions : \/ status'[s] = status[s]
                                     \/ status[s] = "NEEDS_USER_DECISION"
  /\ proc'[p].pc \in InLoop => status'[proc'[p].sid] = "RUNNING"
  /\ \/ \A s \in Sessions :
          status'[s] \in ActiveStatuses => status[s] \in ActiveStatuses
     \/ /\ ~ProjectBusy
        /\ \E u \in Sessions : \A s \in Sessions : s # u => status'[s] = status[s]

LEMMA StatusFrame ==
  ASSUME SInv, IInv', NEW p \in Procs, StatusEffect(p)
  PROVE  SInv'
<1>1. Running'
  <2> SUFFICES ASSUME NEW q \in Procs, proc'[q].pc \in InLoop
               PROVE  status'[proc'[q].sid] = "RUNNING"
    BY DEF Running
  <2>1. CASE q = p BY <2>1 DEF StatusEffect
  <2>2. CASE q # p
    <3>1. proc'[q] = proc[q] BY <2>2 DEF StatusEffect, Others
    <3>2. lock = q /\ proc[q].sid \in Sessions
      BY <3>1, InLoopFacts DEF SInv
    <3>3. status[proc[q].sid] = "RUNNING" BY <3>1 DEF SInv, Running
    <3> QED BY <2>2, <3>1, <3>2, <3>3 DEF StatusEffect
  <2> QED BY <2>1, <2>2
<1>2. OneActiveSession'
  <2>1. CASE \A s \in Sessions :
               status'[s] \in ActiveStatuses => status[s] \in ActiveStatuses
    BY <2>1 DEF SInv, OneActiveSession
  <2>2. CASE /\ ~ProjectBusy
             /\ \E u \in Sessions :
                  \A s \in Sessions : s # u => status'[s] = status[s]
    BY <2>2 DEF ProjectBusy, OneActiveSession
  <2> QED BY <2>1, <2>2 DEF StatusEffect
<1> QED BY <1>1, <1>2 DEF SInv

-----------------------------------------------------------------------------
(* What changes a status                                                    *)

LEMMA LegalActive ==
  ASSUME NEW s, NEW t, Legal(s, t)
  PROVE  status[s] \in ActiveStatuses
BY DEF Legal, ALLOWED_TRANSITIONS, ActiveStatuses, Pauses

\* A step that leaves the statuses alone and does not enter the loop.
LEMMA SameStatus ==
  ASSUME SInv, NEW p \in Procs, Others(p), UNCHANGED status,
         proc'[p].pc \in InLoop =>
           proc[p].pc \in InLoop /\ proc'[p].sid = proc[p].sid
  PROVE  StatusEffect(p)
BY DEF SInv, Running, StatusEffect

\* A step that moves on an active session.
LEMMA MovedStatus ==
  ASSUME SInv, NEW p \in Procs, Others(p), NEW s \in Sessions, NEW t,
         status[s] \in ActiveStatuses, Set(s, t), lock = p,
         proc'[p].pc \in InLoop => t = "RUNNING" /\ proc'[p].sid = s
  PROVE  StatusEffect(p)
BY DEF SInv, IInv, TypeOK, Set, StatusEffect

LEMMA PausedStatus ==
  ASSUME SInv, NEW p \in Procs, NEW t \in SessionStatus, Pause(p, t),
         lock = p, Sid(p) \in Sessions
  PROVE  StatusEffect(p)
<1>1. Others(p) /\ proc'[p].pc = "release"
  BY PauseFacts DEF SInv, IInv
<1>2. "release" \notin InLoop BY DEF InLoop
<1>3. CASE Legal(Sid(p), t)
  BY <1>1, <1>2, <1>3, LegalActive, MovedStatus DEF Pause
<1>4. CASE ~Legal(Sid(p), t)
  BY <1>1, <1>2, <1>4, SameStatus DEF Pause
<1> QED BY <1>3, <1>4

-----------------------------------------------------------------------------
(* The actions, by what they do to the status                               *)

\* Those that never touch it and end up outside of the loop.
LEMMA OutsideStatus ==
  ASSUME SInv, NEW p \in Procs,
         \/ StartRun(p) \/ Acquire(p) \/ LeakLock(p) \/ Release(p)
         \/ \E s \in Sessions : \/ StartResume(p, s) \/ StartKeep(p, s)
                                \/ StartRollback(p, s)
         \/ Recover(p) \/ Invalidate(p) \/ ConsumeCheck(p) \/ ConsumeCommit(p)
         \/ RollbackFiles(p) \/ Abort(p) \/ Kill(p)
  PROVE  StatusEffect(p)
<1>1. proc \in [Procs -> Locals] BY DEF SInv, IInv, TypeOK
<1>2. UNCHANGED status
  BY DEF StartRun, Acquire, LeakLock, Release, StartResume, StartKeep,
         StartRollback, Recover, Invalidate, ConsumeCheck, ConsumeCommit,
         RollbackFiles, Abort, Kill, tables
<1>3. ASSUME NEW l, l \notin InLoop, Go(p, l)
      PROVE  Others(p) /\ proc'[p].pc \notin InLoop
  BY <1>1, <1>3 DEF Go, Others, Locals
<1>4. ASSUME Quit(p) PROVE Others(p) /\ proc'[p].pc \notin InLoop
  BY <1>1, <1>4, IdleType DEF Quit, Others, InLoop
<1>5. {"create", "recover", "release", "commit", "granted", "rolled", "resolve",
       "run"} \cap InLoop = {}
  BY DEF InLoop
<1>6. Others(p) /\ proc'[p].pc \notin InLoop
  <2>1. CASE StartRun(p) \/ Acquire(p) \/ LeakLock(p) \/ Release(p)
    BY <1>3, <1>4, <1>5, <2>1 DEF StartRun, Acquire, Busy, LeakLock, Release
  <2>2. ASSUME NEW s \in Sessions,
               StartResume(p, s) \/ StartKeep(p, s) \/ StartRollback(p, s)
        PROVE  Others(p) /\ proc'[p].pc \notin InLoop
    <3>1. ASSUME NEW l, l \notin InLoop,
                 proc' = [proc EXCEPT ![p].pc = l, ![p].sid = s]
          PROVE  Others(p) /\ proc'[p].pc \notin InLoop
      BY <1>1, <3>1 DEF Others, Locals
    <3>2. "acquire" \notin InLoop /\ "keep" \notin InLoop /\ "rollback" \notin InLoop
      BY DEF InLoop
    <3>3. CASE StartResume(p, s)
      BY <3>1, <3>2, <3>3 DEF StartResume
    <3>4. CASE StartKeep(p, s)
      BY <3>1, <3>2, <3>4 DEF StartKeep
    <3>5. CASE StartRollback(p, s)
      <4>1. PICK b : proc' = [proc EXCEPT ![p].pc = "rollback", ![p].sid = s,
                                          ![p].seen = b]
        BY <3>5 DEF StartRollback
      <4> QED BY <1>1, <3>2, <4>1 DEF Others, Locals
    <3> QED BY <2>2, <3>3, <3>4, <3>5
  <2>3. CASE Recover(p)
    <3>1. CASE journal[Sid(p)] = "drift"
      BY <1>1, <2>3, <3>1 DEF Recover, Others, Locals, InLoop
    <3>2. CASE journal[Sid(p)] # "drift"
      BY <1>3, <1>5, <2>3, <3>2 DEF Recover
    <3> QED BY <3>1, <3>2
  <2>4. CASE Invalidate(p)
    BY <1>1, <2>4 DEF Invalidate, Go, At, Others, Locals, InLoop
  <2>5. CASE ConsumeCheck(p) \/ ConsumeCommit(p)
    BY <1>3, <1>5, <2>5 DEF ConsumeCheck, ConsumeCommit
  <2>6. CASE RollbackFiles(p) \/ Abort(p) \/ Kill(p)
    BY <1>3, <1>4, <1>5, <2>6
    DEF RollbackFiles, RollbackEnds, RollbackRefused, Abort, Kill
  <2> QED BY <2>1, <2>2, <2>3, <2>4, <2>5, <2>6
<1> QED BY <1>2, <1>6, SameStatus

\* Those that never touch it inside the loop.
LEMMA InsideStatus ==
  ASSUME SInv, NEW p \in Procs,
         RecordStep(p) \/ FinalValidation(p) \/ FastValidation(p)
  PROVE  StatusEffect(p)
<1>1. proc \in [Procs -> Locals] BY DEF SInv, IInv, TypeOK
<1>2. UNCHANGED status BY DEF RecordStep, FinalValidation, FastValidation
<1>3. proc[p].pc \in InLoop
  BY DEF RecordStep, FinalValidation, FastValidation, At, InLoop
<1>4. CASE RecordStep(p) \/ FastValidation(p)
  <2>1. \E t, l : proc' = [proc EXCEPT ![p].trk = t, ![p].pc = l]
    BY <1>4, Zenon DEF RecordStep, FastValidation
  <2> QED BY <1>1, <1>2, <1>3, <2>1, SameStatus DEF Others, Locals
<1>5. CASE FinalValidation(p)
  BY <1>2, <1>3, <1>5, FinalFacts, SameStatus DEF SInv, IInv
<1> QED BY <1>4, <1>5

\* Those that pause the session or go on in the loop.
LEMMA PausingStatus ==
  ASSUME SInv, NEW p \in Procs,
         \/ LoopTop(p) \/ AskLlm(p) \/ Authorize(p) \/ PauseForApproval(p)
         \/ Conclude(p) \/ Execute(p)
  PROVE  StatusEffect(p)
<1>1. proc \in [Procs -> Locals] BY DEF SInv, IInv, TypeOK
<1>2. proc[p].pc \in InLoop
  BY DEF LoopTop, AskLlm, Authorize, PauseForApproval, Conclude, Execute, At, InLoop
<1>3. lock = p /\ Sid(p) \in Sessions BY <1>2, InLoopFacts DEF SInv
<1>4. ASSUME NEW t \in SessionStatus, Pause(p, t) PROVE StatusEffect(p)
  BY <1>3, <1>4, PausedStatus
<1>5. {"PAUSED_LIMIT_REACHED", "PAUSED_INTERNAL_ERROR", "PAUSED_PROTOCOL_ERROR",
       "PAUSED_APPROVAL", "SUCCEEDED", "NEEDS_USER_DECISION"} \subseteq SessionStatus
  BY DEF SessionStatus
<1>6. ASSUME UNCHANGED status, Others(p), proc'[p].sid = proc[p].sid
      PROVE  StatusEffect(p)
  BY <1>2, <1>6, SameStatus
<1>7. CASE LoopTop(p)
  <2>1. ASSUME NEW t, proc' = [proc EXCEPT ![p].pc = "ask", ![p].trk = t]
        PROVE  Others(p) /\ proc'[p].sid = proc[p].sid
    BY <1>1, <2>1 DEF Others, Locals
  <2> QED BY <1>4, <1>5, <1>6, <1>7, <2>1 DEF LoopTop
<1>8. CASE AskLlm(p)
  <2>1. ASSUME NEW n, proc' = [proc EXCEPT ![p].pc = "loop", ![p].perr = n]
        PROVE  Others(p) /\ proc'[p].sid = proc[p].sid
    BY <1>1, <2>1 DEF Others, Locals
  <2>2. ASSUME NEW a, proc' = [proc EXCEPT ![p].pc = "authorize",
                                           ![p].perr = 0, ![p].act = a]
        PROVE  Others(p) /\ proc'[p].sid = proc[p].sid
    BY <1>1, <2>2 DEF Others, Locals
  <2> QED BY <1>4, <1>5, <1>6, <1>8, <2>1, <2>2 DEF AskLlm
<1>9. CASE Authorize(p)
  <2>1. ASSUME NEW k, proc' = [proc EXCEPT ![p].pc = "record",
                                           ![p].act = NoAction, ![p].step = k]
        PROVE  Others(p) /\ proc'[p].sid = proc[p].sid
    BY <1>1, <2>1 DEF Others, Locals
  <2> QED BY <1>4, <1>5, <1>6, <1>9, <2>1 DEF Authorize
<1>10. CASE PauseForApproval(p) \/ Conclude(p)
  BY <1>4, <1>5, <1>10 DEF PauseForApproval, Conclude
<1>11. CASE Execute(p)
  <2>1. ASSUME NEW l, Go(p, l) PROVE Others(p) /\ proc'[p].sid = proc[p].sid
    BY <1>1, <2>1 DEF Go, Others, Locals
  <2> QED BY <1>4, <1>5, <1>6, <1>11, <2>1 DEF Execute, ToolFailed
<1> QED BY <1>7, <1>8, <1>9, <1>10, <1>11

LEMMA CreateSessionStatus ==
  ASSUME SInv, NEW p \in Procs, CreateSession(p)
  PROVE  StatusEffect(p)
<1>1. proc \in [Procs -> Locals] BY DEF SInv, IInv, TypeOK
<1>2. lock = p
  BY DEF SInv, IInv, Shape, CreateSession, At, Held, Pcs
<1>3. CASE Go(p, "release") /\ UNCHANGED status
  <2>1. Others(p) /\ proc'[p].pc = "release"
    BY <1>1, <1>3 DEF Go, Others, Locals
  <2> QED BY <1>3, <2>1, SameStatus DEF InLoop
<1>4. ASSUME ~ProjectBusy, NEW s \in Sessions, Set(s, "CREATED"),
             proc' = [proc EXCEPT ![p].pc = "run", ![p].sid = s]
      PROVE  StatusEffect(p)
  <2>1. Others(p) /\ proc'[p].pc = "run" BY <1>1, <1>4 DEF Others, Locals
  <2>2. \A u \in Sessions : u # s => status'[u] = status[u]
    BY <1>4 DEF Set, SInv, IInv, TypeOK
  <2> QED BY <1>2, <1>4, <2>1, <2>2 DEF StatusEffect, InLoop
<1> QED BY <1>3, <1>4 DEF CreateSession

\* Those that set the session RUNNING.
LEMMA RunningStatus ==
  ASSUME SInv, NEW p \in Procs,
         EngineRun(p) \/ Resolve(p) \/ ContinueApproved(p)
  PROVE  StatusEffect(p)
<1>1. proc \in [Procs -> Locals] BY DEF SInv, IInv, TypeOK
<1>2. lock = p /\ Sid(p) \in Sessions /\ Sid(p) = proc[p].sid
  BY DEF SInv, IInv, Shape, EngineRun, Resolve, ContinueApproved, At, Sid, Held,
         Based, Pcs
<1>3. ASSUME NEW l, l \notin InLoop, Go(p, l), UNCHANGED status
      PROVE  StatusEffect(p)
  <2>1. Others(p) /\ proc'[p].pc = l BY <1>1, <1>3 DEF Go, Others, Locals
  <2> QED BY <1>3, <2>1, SameStatus
<1>4. {"release", "run", "consume"} \cap InLoop = {} BY DEF InLoop
<1>5. ASSUME status[Sid(p)] \in ActiveStatuses, Set(Sid(p), "RUNNING"), Others(p),
             proc'[p].sid = proc[p].sid
      PROVE  StatusEffect(p)
  BY <1>2, <1>5, MovedStatus
<1>6. CASE EngineRun(p)
  <2>1. ASSUME NEW t, proc' = [proc EXCEPT ![p].pc = "loop", ![p].trk = t,
                                           ![p].perr = 0, ![p].step = 0]
        PROVE  Others(p) /\ proc'[p].sid = proc[p].sid
    BY <1>1, <2>1 DEF Others, Locals
  <2>2. {"CREATED", "RUNNING"} \subseteq ActiveStatuses BY DEF ActiveStatuses
  <2> QED BY <1>3, <1>4, <1>5, <1>6, <2>1, <2>2 DEF EngineRun
<1>7. CASE Resolve(p)
  <2>1. ASSUME NEW k, proc' = [proc EXCEPT ![p].pc = "consume", ![p].step = k]
        PROVE  Others(p) /\ proc'[p].pc = "consume"
    BY <1>1, <2>1 DEF Others, Locals
  <2>2. ASSUME NEW l, Go(p, l) PROVE Others(p) /\ proc'[p].sid = proc[p].sid
    BY <1>1, <2>2 DEF Go, Others, Locals
  <2>3. ASSUME NEW k, UNCHANGED status,
               proc' = [proc EXCEPT ![p].pc = "consume", ![p].step = k]
        PROVE  StatusEffect(p)
    BY <1>4, <2>1, <2>3, SameStatus
  <2>4. CASE Legal(Sid(p), "RUNNING") /\ Set(Sid(p), "RUNNING") /\ Go(p, "run")
    BY <1>5, <2>2, <2>4, LegalActive
  <2> QED BY <1>3, <1>4, <1>7, <2>3, <2>4 DEF Resolve
<1>8. CASE ContinueApproved(p)
  <2>1. ASSUME NEW t, proc' = [proc EXCEPT ![p].pc = "execute", ![p].trk = t]
        PROVE  Others(p) /\ proc'[p].sid = proc[p].sid
    BY <1>1, <2>1 DEF Others, Locals
  <2>2. "PAUSED_APPROVAL" \in ActiveStatuses BY DEF ActiveStatuses, Pauses
  <2> QED BY <1>3, <1>4, <1>5, <1>8, <2>1, <2>2 DEF ContinueApproved, Reopen
<1> QED BY <1>6, <1>7, <1>8

\* The resume that finds drift.
LEMMA DriftPauseStatus ==
  ASSUME SInv, NEW p \in Procs, DriftPause(p)
  PROVE  StatusEffect(p)
<1>1. lock = p /\ Sid(p) \in Sessions
  BY DEF SInv, IInv, Shape, DriftPause, At, Sid, Held, Based, Pcs
<1> QED BY <1>1, PausedStatus DEF DriftPause, SessionStatus

\* The user's decision, for which no lock is taken.
LEMMA DecisionStatus ==
  ASSUME SInv, NEW p \in Procs, Keep(p) \/ RollbackStatus(p)
  PROVE  StatusEffect(p)
<1>1. Others(p) /\ proc'[p].pc = "idle"
  BY QuitFacts DEF SInv, IInv, Keep, RollbackStatus
<1>2. "idle" \notin InLoop BY DEF InLoop
<1>3. CASE UNCHANGED status BY <1>1, <1>2, <1>3, SameStatus
<1>4. ASSUME NEW t \in {"CHANGES_KEPT", "ROLLED_BACK"},
             Legal(Sid(p), t), Set(Sid(p), t)
      PROVE  StatusEffect(p)
  <2>1. status[Sid(p)] = "NEEDS_USER_DECISION"
    BY <1>4 DEF Legal, ALLOWED_TRANSITIONS, Pauses
  <2>2. \A s \in Sessions : s # Sid(p) => status'[s] = status[s]
    BY <1>4 DEF Set, SInv, IInv, TypeOK
  <2>3. status[Sid(p)] \in ActiveStatuses BY <1>4, LegalActive
  <2> QED BY <1>1, <1>2, <2>1, <2>2, <2>3 DEF StatusEffect
<1> QED BY <1>3, <1>4 DEF Keep, RollbackStatus

-----------------------------------------------------------------------------
(* The theorems                                                             *)

LEMMA InitSInv == Init => SInv
<1> SUFFICES ASSUME Init PROVE SInv OBVIOUS
<1>1. \A p \in Procs : proc[p].pc = "idle" BY IdleType DEF Init
<1>2. Running BY <1>1 DEF Running, InLoop
<1>3. OneActiveSession BY DEF Init, OneActiveSession, ActiveStatuses, Pauses
<1> QED BY <1>2, <1>3, InitIInv DEF SInv

LEMMA NextSInv == SInv /\ [Next]_vars => SInv'
<1> SUFFICES ASSUME SInv, [Next]_vars PROVE SInv' OBVIOUS
<1>1. IInv' BY NextIInv DEF SInv
<1>2. ASSUME NEW p \in Procs, Start(p) \/ Continue(p) \/ Failure(p) PROVE SInv'
  <2>1. StatusEffect(p)
    BY <1>2, OutsideStatus, InsideStatus, PausingStatus, CreateSessionStatus,
       RunningStatus, DriftPauseStatus, DecisionStatus
    DEF Start, Continue, Engine, Resume, Decide, Failure
  <2> QED BY <1>1, <2>1, StatusFrame
<1>3. ASSUME UNCHANGED <<status, proc>> PROVE SInv'
  BY <1>1, <1>3 DEF SInv, Running, OneActiveSession
<1>4. CASE Answer \/ Environment \/ UNCHANGED vars
  BY <1>3, <1>4
  DEF Answer, Approve, Deny, Environment, SessionTimeout, EditFile, Expire, tables,
      vars
<1> QED BY <1>2, <1>4 DEF Next

\* One project never has two sessions that could still write, however the
\* commands of two processes interleave and whatever fails.
THEOREM AtMostOneActive == Spec => []OneActiveSession
<1>1. SInv => OneActiveSession BY DEF SInv
<1> QED BY <1>1, InitSInv, NextSInv, PTL DEF Spec

LEMMA EffectStep ==
  ASSUME SInv, [Next]_vars, NEW s \in Sessions, executed'[s] # executed[s]
  PROVE  status[s] = "RUNNING"
<1>1. PICK p \in Procs : At(p, "execute") /\ \E done \in BOOLEAN :
                            RunTool(Sid(p), proc[p].step, done)
  <2>1. executed' # executed OBVIOUS
  <2>2. ~(Answer \/ Environment \/ UNCHANGED vars)
    BY <2>1 DEF Answer, Approve, Deny, Environment, SessionTimeout, EditFile,
                Expire, history, vars
  <2>3. PICK p \in Procs : Start(p) \/ Continue(p) \/ Failure(p)
    BY <2>2 DEF Next
  <2>4. ~Start(p)
    BY <2>1 DEF Start, StartRun, StartResume, StartKeep, StartRollback, history
  <2>5. ~(Decide(p) \/ Release(p) \/ Resume(p))
    BY <2>1 DEF Decide, Keep, RollbackFiles, RollbackStatus, Release, Resume,
                Acquire, Recover, Invalidate, DriftPause, Resolve, ConsumeCheck,
                ConsumeCommit, ContinueApproved, history
  <2>6. CASE Engine(p)
    <3>1. Execute(p)
      BY <2>1, <2>6 DEF Engine, CreateSession, EngineRun, LoopTop, AskLlm,
         Authorize, RecordStep, PauseForApproval, FinalValidation, Conclude,
         FastValidation, history
    <3> QED BY <2>1, <3>1 DEF Execute
  <2>7. CASE Failure(p)
    BY <2>1, <2>7 DEF Failure, LeakLock, Abort, Kill, CutShort, history
  <2> QED BY <2>3, <2>4, <2>5, <2>6, <2>7 DEF Continue
<1>2. proc[p].pc \in InLoop BY <1>1 DEF At, InLoop
<1>3. executed' = [executed EXCEPT ![Sid(p)][proc[p].step] = @ + 1]
  BY <1>1 DEF RunTool
<1>4. s = Sid(p) BY <1>3 DEF SInv, IInv, TypeOK
<1> QED BY <1>2, <1>4 DEF SInv, Running, Sid

\* A tool starts only in a session that is RUNNING.
THEOREM ToolsStartWhileRunning == Spec => EffectsWhileRunning
<1>1. SInv /\ [Next]_vars =>
        [\A s \in Sessions : executed'[s] # executed[s] => status[s] = "RUNNING"]_vars
  BY EffectStep
<1> QED BY <1>1, InitSInv, NextSInv, PTL DEF Spec, EffectsWhileRunning

-----------------------------------------------------------------------------
(***************************************************************************)
(* Part 3: authority                                                       *)
(*                                                                         *)
(* No tool starts without authority.                                       *)
(*                                                                         *)
(* EffectsGoverned is not inductive: a consumed approval has to be known   *)
(* to have been consented to before its tool starts. That is Consent. The  *)
(* rest of the argument is in Lawful, what any step may do to one row: the *)
(* action is written once, the approval follows its transition table, and  *)
(* consent is withdrawn only by a denial.                                  *)
(***************************************************************************)

Consent ==
  \A s \in Sessions, k \in Steps :
    appr[s][k] \in {"APPROVED", "CONSUMED"} => k \in consented[s]

AInv == TypeOK /\ EffectsGoverned /\ Consent

\* What a step may do to the row of one step of a session.
LawfulAt(s, k) ==
  /\ log'[s][k] = log[s][k] \/ log[s][k] = NoAction
  /\ \/ appr'[s][k] = appr[s][k]
     \/ <<appr[s][k], appr'[s][k]>> \in ApprovalTransitions
     \/ log[s][k] = NoAction /\ appr'[s][k] = "PENDING"
  /\ k \in consented[s] => k \in consented'[s] \/ appr'[s][k] = "DENIED"
  /\ appr'[s][k] = "APPROVED" /\ appr[s][k] # "APPROVED" => k \in consented'[s]
  /\ \/ executed'[s][k] = executed[s][k]
     \/ /\ Dispatchable(s, k)
        /\ log'[s][k] = log[s][k]
        /\ appr'[s][k] = appr[s][k]

Lawful == \A s \in Sessions, k \in Steps : LawfulAt(s, k)

\* A lawful step preserves the invariant.
LEMMA LawfulLemma ==
  ASSUME AInv, Lawful PROVE EffectsGoverned' /\ Consent'
<1>1. \A s \in Sessions, k \in Steps : LawfulAt(s, k) BY DEF Lawful
<1>2. Consent'
  <2> SUFFICES ASSUME NEW s \in Sessions, NEW k \in Steps,
                      appr'[s][k] \in {"APPROVED", "CONSUMED"}
               PROVE  k \in consented'[s]
    BY DEF Consent
  <2>1. LawfulAt(s, k) BY <1>1
  <2>2. CASE appr[s][k] \in {"APPROVED", "CONSUMED"}
    BY <2>1, <2>2 DEF AInv, Consent, LawfulAt
  <2>3. CASE appr[s][k] \notin {"APPROVED", "CONSUMED"}
    BY <2>1, <2>3 DEF LawfulAt, ApprovalTransitions
  <2> QED BY <2>2, <2>3
<1>3. EffectsGoverned'
  <2> SUFFICES ASSUME NEW s \in Sessions, NEW k \in Steps, executed'[s][k] > 0
               PROVE  \/ log'[s][k] \in Allowed
                      \/ /\ log'[s][k] \in Gated
                         /\ appr'[s][k] = "CONSUMED"
                         /\ k \in consented'[s]
    BY DEF EffectsGoverned, Started
  <2>1. LawfulAt(s, k) BY <1>1
  <2>2. log[s][k] \in Allowed \/ (log[s][k] \in Gated /\ appr[s][k] = "CONSUMED")
    <3>1. CASE executed'[s][k] = executed[s][k]
      <4>1. k \in Started(s) BY <3>1 DEF Started
      <4> QED BY <4>1 DEF AInv, EffectsGoverned
    <3>2. CASE Dispatchable(s, k)
      BY <3>2 DEF Dispatchable, ConsumedApproval
    <3> QED BY <2>1, <3>1, <3>2 DEF LawfulAt
  <2>3. log[s][k] # NoAction
    BY <2>2, ActionsAssumption DEF Actions
  <2>4. log'[s][k] = log[s][k] BY <2>1, <2>3 DEF LawfulAt
  <2>5. ASSUME appr[s][k] = "CONSUMED"
        PROVE  appr'[s][k] = "CONSUMED" /\ k \in consented'[s]
    <3>1. appr'[s][k] = "CONSUMED"
      BY <2>1, <2>3, <2>5 DEF LawfulAt, ApprovalTransitions
    <3> QED BY <1>2, <3>1 DEF Consent
  <2> QED BY <2>2, <2>4, <2>5
<1> QED BY <1>2, <1>3

-----------------------------------------------------------------------------
(* Every step is lawful                                                     *)

LEMMA StillLawful ==
  ASSUME UNCHANGED <<log, appr, consented, executed>> PROVE Lawful
BY DEF Lawful, LawfulAt

\* A change of one approval other than to APPROVED or DENIED.
LEMMA ApprovalLawful ==
  ASSUME TypeOK, NEW s, NEW k, NEW target \in {"CONSUMED", "EXPIRED", "INVALIDATED"},
         SetApproval(s, k, target), UNCHANGED <<log, consented, executed>>
  PROVE  Lawful
<1> SUFFICES ASSUME NEW t \in Sessions, NEW j \in Steps PROVE LawfulAt(t, j)
  BY DEF Lawful
<1>1. appr'[t][j] = IF t = s /\ j = k THEN target ELSE appr[t][j]
  BY DEF SetApproval, TypeOK
<1>2. <<appr[s][k], target>> \in ApprovalTransitions BY DEF SetApproval
<1> QED BY <1>1, <1>2 DEF LawfulAt

LEMMA ToolLawful ==
  ASSUME TypeOK, NEW s, NEW k, NEW done, Dispatchable(s, k), RunTool(s, k, done),
         UNCHANGED <<log, appr, consented>>
  PROVE  Lawful
<1> SUFFICES ASSUME NEW t \in Sessions, NEW j \in Steps PROVE LawfulAt(t, j)
  BY DEF Lawful
<1>1. executed'[t][j] = executed[t][j] \/ (t = s /\ j = k)
  BY DEF RunTool, TypeOK
<1> QED BY <1>1 DEF LawfulAt

LEMMA CutShortLawful ==
  ASSUME TypeOK, NEW p \in Procs, CutShort(p), UNCHANGED <<log, appr, consented>>
  PROVE  Lawful
<1>1. CASE UNCHANGED executed BY <1>1, StillLawful
<1>2. CASE /\ Dispatchable(Sid(p), proc[p].step)
           /\ RunTool(Sid(p), proc[p].step, FALSE)
  BY <1>2, ToolLawful
<1> QED BY <1>1, <1>2 DEF CutShort

LEMMA AuthorizeLawful ==
  ASSUME TypeOK, NEW p \in Procs, Authorize(p) PROVE Lawful
<1> DEFINE s == Sid(p)
           k == proc[p].trk.steps + 1
           a == proc[p].act
<1>1. UNCHANGED <<executed, consented>> BY DEF Authorize, history
<1>2. CASE UNCHANGED <<log, appr>> BY <1>1, <1>2, StillLawful
<1>3. CASE /\ RecordAction(s, k, a)
           /\ IF a \in Gated THEN RequestApproval(s, k) ELSE UNCHANGED appr
  <2> HIDE DEF s, k, a
  <2> SUFFICES ASSUME NEW t \in Sessions, NEW j \in Steps PROVE LawfulAt(t, j)
    BY DEF Lawful
  <2>1. log'[t][j] = log[t][j] \/ (t = s /\ j = k)
    BY <1>3 DEF RecordAction, TypeOK
  <2>2. appr'[t][j] = appr[t][j] \/ (t = s /\ j = k /\ appr'[t][j] = "PENDING")
    BY <1>3 DEF RequestApproval, TypeOK
  <2>3. log[s][k] = NoAction BY <1>3 DEF RecordAction
  <2> QED BY <1>1, <2>1, <2>2, <2>3 DEF LawfulAt
<1> QED BY <1>2, <1>3 DEF Authorize

LEMMA AnswerLawful ==
  ASSUME TypeOK, NEW s \in Sessions, NEW k \in Steps, Approve(s, k) \/ Deny(s, k)
  PROVE  Lawful
<1>1. UNCHANGED <<log, executed>> BY DEF Approve, Deny
<1>2. CASE SetApproval(s, k, "EXPIRED") /\ UNCHANGED consented
  BY <1>1, <1>2, ApprovalLawful
<1>3. CASE /\ SetApproval(s, k, "APPROVED")
           /\ consented' = [consented EXCEPT ![s] = @ \cup {k}]
  <2> SUFFICES ASSUME NEW t \in Sessions, NEW j \in Steps PROVE LawfulAt(t, j)
    BY DEF Lawful
  <2>1. appr'[t][j] = IF t = s /\ j = k THEN "APPROVED" ELSE appr[t][j]
    BY <1>3 DEF SetApproval, TypeOK
  <2>2. consented'[t] = IF t = s THEN consented[t] \cup {k} ELSE consented[t]
    BY <1>3 DEF TypeOK
  <2>3. <<appr[s][k], "APPROVED">> \in ApprovalTransitions
    BY <1>3 DEF SetApproval
  <2> QED BY <1>1, <2>1, <2>2, <2>3 DEF LawfulAt
<1>4. CASE Deny(s, k)
  <2> SUFFICES ASSUME NEW t \in Sessions, NEW j \in Steps PROVE LawfulAt(t, j)
    BY DEF Lawful
  <2>1. appr'[t][j] = IF t = s /\ j = k THEN "DENIED" ELSE appr[t][j]
    BY <1>4 DEF Deny, SetApproval, TypeOK
  <2>2. consented'[t] = IF t = s THEN consented[t] \ {k} ELSE consented[t]
    BY <1>4 DEF Deny, TypeOK
  <2>3. <<appr[s][k], "DENIED">> \in ApprovalTransitions
    BY <1>4 DEF Deny, SetApproval
  <2> QED BY <1>1, <2>1, <2>2, <2>3 DEF LawfulAt
<1> QED BY <1>2, <1>3, <1>4 DEF Approve

LEMMA NextLawful == ASSUME TypeOK, [Next]_vars PROVE Lawful
<1>1. CASE UNCHANGED vars BY <1>1, StillLawful DEF vars, tables, history
<1>2. ASSUME NEW p \in Procs, Start(p) PROVE Lawful
  BY <1>2, StillLawful
  DEF Start, StartRun, StartResume, StartKeep, StartRollback, tables, history
<1>3. ASSUME NEW p \in Procs, Engine(p) PROVE Lawful
  <2>1. CASE Authorize(p) BY <2>1, AuthorizeLawful
  <2>2. CASE Execute(p)
    <3>1. CASE UNCHANGED executed BY <2>2, <3>1, StillLawful DEF Execute
    <3>2. ASSUME NEW done, Dispatchable(Sid(p), proc[p].step),
                 RunTool(Sid(p), proc[p].step, done)
          PROVE  Lawful
      BY <2>2, <3>2, ToolLawful DEF Execute
    <3> QED BY <2>2, <3>1, <3>2 DEF Execute
  <2>3. CASE \/ CreateSession(p) \/ EngineRun(p) \/ LoopTop(p) \/ AskLlm(p)
             \/ RecordStep(p) \/ PauseForApproval(p) \/ FinalValidation(p)
             \/ Conclude(p) \/ FastValidation(p)
    BY <2>3, StillLawful
    DEF CreateSession, EngineRun, LoopTop, AskLlm, RecordStep, PauseForApproval,
        FinalValidation, Conclude, FastValidation, history
  <2> QED BY <1>3, <2>1, <2>2, <2>3 DEF Engine
<1>4. ASSUME NEW p \in Procs, Resume(p) PROVE Lawful
  <2>1. CASE \/ Acquire(p) \/ Recover(p) \/ DriftPause(p) \/ Resolve(p)
             \/ ContinueApproved(p)
    BY <2>1, StillLawful
    DEF Acquire, Recover, DriftPause, Resolve, ContinueApproved, tables, history
  <2>2. CASE Invalidate(p)
    BY <2>2, StillLawful, ApprovalLawful DEF Invalidate, history
  <2>3. CASE ConsumeCheck(p)
    BY <2>3, StillLawful, ApprovalLawful DEF ConsumeCheck, history
  <2>4. CASE ConsumeCommit(p)
    BY <2>4, StillLawful, ApprovalLawful DEF ConsumeCommit, history
  <2> QED BY <1>4, <2>1, <2>2, <2>3, <2>4 DEF Resume
<1>5. ASSUME NEW p \in Procs, Decide(p) \/ Release(p) PROVE Lawful
  BY <1>5, StillLawful
  DEF Decide, Release, Keep, RollbackFiles, RollbackStatus, tables, history
<1>6. ASSUME NEW p \in Procs, Failure(p) PROVE Lawful
  BY <1>6, StillLawful, CutShortLawful
  DEF Failure, LeakLock, Abort, Kill, tables, history
<1>7. CASE Answer BY <1>7, AnswerLawful DEF Answer
<1>8. CASE Environment
  BY <1>8, StillLawful
  DEF Environment, SessionTimeout, EditFile, Expire, tables, history
<1> QED BY <1>1, <1>2, <1>3, <1>4, <1>5, <1>6, <1>7, <1>8 DEF Next, Continue

\* No tool ever starts without authority, for any processes, sessions, actions
\* and budgets, and whatever fails: the policy allowed its action, or the user
\* approved it, did not deny it since, and the approval was used up.
THEOREM NoEffectWithoutAuthority == Spec => []EffectsGoverned
<1>1. Init => EffectsGoverned /\ Consent
  BY DEF Init, EffectsGoverned, Started, Consent
<1>2. /\ TypeOK /\ EffectsGoverned /\ Consent /\ [Next]_vars
      => EffectsGoverned' /\ Consent'
  BY NextLawful, LawfulLemma DEF AInv
<1> QED BY <1>1, <1>2, TypeCorrect, PTL DEF Spec

-----------------------------------------------------------------------------
(***************************************************************************)
(* Part 4: success, the table of actions, the charges and the tools        *)
(*                                                                         *)
(* No result is overtaken before the engine decides on it, the table has   *)
(* no gaps, every tool that was started has been charged, what was approved*)
(* is done, a rollback that is recorded has happened, and every step is    *)
(* one that Governance permits.                                            *)
(***************************************************************************)

(* The inductive invariant                                                  *)

\* The row after the last one charged.
Ahead(s) == log[s][budget[s].steps + 1]

\* The counters are those of the rows charged, and within their limits.
Counted ==
  \A s \in Sessions :
    /\ budget[s].steps <= MaxSteps
    /\ \A a \in Actions :
         /\ Cardinality({k \in 1..budget[s].steps : log[s][k] = a}) = budget[s].fps[a]
         /\ budget[s].fps[a] <= MaxRepeat

\* Between the look at the budget and the charge there is room for one more.
Room ==
  \A p \in Procs : proc[p].pc \in {"ask", "authorize", "record"} =>
    /\ proc[p].trk.steps < MaxSteps
    /\ \A a \in Actions : proc[p].trk.fps[a] < MaxRepeat

\* The row that is about to be charged is the one after the last.
Recording ==
  \A p \in Procs : proc[p].pc = "record" => proc[p].step = proc[p].trk.steps + 1

\* Whoever is about to set SUCCEEDED does so on a validation that still counts:
\* nobody but a rollback writes the files of a session that a process has in
\* its loop.
Passed == {"final_passed", "undone"}

Judged ==
  \A p \in Procs :
    proc[p].pc = "conclude" /\ proc[p].gate => verdict[Sid(p)] \in Passed

BInv == LogContiguous /\ Counted /\ Room /\ Recording

\* The rows of approvals are those of gated actions.
Requested ==
  \A s \in Sessions, k \in Steps : appr[s][k] # "NONE" => log[s][k] \in Gated

\* A session that waits for an approval, or is about to, has charged its rows.
Settled ==
  /\ \A s \in Sessions : status[s] = "PAUSED_APPROVAL" => Ahead(s) = NoAction
  /\ \A p \in Procs : proc[p].pc = "pause" => Ahead(proc[p].sid) = NoAction

\* Where a process goes on with a session that waits for an approval, and where
\* it has an action in hand whose row was charged.
Waiting == {"resolve", "consume", "commit", "granted"}
Handling == {"consume", "commit", "granted", "execute"}

InPlace ==
  \A p \in Procs :
    /\ proc[p].pc \in Waiting => status[proc[p].sid] = "PAUSED_APPROVAL"
    /\ proc[p].pc \in Handling =>
         proc[p].step \in Steps /\ proc[p].step <= budget[proc[p].sid].steps

\* Only charged rows have been executed.
Behind == \A s \in Sessions : \A k \in Started(s) : k <= budget[s].steps

EInv == BInv /\ Requested /\ Settled /\ InPlace /\ Behind

\* The action that a process is about to execute has not been executed, and
\* a grant in hand is still good.
Unstarted ==
  \A p \in Procs :
    /\ proc[p].pc \in {"granted", "execute"} =>
         /\ executed[proc[p].sid][proc[p].step] = 0
         /\ Dispatchable(proc[p].sid, proc[p].step)
    /\ proc[p].pc = "granted" => log[proc[p].sid][proc[p].step] \in Gated

Once == \A s \in Sessions, k \in Steps : executed[s][k] \in {0, 1}

GInv == EInv /\ Unstarted /\ Once

\* The approvals that were used up for nothing.
Lost ==
  {r \in Sessions \X Steps :
     /\ appr[r[1]][r[2]] = "CONSUMED"
     /\ executed[r[1]][r[2]] = 0
     /\ ~ Granted(r[1], r[2])}

\* A rollback command that saw its session await the decision.
Decided ==
  \A p \in Procs :
    /\ proc[p].pc \in {"rollback", "rolled"} /\ proc[p].seen =>
         status[proc[p].sid] \in {"NEEDS_USER_DECISION", "CHANGES_KEPT", "ROLLED_BACK"}
    /\ proc[p].pc = "rolled" =>
         /\ proc[p].seen
         /\ proc[p].sid \in reverted \/ journal[proc[p].sid] = "empty"

-----------------------------------------------------------------------------
(* Where a step takes a process                                             *)

ProcStep(p) == Start(p) \/ Continue(p) \/ Failure(p)

LEMMA ProcStatus ==
  ASSUME SInv, NEW p \in Procs, ProcStep(p) PROVE StatusEffect(p) /\ Others(p)
<1>1. StatusEffect(p)
  BY OutsideStatus, InsideStatus, PausingStatus, CreateSessionStatus, RunningStatus,
     DriftPauseStatus, DecisionStatus
  DEF ProcStep, Start, Continue, Engine, Resume, Decide, Failure
<1> QED BY <1>1 DEF StatusEffect

\* The places of which the invariant says something.
Watched ==
  {"ask", "authorize", "record", "pause", "conclude", "execute", "rollback",
   "rolled"} \cup Waiting

\* How a process gets to them.
Arrives(p) ==
  LET r == proc[p] q == proc'[p] IN
  /\ q.pc \in Watched \ {"rollback"} => q.sid = r.sid
  /\ q.pc = "ask" => /\ r.pc = "loop" /\ ~StopReason(r.trk, r.sid)
                     /\ q.trk = RecordedCall(r.trk)
  /\ q.pc = "authorize" => r.pc = "ask" /\ q.trk = r.trk
  /\ q.pc = "record" =>
       r.pc = "authorize" /\ q.trk = r.trk /\ q.step = r.trk.steps + 1
  /\ q.pc = "pause" => r.pc = "record" /\ RecordStep(p)
  /\ q.pc = "conclude" => FinalValidation(p)
  /\ q.pc = "resolve" =>
       r.pc = "recover" /\ status[r.sid] = "PAUSED_APPROVAL" /\ UNCHANGED status
  /\ q.pc = "consume" =>
       /\ r.pc = "resolve" /\ UNCHANGED status
       /\ q.step = LatestApproval(r.sid) /\ q.step # 0
  /\ q.pc = "commit" => r.pc = "consume" /\ q.step = r.step /\ UNCHANGED status
  /\ q.pc = "granted" =>
       /\ r.pc = "commit" /\ q.step = r.step /\ UNCHANGED <<status, log, executed>>
       /\ SetApproval(r.sid, r.step, "CONSUMED")
  /\ q.pc = "execute" =>
       /\ q.step = r.step
       /\ \/ r.pc = "record" /\ RecordStep(p) /\ log[r.sid][r.step] \in Allowed
          \/ r.pc = "granted" /\ UNCHANGED <<executed, log, appr>>
  /\ q.pc = "rollback" =>
       (q.seen => status[q.sid] = "NEEDS_USER_DECISION") /\ UNCHANGED status
  /\ q.pc = "rolled" =>
       /\ r.pc = "rollback" /\ r.seen /\ q.seen /\ UNCHANGED status
       /\ r.sid \in reverted' \/ journal'[r.sid] = "empty"

LEMMA GoTo ==
  ASSUME TypeOK, NEW p \in Procs, NEW l, Go(p, l)
  PROVE  /\ proc'[p].pc = l /\ proc'[p].sid = proc[p].sid
         /\ proc'[p].trk = proc[p].trk /\ proc'[p].step = proc[p].step
         /\ proc'[p].seen = proc[p].seen
<1>1. proc[p] \in Locals /\ proc' = [proc EXCEPT ![p] = [proc[p] EXCEPT !.pc = l]]
  BY DEF TypeOK, Go
<1>2. proc'[p] = [proc[p] EXCEPT !.pc = l] BY <1>1 DEF TypeOK
<1> QED BY <1>1, <1>2 DEF Locals

\* The actions that take a process somewhere else.
LEMMA Elsewhere ==
  ASSUME TypeOK, NEW p \in Procs,
         \/ StartRun(p) \/ CreateSession(p) \/ Acquire(p) \/ LeakLock(p)
         \/ Release(p) \/ EngineRun(p) \/ PauseForApproval(p) \/ Conclude(p)
         \/ Execute(p) \/ FastValidation(p) \/ Invalidate(p) \/ DriftPause(p)
         \/ Keep(p) \/ RollbackStatus(p) \/ Abort(p) \/ Kill(p)
         \/ \E s \in Sessions : StartResume(p, s) \/ StartKeep(p, s)
  PROVE  proc'[p].pc \notin Watched
<1>1. proc \in [Procs -> Locals] /\ proc[p] \in Locals BY DEF TypeOK
<1>2. ASSUME NEW l \in Pcs \ Watched, Go(p, l) PROVE proc'[p].pc \notin Watched
  BY <1>2, GoTo
<1>3. ASSUME Quit(p) PROVE proc'[p].pc \notin Watched
  BY <1>3, QuitFacts DEF Watched, Waiting
<1>4. ASSUME NEW t, Pause(p, t) PROVE proc'[p].pc \notin Watched
  <2>1. Go(p, "release") BY <1>4 DEF Pause
  <2> QED BY <1>2, <2>1 DEF Pcs, Watched, Waiting
<1>5. {"create", "release", "recover", "fast", "run", "loop"}
        \subseteq Pcs \ Watched
  BY DEF Pcs, Watched, Waiting
<1>6. CASE StartRun(p) \/ Acquire(p) \/ LeakLock(p) \/ Release(p)
  BY <1>2, <1>3, <1>5, <1>6 DEF StartRun, Acquire, Busy, LeakLock, Release
<1>7. CASE CreateSession(p)
  <2>1. ASSUME NEW s, proc' = [proc EXCEPT ![p].pc = "run", ![p].sid = s]
        PROVE  proc'[p].pc \notin Watched
    BY <1>1, <2>1 DEF Locals, Watched, Waiting
  <2> QED BY <1>2, <1>5, <1>7, <2>1 DEF CreateSession
<1>8. CASE EngineRun(p)
  <2>1. ASSUME NEW t, proc' = [proc EXCEPT ![p].pc = "loop", ![p].trk = t,
                                           ![p].perr = 0, ![p].step = 0]
        PROVE  proc'[p].pc \notin Watched
    BY <1>1, <2>1 DEF Locals, Watched, Waiting
  <2> QED BY <1>2, <1>5, <1>8, <2>1 DEF EngineRun
<1>9. CASE PauseForApproval(p) \/ Conclude(p) \/ DriftPause(p)
  BY <1>4, <1>9 DEF PauseForApproval, Conclude, DriftPause
<1>10. CASE Execute(p)
  BY <1>2, <1>4, <1>5, <1>10 DEF Execute, ToolFailed, AfterTool
<1>11. CASE FastValidation(p)
  <2>1. PICK ok \in BOOLEAN :
          proc' = [proc EXCEPT ![p].trk = RecordedValidation(proc[p].trk, ok),
                               ![p].pc = AfterTool(p)]
    BY <1>11 DEF FastValidation
  <2>2. AfterTool(p) \in {"run", "loop"} BY DEF AfterTool
  <2> QED BY <1>1, <2>1, <2>2 DEF Locals, Watched, Waiting
<1>12. CASE Invalidate(p)
  <2>1. ASSUME NEW S, proc' = [proc EXCEPT ![p].todo = S]
        PROVE  proc'[p].pc \notin Watched
    BY <1>1, <1>12, <2>1 DEF Invalidate, At, Locals, Watched, Waiting
  <2> QED BY <1>2, <1>5, <1>12, <2>1 DEF Invalidate
<1>13. CASE Keep(p) \/ RollbackStatus(p) \/ Kill(p)
  BY <1>3, <1>13 DEF Keep, RollbackStatus, Kill
<1>14. CASE Abort(p) BY <1>2, <1>5, <1>14 DEF Abort
<1>15. ASSUME NEW s \in Sessions, StartResume(p, s) \/ StartKeep(p, s)
       PROVE  proc'[p].pc \notin Watched
  <2>1. PICK l \in {"acquire", "keep"} :
          proc' = [proc EXCEPT ![p].pc = l, ![p].sid = s]
    BY <1>15 DEF StartResume, StartKeep
  <2> QED BY <1>1, <2>1 DEF Locals, Watched, Waiting
<1> QED BY <1>6, <1>7, <1>8, <1>9, <1>10, <1>11, <1>12, <1>13, <1>14, <1>15

LEMMA ArriveLemma ==
  ASSUME IInv, NEW p \in Procs, ProcStep(p) PROVE Arrives(p)
<1>1. TypeOK /\ proc \in [Procs -> Locals] /\ proc[p] \in Locals
  BY DEF IInv, TypeOK
<1>2. CASE proc'[p].pc \notin Watched
  BY <1>2 DEF Arrives, Watched, Waiting
<1>3. ASSUME NEW t, Pause(p, t) PROVE proc'[p].pc \notin Watched
  BY <1>1, <1>3, GoTo DEF Pause, Watched, Waiting
<1>4. CASE LoopTop(p)
  <2>1. CASE /\ ~StopReason(proc[p].trk, Sid(p))
             /\ proc' = [proc EXCEPT ![p].pc = "ask",
                                     ![p].trk = RecordedCall(proc[p].trk)]
    BY <1>1, <1>4, <2>1 DEF LoopTop, At, Sid, Arrives, Locals, Waiting
  <2> QED BY <1>2, <1>3, <1>4, <2>1 DEF LoopTop
<1>5. CASE AskLlm(p)
  <2>1. ASSUME NEW a, proc' = [proc EXCEPT ![p].pc = "authorize",
                                           ![p].perr = 0, ![p].act = a]
        PROVE  Arrives(p)
    BY <1>1, <1>5, <2>1 DEF AskLlm, At, Arrives, Locals, Waiting
  <2>2. ASSUME NEW n, proc' = [proc EXCEPT ![p].pc = "loop", ![p].perr = n]
        PROVE  proc'[p].pc \notin Watched
    BY <1>1, <2>2 DEF Locals, Watched, Waiting
  <2> QED BY <1>2, <1>3, <1>5, <2>1, <2>2 DEF AskLlm
<1>6. CASE Authorize(p)
  <2>1. CASE proc' = [proc EXCEPT ![p].pc = "record", ![p].act = NoAction,
                                  ![p].step = proc[p].trk.steps + 1]
    BY <1>1, <1>6, <2>1 DEF Authorize, At, Arrives, Locals, Waiting
  <2> QED BY <1>2, <1>3, <1>6, <2>1 DEF Authorize
<1>7. CASE RecordStep(p)
  <2> DEFINE a == log[proc[p].sid][proc[p].step]
             t == RecordedStep(proc[p].trk, a)
  <2>1. proc[p].pc = "record" /\ a \in Actions
        /\ proc' = [proc EXCEPT ![p].trk = t, ![p].pc = Dispatch(a)]
    BY <1>7 DEF RecordStep, At, Sid, IInv, Shape
  <2>2. Dispatch(a) \in {"loop", "pause", "final", "execute"}
        /\ (Dispatch(a) = "execute" => a \in Allowed)
    BY <2>1 DEF Actions, Dispatch
  <2>3. proc'[p].pc = Dispatch(a) /\ proc'[p].sid = proc[p].sid
        /\ proc'[p].step = proc[p].step
    <3> HIDE DEF t, a
    <3> QED BY <1>1, <2>1 DEF Locals
  <2> HIDE DEF t
  <2> QED BY <1>7, <2>1, <2>2, <2>3 DEF Arrives, Waiting
<1>8. CASE Recover(p)
  <2>1. CASE journal[Sid(p)] = "drift"
    <3>1. proc'[p].pc = "invalidate"
      BY <1>1, <1>8, <2>1 DEF Recover, Locals
    <3> QED BY <1>2, <3>1 DEF Watched, Waiting
  <2>2. CASE journal[Sid(p)] # "drift"
    <3>1. Go(p, IF status[Sid(p)] = "PAUSED_APPROVAL" THEN "resolve"
                ELSE IF status[Sid(p)] = "PAUSED_WORKSPACE_DRIFT" THEN "release"
                ELSE "run")
      BY <1>8, <2>2 DEF Recover
    <3>2. proc[p].pc = "recover" /\ UNCHANGED status
      BY <1>8 DEF Recover, At, tables
    <3> QED BY <1>1, <3>1, <3>2, GoTo DEF Arrives, Waiting, Sid
  <2> QED BY <2>1, <2>2
<1>9. CASE Resolve(p)
  <2>1. CASE /\ LatestApproval(Sid(p)) # 0 /\ UNCHANGED status
             /\ proc' = [proc EXCEPT ![p].pc = "consume",
                                     ![p].step = LatestApproval(Sid(p))]
    BY <1>1, <1>9, <2>1 DEF Resolve, At, Sid, Arrives, Locals, Waiting
  <2>2. ASSUME NEW l \in {"release", "run"}, Go(p, l)
        PROVE  proc'[p].pc \notin Watched
    BY <1>1, <2>2, GoTo DEF Watched, Waiting
  <2> QED BY <1>2, <1>9, <2>1, <2>2 DEF Resolve
<1>10. CASE ConsumeCheck(p) \/ ConsumeCommit(p)
  <2>1. \/ Go(p, "release")
        \/ proc[p].pc = "consume" /\ Go(p, "commit")
        \/ /\ proc[p].pc = "commit" /\ Go(p, "granted") /\ UNCHANGED <<log, executed>>
           /\ SetApproval(proc[p].sid, proc[p].step, "CONSUMED")
    BY <1>10 DEF ConsumeCheck, ConsumeCommit, At, Sid, history
  <2>2. UNCHANGED status BY <1>10 DEF ConsumeCheck, ConsumeCommit
  <2> QED BY <1>1, <2>1, <2>2, GoTo DEF Arrives, Waiting, Watched
<1>11. CASE ContinueApproved(p)
  <2>1. CASE proc' = [proc EXCEPT ![p].pc = "execute", ![p].trk = TrackerOf(Sid(p))]
    BY <1>1, <1>11, <2>1
    DEF ContinueApproved, At, Sid, Arrives, Locals, Waiting, history
  <2>2. CASE Go(p, "release")
    BY <1>1, <1>2, <2>2, GoTo DEF Watched, Waiting
  <2> QED BY <1>11, <2>1, <2>2 DEF ContinueApproved
<1>12. ASSUME NEW s \in Sessions, StartRollback(p, s) PROVE Arrives(p)
  <2>1. UNCHANGED status /\ proc'[p].pc = "rollback" /\ proc'[p].sid = s
        /\ proc'[p].seen = (status[s] = "NEEDS_USER_DECISION")
    BY <1>1, <1>12 DEF StartRollback, Locals, tables
  <2> QED BY <2>1 DEF Arrives, Waiting
<1>13. CASE RollbackFiles(p)
  <2>1. UNCHANGED status /\ proc[p].pc = "rollback" /\ proc[p].sid \in Sessions
    BY <1>13 DEF RollbackFiles, At, IInv, Shape, Based, Pcs
  <2>2. CASE Quit(p) BY <1>1, <1>2, <2>2, QuitFacts DEF Watched, Waiting
  <2>3. CASE RollbackEnds(p) /\ ~Quit(p)
    <3>1. Go(p, "rolled") /\ proc[p].seen BY <2>3 DEF RollbackEnds
    <3>2. proc[p].sid \in reverted' \/ journal'[proc[p].sid] = "empty"
      BY <1>13, <2>3 DEF RollbackFiles, RollbackRefused, Sid
    <3> QED BY <1>1, <2>1, <3>1, <3>2, GoTo DEF Arrives, Waiting
  <2> QED BY <1>13, <2>2, <2>3 DEF RollbackFiles, RollbackRefused
<1>14. CASE FinalValidation(p)
  BY <1>1, <1>14, FinalFacts DEF Arrives, Waiting
<1> QED
  BY <1>1, <1>2, <1>4, <1>5, <1>6, <1>7, <1>8, <1>9, <1>10, <1>11, <1>12, <1>13,
     <1>14, Elsewhere
  DEF ProcStep, Start, Continue, Engine, Resume, Decide, Failure

-----------------------------------------------------------------------------
(* Success                                                                  *)

\* Apart from a rollback, verdicts change only by a process that has the lock
\* and is in the loop or enters it, with its session running or about to.
LEMMA VerdictStep ==
  ASSUME SInv, [Next]_vars, NEW s \in Sessions, verdict'[s] # verdict[s]
  PROVE  \/ verdict'[s] = AfterUndo(verdict[s])
         \/ /\ status[s] \in {"CREATED", "RUNNING"}
            /\ \E p \in Procs : proc[p].pc \in {"run", "final", "execute"} /\ lock = p
<1> TypeOK BY DEF SInv, IInv
<1>1. verdict' # verdict OBVIOUS
<1>2. ~(Answer \/ Environment \/ UNCHANGED vars)
  BY <1>1 DEF Answer, Approve, Deny, Environment, SessionTimeout, EditFile,
              Expire, tables, vars
<1>3. PICK p \in Procs : Start(p) \/ Continue(p) \/ Failure(p)
  BY <1>2 DEF Next
<1>4. ~Start(p)
  BY <1>1 DEF Start, StartRun, StartResume, StartKeep, StartRollback, tables
<1>5. ~(Keep(p) \/ RollbackStatus(p) \/ Release(p) \/ Resume(p))
  BY <1>1 DEF Keep, RollbackStatus, Release, Resume, Acquire, Recover, Invalidate,
     DriftPause, Resolve, ConsumeCheck, ConsumeCommit, ContinueApproved, tables
<1>6. CASE RollbackFiles(p)
  <2>1. verdict' = [verdict EXCEPT ![Sid(p)] = AfterUndo(@)]
    BY <1>1, <1>6 DEF RollbackFiles
  <2> QED BY <2>1 DEF TypeOK
<1>7. CASE Engine(p) \/ Failure(p)
  <2>1. EngineRun(p) \/ At(p, "final") \/ At(p, "execute")
    <3>1. CASE Engine(p)
      BY <1>1, <3>1 DEF Engine, CreateSession, LoopTop, AskLlm, Authorize,
         RecordStep, PauseForApproval, Conclude, FastValidation, FinalValidation,
         Execute
    <3>2. CASE Failure(p)
      BY <1>1, <3>2 DEF Failure, LeakLock, Abort, Kill, CutShort, tables
    <3> QED BY <1>7, <3>1, <3>2
  <2>2. \E v : verdict' = [verdict EXCEPT ![Sid(p)] = v]
    <3>1. CASE EngineRun(p) BY <1>1, <3>1 DEF EngineRun
    <3>2. CASE Engine(p) /\ ~EngineRun(p)
      BY <1>1, <3>2 DEF Engine, CreateSession, LoopTop, AskLlm, Authorize,
         RecordStep, PauseForApproval, Conclude, FastValidation, FinalValidation,
         Execute, RunTool
    <3>3. CASE Failure(p)
      BY <1>1, <3>3 DEF Failure, LeakLock, Abort, Kill, CutShort, RunTool, tables
    <3> QED BY <1>7, <3>1, <3>2, <3>3
  <2>3. s = Sid(p) BY <2>2 DEF TypeOK
  <2>4. proc[p].pc \in {"run", "final", "execute"} BY <2>1 DEF EngineRun, At
  <2>5. lock = p BY <2>4 DEF SInv, IInv, Shape, Held, Pcs
  <2>6. CASE EngineRun(p) BY <1>1, <2>3, <2>4, <2>5, <2>6 DEF EngineRun
  <2>7. CASE At(p, "final") \/ At(p, "execute")
    <3>1. proc[p].pc \in InLoop BY <2>7 DEF At, InLoop
    <3> QED BY <2>3, <2>4, <2>5, <3>1 DEF SInv, Running, Sid
  <2> QED BY <2>1, <2>6, <2>7
<1> QED BY <1>3, <1>4, <1>5, <1>6, <1>7 DEF Continue, Decide

LEMMA UndoneCounts == \A v \in Passed : AfterUndo(v) \in Passed
BY DEF Passed, AfterUndo

LEMMA JudgedStep ==
  ASSUME SInv, Judged, [Next]_vars PROVE Judged'
<1> SUFFICES ASSUME NEW q \in Procs, proc'[q].pc = "conclude", proc'[q].gate
             PROVE  verdict'[proc'[q].sid] \in Passed
  BY DEF Judged, Sid
<1>1. IInv /\ TypeOK BY DEF SInv, IInv
<1>2. CASE FinalValidation(q)
  <2>1. proc[q].pc = "final" BY <1>2 DEF FinalValidation, At
  <2>2. Sid(q) \in Sessions BY <1>1, <2>1 DEF IInv, Shape, Based, Pcs, Sid
  <2> QED BY <1>1, <1>2, <2>2, FinalFacts DEF Passed, Sid
<1>3. CASE ~FinalValidation(q)
  <2>1. proc'[q] = proc[q]
    <3>1. CASE Answer \/ Environment \/ UNCHANGED vars
      BY <3>1 DEF Answer, Approve, Deny, Environment, SessionTimeout, EditFile,
                  Expire, vars
    <3>2. ASSUME NEW p \in Procs, ProcStep(p) PROVE proc'[q] = proc[q]
      <4>1. CASE p = q BY <1>1, <1>3, <3>2, <4>1, ArriveLemma DEF Arrives
      <4>2. CASE p # q BY <3>2, <4>2, ProcStatus DEF Others
      <4> QED BY <4>1, <4>2
    <3> QED BY <3>1, <3>2 DEF Next, ProcStep
  <2> DEFINE s == proc[q].sid
  <2>2. s \in Sessions /\ lock = q
    BY <1>1, <2>1 DEF IInv, Shape, Based, Held, Pcs
  <2>3. verdict[s] \in Passed BY <2>1 DEF Judged, Sid
  <2>4. verdict'[s] = verdict[s] \/ verdict'[s] = AfterUndo(verdict[s])
    <3>1. ASSUME NEW p \in Procs, proc[p].pc \in {"run", "final", "execute"}, lock = p
          PROVE  FALSE
      BY <2>1, <2>2, <3>1
    <3> QED BY <2>2, <3>1, VerdictStep
  <2> QED BY <2>1, <2>3, <2>4, UndoneCounts
<1> QED BY <1>2, <1>3

\* The only way to SUCCEEDED is the end of the loop, with the gate open.
LEMMA SuccessStep ==
  ASSUME TypeOK, [Next]_vars, NEW s \in Sessions,
         status'[s] = "SUCCEEDED", status[s] # "SUCCEEDED"
  PROVE  /\ UNCHANGED verdict
         /\ \E p \in Procs : proc[p].pc = "conclude" /\ proc[p].gate /\ Sid(p) = s
<1>1. status' # status OBVIOUS
<1>2. \A t : \A target : Set(t, target) => s = t /\ target = "SUCCEEDED"
  BY DEF Set, TypeOK
<1>3. ~(Answer \/ Environment \/ UNCHANGED vars)
  BY <1>1 DEF Answer, Approve, Deny, Environment, SessionTimeout, EditFile,
              Expire, tables, vars
<1>4. PICK p \in Procs : Start(p) \/ Continue(p) \/ Failure(p)
  BY <1>3 DEF Next
<1>5. ~(Start(p) \/ Failure(p) \/ Release(p))
  BY <1>1 DEF Start, StartRun, StartResume, StartKeep, StartRollback, Failure,
              LeakLock, Abort, Kill, Release, tables
<1>6. ~(Decide(p) \/ Resume(p))
  BY <1>1, <1>2 DEF Decide, Keep, RollbackFiles, RollbackStatus, Resume,
     Acquire, Recover, Invalidate, DriftPause, Resolve, ConsumeCheck,
     ConsumeCommit, ContinueApproved, Reopen, Pause, tables
<1>7. Conclude(p)
  <2>1. ~(CreateSession(p) \/ EngineRun(p))
    BY <1>1, <1>2 DEF CreateSession, EngineRun
  <2>2. ~(LoopTop(p) \/ AskLlm(p) \/ Authorize(p))
    BY <1>1, <1>2 DEF LoopTop, AskLlm, Authorize, Pause
  <2>3. ~PauseForApproval(p) BY <1>1, <1>2 DEF PauseForApproval, Pause
  <2>4. ~Execute(p)
    <3>1. ~ToolFailed(p) BY <1>1, <1>2 DEF ToolFailed, Pause
    <3> QED BY <1>1, <3>1 DEF Execute
  <2>5. ~(RecordStep(p) \/ FinalValidation(p) \/ FastValidation(p))
    BY <1>1 DEF RecordStep, FinalValidation, FastValidation
  <2> QED BY <1>4, <1>5, <1>6, <2>1, <2>2, <2>3, <2>4, <2>5 DEF Continue, Engine
<1>8. Pause(p, IF proc[p].gate THEN "SUCCEEDED" ELSE "NEEDS_USER_DECISION")
  BY <1>7 DEF Conclude
<1>9. s = Sid(p) /\ proc[p].gate
  BY <1>1, <1>2, <1>8 DEF Pause
<1> QED BY <1>7, <1>9 DEF Conclude, At

\* Whatever commands, failures and edits interleave: a session that is
\* SUCCEEDED passed its final validation after the last edit of its tools, and
\* since then nothing but a rollback of it has written files. The result that
\* the engine decides on has not been overtaken.
THEOREM SuccessIsValidated == Spec => []SuccessValidated
<1>1. Init => SuccessValidated /\ Judged
  BY IdleType DEF Init, SuccessValidated, Judged
<1>2. SInv /\ SuccessValidated /\ Judged /\ [Next]_vars => SuccessValidated'
  <2> SUFFICES ASSUME SInv, SuccessValidated, Judged, [Next]_vars,
                      NEW s \in Sessions, status'[s] = "SUCCEEDED"
               PROVE  verdict'[s] \in Passed
    BY DEF SuccessValidated, Passed
  <2>1. CASE status[s] = "SUCCEEDED"
    <3>1. verdict[s] \in Passed BY <2>1 DEF SuccessValidated, Passed
    <3> QED BY <2>1, <3>1, VerdictStep, UndoneCounts
  <2>2. CASE status[s] # "SUCCEEDED"
    <3>1. TypeOK BY DEF SInv, IInv
    <3> QED BY <2>2, <3>1, SuccessStep DEF Judged
  <2> QED BY <2>1, <2>2
<1> QED BY <1>1, <1>2, JudgedStep, InitSInv, NextSInv, PTL DEF Spec

-----------------------------------------------------------------------------
(* The actions table and the counters of steps                              *)

SameBooks(s) ==
  /\ log'[s] = log[s]
  /\ budget'[s].steps = budget[s].steps /\ budget'[s].fps = budget[s].fps

\* The row that Authorize inserts.
Inserts(p) ==
  LET s == proc[p].sid k == budget[s].steps + 1 IN
  /\ proc[p].pc = "authorize"
  /\ k \in Steps /\ log[s][k] = NoAction /\ proc[p].act \in Actions
  /\ log' = [log EXCEPT ![s][k] = proc[p].act]
  /\ UNCHANGED <<budget, executed>>
  /\ appr' = IF proc[p].act \in Gated THEN [appr EXCEPT ![s][k] = "PENDING"] ELSE appr

LEMMA AuthorizeInserts ==
  ASSUME IInv, NEW p \in Procs, Authorize(p)
  PROVE  Inserts(p) \/ UNCHANGED <<log, budget, appr, executed>>
<1>1. proc[p].pc = "authorize" /\ proc[p].pc \in InLoop
      /\ UNCHANGED <<budget, executed>>
  BY DEF Authorize, At, InLoop, history
<1>2. proc[p].trk = budget[proc[p].sid] /\ Sid(p) = proc[p].sid
  BY <1>1, InLoopFacts
<1>3. proc[p].act \in Actions BY <1>1 DEF IInv, Shape
<1> QED
  BY <1>1, <1>2, <1>3 DEF Authorize, RecordAction, RequestApproval, Inserts

\* A save that leaves the steps and the repetitions alone.
LEMMA SavedBooks ==
  ASSUME IInv, NEW p \in Procs, proc[p].pc \in InLoop, NEW t \in Budgets, Save(p, t),
         t.steps = proc[p].trk.steps, t.fps = proc[p].trk.fps, UNCHANGED log,
         NEW s \in Sessions
  PROVE  SameBooks(s)
<1>1. TypeOK /\ Sid(p) \in Sessions /\ proc[p].trk = budget[Sid(p)]
  BY InLoopFacts
<1>2. budget'[Sid(p)] = t /\ \A u \in Sessions : u # Sid(p) => budget'[u] = budget[u]
  BY <1>1, SaveFacts
<1> QED BY <1>1, <1>2 DEF SameBooks

LEMMA BooksLemma ==
  ASSUME IInv, [Next]_vars
  PROVE  \/ \A s \in Sessions : SameBooks(s)
         \/ \E p \in Procs : ProcStep(p) /\ (Inserts(p) \/ RecordStep(p))
<1> SUFFICES ASSUME NEW s \in Sessions,
                    ~ \E p \in Procs : ProcStep(p) /\ (Inserts(p) \/ RecordStep(p))
             PROVE  SameBooks(s)
  OBVIOUS
<1>1. ASSUME UNCHANGED <<log, budget>> PROVE SameBooks(s) BY <1>1 DEF SameBooks
<1>2. CASE Answer \/ Environment \/ UNCHANGED vars
  BY <1>1, <1>2 DEF Answer, Approve, Deny, Environment, SessionTimeout, EditFile,
     Expire, tables, vars
<1>3. ASSUME NEW p \in Procs, ProcStep(p) PROVE SameBooks(s)
  <2>1. CASE LoopTop(p)
    <3>1. proc[p].pc \in InLoop /\ UNCHANGED log BY <2>1 DEF LoopTop, At, InLoop
    <3>2. proc[p].trk \in Budgets BY <3>1, InLoopFacts
    <3>3. LET t == RecordedCall(proc[p].trk) IN
          t \in Budgets /\ t.steps = proc[p].trk.steps /\ t.fps = proc[p].trk.fps
      BY <3>2 DEF RecordedCall, Budgets
    <3> QED BY <1>1, <2>1, <3>1, <3>2, <3>3, SavedBooks DEF LoopTop
  <2>2. CASE FastValidation(p)
    <3>1. proc[p].pc \in InLoop /\ UNCHANGED log BY <2>2 DEF FastValidation, At, InLoop
    <3>2. proc[p].trk \in Budgets BY <3>1, InLoopFacts
    <3>3. PICK ok \in BOOLEAN : Save(p, RecordedValidation(proc[p].trk, ok))
      BY <2>2 DEF FastValidation
    <3>4. LET t == RecordedValidation(proc[p].trk, ok) IN
          t \in Budgets /\ t.steps = proc[p].trk.steps /\ t.fps = proc[p].trk.fps
      BY <3>2 DEF RecordedValidation, Budgets
    <3> QED BY <3>1, <3>3, <3>4, SavedBooks
  <2>3. CASE Authorize(p) BY <1>1, <1>3, <2>3, AuthorizeInserts
  <2>4. CASE Start(p)
    BY <1>1, <2>4 DEF Start, StartRun, StartResume, StartKeep, StartRollback, tables
  <2>5. CASE \/ CreateSession(p) \/ EngineRun(p) \/ AskLlm(p) \/ PauseForApproval(p)
             \/ FinalValidation(p) \/ Conclude(p) \/ Execute(p)
    BY <1>1, <2>5 DEF CreateSession, EngineRun, AskLlm, PauseForApproval,
       FinalValidation, Conclude, Execute
  <2>6. CASE Resume(p)
    BY <1>1, <2>6 DEF Resume, Acquire, Recover, Invalidate, DriftPause, Resolve,
       ConsumeCheck, ConsumeCommit, ContinueApproved, tables
  <2>7. CASE Decide(p) \/ Release(p) \/ Failure(p)
    BY <1>1, <2>7 DEF Decide, Keep, RollbackFiles, RollbackStatus, Release, Failure,
       LeakLock, Abort, Kill, tables
  <2> QED BY <1>3, <2>1, <2>2, <2>3, <2>4, <2>5, <2>6, <2>7 DEF ProcStep, Continue, Engine
<1> QED BY <1>2, <1>3 DEF Next, ProcStep

\* What is said of one process holds again if it says it of the others before.
LEMMA OneMoves ==
  ASSUME IInv, SInv, [Next]_vars, NEW q \in Procs, proc'[q] # proc[q]
  PROVE  ProcStep(q) /\ Arrives(q)
<1>1. ~(Answer \/ Environment \/ UNCHANGED vars)
  BY DEF Answer, Approve, Deny, Environment, SessionTimeout, EditFile, Expire, vars
<1>2. PICK p \in Procs : ProcStep(p) BY <1>1 DEF Next, ProcStep
<1>3. p = q BY <1>2, ProcStatus DEF Others
<1> QED BY <1>2, <1>3, ArriveLemma

LEMMA RoomStep ==
  ASSUME IInv, SInv, BInv, [Next]_vars PROVE Room' /\ Recording'
<1> SUFFICES ASSUME NEW q \in Procs, proc'[q].pc \in {"ask", "authorize", "record"}
             PROVE  /\ proc'[q].trk.steps < MaxSteps
                    /\ \A a \in Actions : proc'[q].trk.fps[a] < MaxRepeat
                    /\ proc'[q].pc = "record" =>
                         proc'[q].step = proc'[q].trk.steps + 1
  BY DEF Room, Recording
<1>1. CASE proc'[q] = proc[q] BY <1>1 DEF BInv, Room, Recording
<1>2. CASE proc'[q] # proc[q]
  <2>1. Arrives(q) BY <1>2, OneMoves
  <2>2. CASE proc'[q].pc = "ask"
    <3>1. proc[q].pc = "loop" /\ ~StopReason(proc[q].trk, proc[q].sid)
          /\ proc'[q].trk = RecordedCall(proc[q].trk)
      BY <2>1, <2>2 DEF Arrives
    <3>2. proc[q].trk \in Budgets BY <3>1, InLoopFacts DEF InLoop
    <3>3. proc'[q].trk.steps = proc[q].trk.steps /\ proc'[q].trk.fps = proc[q].trk.fps
      BY <3>1, <3>2 DEF RecordedCall, Budgets
    <3> QED BY <2>2, <3>1, <3>2, <3>3, BudgetAssumption DEF StopReason, Budgets
  <2>3. CASE proc'[q].pc \in {"authorize", "record"}
    BY <2>1, <2>3 DEF Arrives, BInv, Room
  <2> QED BY <2>2, <2>3
<1> QED BY <1>1, <1>2

\* What one more row adds to a set of rows.
LEMMA CountOne ==
  ASSUME NEW n \in Nat, NEW S \in SUBSET (1..n), NEW T,
         T = S \/ T = S \cup {n + 1}
  PROVE  Cardinality(T) = Cardinality(S) + (IF n + 1 \in T THEN 1 ELSE 0)
<1>1. IsFiniteSet(1..n) BY FS_Interval
<1>2. IsFiniteSet(S) /\ Cardinality(S) \in Nat BY <1>1, FS_Subset, FS_CardinalityType
<1>3. n + 1 \notin S OBVIOUS
<1> QED BY <1>2, <1>3, FS_AddElement

\* A step that touches neither the rows nor the counters of a session.
SoundBooks(s) ==
  LET Rows == {k \in Steps : log[s][k] # NoAction} IN
  /\ Rows = 1..budget[s].steps \/ Rows = 1..(budget[s].steps + 1)
  /\ budget[s].steps <= MaxSteps
  /\ \A a \in Actions :
       /\ Cardinality({k \in 1..budget[s].steps : log[s][k] = a}) = budget[s].fps[a]
       /\ budget[s].fps[a] <= MaxRepeat

LEMMA SoundFacts ==
  (\A s \in Sessions : SoundBooks(s)) <=> LogContiguous /\ Counted
BY DEF SoundBooks, LogContiguous, Counted

LEMMA SameSound ==
  ASSUME NEW s \in Sessions, SoundBooks(s), SameBooks(s) PROVE SoundBooks(s)'
BY DEF SoundBooks, SameBooks

\* The row inserted extends the rows by one, which is not charged yet.
LEMMA InsertSound ==
  ASSUME IInv, BInv, NEW p \in Procs, Inserts(p), NEW s \in Sessions, s = proc[p].sid
  PROVE  SoundBooks(s)'
<1> DEFINE n == budget[s].steps
<1>1. s \in Sessions /\ n \in Nat /\ NoAction \notin Actions
  BY ActionsAssumption, InLoopFacts DEF Inserts, InLoop, IInv, TypeOK, Budgets
<1>2. SoundBooks(s) BY <1>1, SoundFacts DEF BInv
<1>3. /\ UNCHANGED budget /\ log[s][n + 1] = NoAction /\ proc[p].act \in Actions
      /\ n + 1 \in Steps
      /\ \A k : k # n + 1 => log'[s][k] = log[s][k]
      /\ log'[s][n + 1] = proc[p].act
  <2>1. log' = [log EXCEPT ![s][n + 1] = proc[p].act] /\ n + 1 \in Steps
    BY DEF Inserts
  <2>2. log \in [Sessions -> [Steps -> Actions \cup {NoAction}]] BY DEF IInv, TypeOK
  <2> QED BY <1>1, <2>1, <2>2 DEF Inserts
<1>4. {k \in Steps : log[s][k] # NoAction} = 1..n
  <2>1. n + 1 \notin {k \in Steps : log[s][k] # NoAction} BY <1>3
  <2>2. n + 1 \in 1..(n + 1) BY <1>1
  <2> QED BY <1>2, <2>1, <2>2 DEF SoundBooks
<1>5. {k \in Steps : log'[s][k] # NoAction} = 1..(n + 1)
  <2>1. \A k \in Steps : log'[s][k] # NoAction <=> k \in 1..n \/ k = n + 1
    BY <1>1, <1>3, <1>4
  <2>2. 1..(n + 1) \subseteq Steps /\ 1..n \subseteq Steps
    BY <1>1, <1>3, BudgetAssumption DEF Steps
  <2>3. \A k \in Nat : k \in 1..(n + 1) <=> k \in 1..n \/ k = n + 1 BY <1>1
  <2> QED BY <1>1, <2>1, <2>2, <2>3
<1>6. \A a : {k \in 1..n : log'[s][k] = a} = {k \in 1..n : log[s][k] = a}
  BY <1>1, <1>3
<1>7. budget'[s] = budget[s] BY <1>3
<1>8. \A a \in Actions :
        /\ Cardinality({k \in 1..n : log'[s][k] = a}) = budget'[s].fps[a]
        /\ budget'[s].fps[a] <= MaxRepeat
  BY <1>2, <1>6, <1>7 DEF SoundBooks
<1> QED BY <1>2, <1>5, <1>7, <1>8 DEF SoundBooks

LEMMA RecordSound ==
  ASSUME IInv, BInv, NEW p \in Procs, RecordStep(p), NEW s \in Sessions, s = proc[p].sid
  PROVE  SoundBooks(s)'
<1> DEFINE n == budget[s].steps
           t == budget[s]
           b == log[s][n + 1]
<1>1. proc[p].pc = "record" /\ proc[p].pc \in InLoop /\ UNCHANGED log
  BY DEF RecordStep, At, InLoop
<1>2. /\ s \in Sessions /\ t \in Budgets /\ n \in Nat /\ proc[p].trk = t
      /\ Sid(p) = s /\ NoAction \notin Actions /\ TypeOK
  BY <1>1, ActionsAssumption, InLoopFacts DEF Budgets
<1>3. SoundBooks(s) BY <1>2, SoundFacts DEF BInv
<1>4. proc[p].step = n + 1 /\ n + 1 \in Steps /\ b \in Actions
  BY <1>1, <1>2 DEF BInv, Recording, IInv, Shape
<1>5. n < MaxSteps /\ \A a \in Actions : t.fps[a] < MaxRepeat
  BY <1>1, <1>2 DEF BInv, Room
<1>6. /\ budget'[s].steps = n + 1
      /\ \A a \in Actions : budget'[s].fps[a] = t.fps[a] + (IF a = b THEN 1 ELSE 0)
  <2>1. Save(p, RecordedStep(t, b)) BY <1>2, <1>4 DEF RecordStep
  <2>0. RecordedStep(t, b) \in Budgets BY <1>2, <1>4, RecordedFacts
  <2>2. budget'[s] = RecordedStep(t, b)
    <3> HIDE DEF t, b
    <3> QED BY <1>2, <2>0, <2>1, SaveFacts
  <2> HIDE DEF b, t
  <2>3. t \in Budgets /\ b \in Actions BY <1>2, <1>4
  <2>4. RecordedStep(t, b).steps = t.steps + 1
        /\ RecordedStep(t, b).fps = [t.fps EXCEPT ![b] = @ + 1]
    BY <2>3 DEF RecordedStep, Budgets
  <2>5. t.fps \in [Actions -> Nat] BY <2>3 DEF Budgets
  <2> QED BY <2>2, <2>3, <2>4, <2>5 DEF t
<1>7. {k \in Steps : log'[s][k] # NoAction} = 1..(n + 1)
  <2>1. n + 1 \in {k \in Steps : log[s][k] # NoAction} BY <1>2, <1>4
  <2>2. n + 1 \notin 1..n BY <1>2
  <2> QED BY <1>1, <1>3, <2>1, <2>2 DEF SoundBooks
<1>8. ASSUME NEW a \in Actions
      PROVE  /\ Cardinality({k \in 1..(n + 1) : log'[s][k] = a}) = budget'[s].fps[a]
             /\ budget'[s].fps[a] <= MaxRepeat
  <2>1. Cardinality({k \in 1..n : log[s][k] = a}) = t.fps[a] BY <1>3 DEF SoundBooks
  <2>2. Cardinality({k \in 1..(n + 1) : log[s][k] = a})
          = Cardinality({k \in 1..n : log[s][k] = a}) + (IF b = a THEN 1 ELSE 0)
    <3> DEFINE S == {k \in 1..n : log[s][k] = a}
               T == {k \in 1..(n + 1) : log[s][k] = a}
    <3>1. S \in SUBSET (1..n) /\ n \in Nat BY <1>2
    <3>2. n + 1 \in T <=> b = a BY <1>2
    <3>3. T = S \cup {n + 1} \/ T = S
      <4>1. \A k : k \in 1..(n + 1) <=> k \in 1..n \/ k = n + 1 BY <1>2
      <4>2. CASE b = a BY <4>1, <4>2
      <4>3. CASE b # a BY <4>1, <4>3
      <4> QED BY <4>2, <4>3
    <3> HIDE DEF S, T, n, b
    <3>4. Cardinality(T) = Cardinality(S) + (IF n + 1 \in T THEN 1 ELSE 0)
      BY <3>1, <3>3, CountOne
    <3> QED BY <3>2, <3>4 DEF S, T
  <2>3. t.fps[a] \in Nat BY <1>2 DEF Budgets
  <2>4. {k \in 1..(n + 1) : log'[s][k] = a} = {k \in 1..(n + 1) : log[s][k] = a}
    BY <1>1
  <2>5. budget'[s].fps[a] = t.fps[a] + (IF b = a THEN 1 ELSE 0) BY <1>6
  <2>6. t.fps[a] < MaxRepeat BY <1>5
  <2>7. Cardinality({k \in 1..(n + 1) : log'[s][k] = a})
          = Cardinality({k \in 1..(n + 1) : log[s][k] = a})
    BY <2>4
  <2> HIDE DEF n, t, b
  <2>8. Cardinality({k \in 1..(n + 1) : log'[s][k] = a}) = budget'[s].fps[a]
    BY <2>1, <2>2, <2>5, <2>7
  <2>9. MaxRepeat \in Nat BY BudgetAssumption
  <2>10. budget'[s].fps[a] <= MaxRepeat BY <2>3, <2>5, <2>6, <2>9
  <2> QED BY <2>8, <2>10
<1>9. n + 1 <= MaxSteps BY <1>2, <1>5, BudgetAssumption
<1> HIDE DEF n, t, b
<1> QED BY <1>6, <1>7, <1>8, <1>9 DEF SoundBooks

LEMMA NextBInv == ASSUME IInv, SInv, BInv, [Next]_vars PROVE BInv'
<1>1. ASSUME NEW s \in Sessions PROVE SoundBooks(s)'
  <2>1. SoundBooks(s) BY SoundFacts DEF BInv
  <2>2. CASE SameBooks(s) BY <2>1, <2>2, SameSound
  <2>3. CASE ~SameBooks(s)
    <3>1. PICK p \in Procs : Inserts(p) \/ RecordStep(p) BY <2>3, BooksLemma
    <3>2. s = proc[p].sid
      <4>1. Sid(p) = proc[p].sid BY DEF Sid
      <4> QED BY <2>3, <3>1, <4>1 DEF SameBooks, Inserts, RecordStep, Save, IInv, TypeOK
    <3> QED BY <3>1, <3>2, InsertSound, RecordSound
  <2> QED BY <2>2, <2>3
<1>2. LogContiguous' /\ Counted'
  BY <1>1 DEF SoundBooks, LogContiguous, Counted
<1> QED BY <1>2, RoomStep DEF BInv

LEMMA InitBInv == Init => BInv
<1> SUFFICES ASSUME Init PROVE BInv OBVIOUS
<1>1. \A p \in Procs : proc[p].pc = "idle" BY IdleType DEF Init
<1>2. ASSUME NEW s \in Sessions PROVE SoundBooks(s)
  <2>1. budget[s].steps = 0 /\ \A a \in Actions : budget[s].fps[a] = 0
    BY DEF Init, NoBudget
  <2>2. {k \in Steps : log[s][k] # NoAction} = {} BY DEF Init
  <2>3. \A a : {k \in 1..0 : log[s][k] = a} = {} /\ 1..0 = {} OBVIOUS
  <2> QED BY <2>1, <2>2, <2>3, FS_EmptySet, BudgetAssumption DEF SoundBooks
<1> QED BY <1>1, <1>2, SoundFacts DEF BInv, Room, Recording

\* The actions table has no gaps and is at most one row ahead of the persisted
\* step counter, for every number of processes and however often one of them
\* was interrupted between the insertion and the charge.
THEOREM NoGapsInLog == Spec => []LogContiguous
<1>1. BInv => LogContiguous BY DEF BInv
<1>2. SInv => IInv BY DEF SInv
<1> QED BY <1>1, <1>2, InitSInv, NextSInv, InitBInv, NextBInv, PTL DEF Spec

-----------------------------------------------------------------------------
(* What a step does to the rows                                             *)

\* The commands and the clock that decide over an approval.
Decides(s, k) ==
  /\ \E target \in {"APPROVED", "DENIED", "EXPIRED", "INVALIDATED", "CONSUMED"} :
       SetApproval(s, k, target)
  /\ UNCHANGED <<log, executed>>

Runs(p) ==
  LET s == proc[p].sid k == proc[p].step IN
  /\ proc[p].pc = "execute"
  /\ Dispatchable(s, k)
  /\ executed' = [executed EXCEPT ![s][k] = @ + 1]
  /\ UNCHANGED <<log, appr>>

SameRows == UNCHANGED <<log, appr, executed>>

\* A step inserts a row, decides over an approval or starts a tool, of one row,
\* or it leaves all rows alone.
LEMMA RowStep ==
  ASSUME IInv, InPlace, [Next]_vars
  PROVE  \/ SameRows
         \/ \E p \in Procs : ProcStep(p) /\ (Inserts(p) \/ Runs(p))
         \/ \E s \in Sessions, k \in Steps : Decides(s, k)
<1> DEFINE Goal == \/ SameRows
                   \/ \E p \in Procs : ProcStep(p) /\ (Inserts(p) \/ Runs(p))
                   \/ \E s \in Sessions, k \in Steps : Decides(s, k)
<1>1. CASE Environment \/ UNCHANGED vars
  BY <1>1 DEF Environment, SessionTimeout, EditFile, Expire, tables, history, vars,
     SameRows
<1>2. CASE Answer
  BY <1>2 DEF Answer, Approve, Deny, Decides
<1>3. ASSUME NEW p \in Procs, ProcStep(p) PROVE Goal
  <2>0. TypeOK /\ proc[p] \in Locals BY DEF IInv, TypeOK
  <2>1. CASE Authorize(p) BY <1>3, <2>1, AuthorizeInserts DEF SameRows
  <2>2. ASSUME NEW done, At(p, "execute"), Dispatchable(Sid(p), proc[p].step),
               RunTool(Sid(p), proc[p].step, done), UNCHANGED <<log, appr>>
        PROVE  Goal
    <3>1. Runs(p) BY <2>2 DEF Runs, RunTool, At, Sid
    <3> QED BY <1>3, <3>1
  <2>3. CASE Execute(p) BY <2>2, <2>3 DEF Execute, SameRows
  <2>4. CASE Abort(p) \/ Kill(p)
    BY <2>2, <2>4 DEF Abort, Kill, CutShort, SameRows
  <2>5. CASE Start(p) \/ LeakLock(p) \/ Release(p) \/ Decide(p)
    BY <2>5 DEF Start, StartRun, StartResume, StartKeep, StartRollback, LeakLock,
       Release, Decide, Keep, RollbackFiles, RollbackStatus, tables, history, SameRows
  <2>6. CASE \/ CreateSession(p) \/ EngineRun(p) \/ LoopTop(p) \/ AskLlm(p)
             \/ RecordStep(p) \/ PauseForApproval(p) \/ FinalValidation(p)
             \/ Conclude(p) \/ FastValidation(p)
    BY <2>6 DEF CreateSession, EngineRun, LoopTop, AskLlm, RecordStep,
       PauseForApproval, FinalValidation, Conclude, FastValidation, history, SameRows
  <2>7. CASE \/ Acquire(p) \/ Recover(p) \/ DriftPause(p) \/ Resolve(p)
             \/ ContinueApproved(p)
    BY <2>7 DEF Acquire, Recover, DriftPause, Resolve, ContinueApproved, tables,
       history, SameRows
  <2>8. CASE Invalidate(p)
    <3>1. proc[p].pc = "invalidate" /\ Sid(p) \in Sessions /\ proc[p].todo \subseteq Steps
      BY <2>0, <2>8 DEF Invalidate, At, Sid, Locals, IInv, Shape, Based, Pcs
    <3>2. CASE UNCHANGED appr BY <2>8, <3>2 DEF Invalidate, history, SameRows
    <3>3. ASSUME NEW k \in proc[p].todo, SetApproval(Sid(p), k, "INVALIDATED")
          PROVE  Goal
      <4>1. Decides(Sid(p), k) BY <2>8, <3>3 DEF Invalidate, history, Decides
      <4> QED BY <3>1, <4>1
    <3> QED BY <2>8, <3>2, <3>3 DEF Invalidate
  <2>9. CASE ConsumeCheck(p) \/ ConsumeCommit(p)
    <3>1. Sid(p) \in Sessions /\ proc[p].step \in Steps
      BY <2>9 DEF ConsumeCheck, ConsumeCommit, At, Sid, IInv, Shape, Based, Pcs,
         InPlace, Handling
    <3>2. CASE UNCHANGED appr
      BY <2>9, <3>2 DEF ConsumeCheck, ConsumeCommit, history, SameRows
    <3>3. ASSUME NEW target \in {"EXPIRED", "INVALIDATED", "CONSUMED"},
                 SetApproval(Sid(p), proc[p].step, target)
          PROVE  Goal
      <4>1. Decides(Sid(p), proc[p].step)
        BY <2>9, <3>3 DEF ConsumeCheck, ConsumeCommit, history, Decides
      <4> QED BY <3>1, <4>1
    <3> QED BY <2>9, <3>2, <3>3 DEF ConsumeCheck, ConsumeCommit
  <2> QED
    BY <1>3, <2>1, <2>3, <2>4, <2>5, <2>6, <2>7, <2>8, <2>9
    DEF ProcStep, Continue, Engine, Resume, Failure
<1> QED BY <1>1, <1>2, <1>3 DEF Next, ProcStep

\* What stays as it is for a process that takes no step while it holds the lock.
Spared(q) ==
  /\ proc'[q] = proc[q]
  /\ proc[q].pc \in Held =>
       /\ \A s \in Sessions : \/ status'[s] = status[s]
                              \/ status[s] = "NEEDS_USER_DECISION"
       /\ \A s \in Sessions : SameBooks(s)
       /\ UNCHANGED executed

LEMMA Bystander ==
  ASSUME SInv, InPlace, [Next]_vars, NEW q \in Procs, ~ProcStep(q)
  PROVE  Spared(q)
<1> IInv BY DEF SInv
<1>1. CASE Answer \/ Environment \/ UNCHANGED vars
  <2>1. UNCHANGED <<status, proc, log, budget, executed>> \/ Answer
    BY <1>1 DEF Environment, SessionTimeout, EditFile, Expire, tables, history, vars
  <2>2. UNCHANGED <<status, proc, log, budget, executed>>
    BY <2>1 DEF Answer, Approve, Deny
  <2> QED BY <2>2 DEF Spared, SameBooks
<1>2. ASSUME NEW p \in Procs, ProcStep(p) PROVE Spared(q)
  <2>1. p # q /\ StatusEffect(p) /\ Others(p) BY <1>2, ProcStatus
  <2>2. ASSUME proc[q].pc \in Held PROVE lock = q /\ lock # p
    BY <2>1, <2>2 DEF IInv, Shape
  <2>3. ASSUME proc[q].pc \in Held, NEW r \in Procs, ProcStep(r)
        PROVE  proc[r].pc \notin InLoop
    BY <2>2, <2>3, InLoopFacts
  <2>4. ASSUME proc[q].pc \in Held, NEW s \in Sessions PROVE SameBooks(s)
    <3>1. ASSUME NEW r \in Procs, Inserts(r) \/ RecordStep(r)
          PROVE  proc[r].pc \in InLoop
      BY <3>1 DEF Inserts, RecordStep, At, InLoop
    <3> QED BY <2>3, <2>4, <3>1, BooksLemma
  <2>5. ASSUME proc[q].pc \in Held PROVE UNCHANGED executed
    <3>1. \A r \in Procs : Runs(r) => proc[r].pc \in InLoop BY DEF Runs, InLoop
    <3> QED BY <2>3, <2>5, <3>1, RowStep DEF SameRows, Inserts, Decides
  <2> QED BY <2>1, <2>2, <2>4, <2>5 DEF Spared, StatusEffect, Others
<1> QED BY <1>1, <1>2 DEF Next, ProcStep

-----------------------------------------------------------------------------
(* The rows that have been charged                                          *)

LEMMA BooksMove ==
  ASSUME IInv, [Next]_vars, NEW s \in Sessions, ~SameBooks(s)
  PROVE  \E p \in Procs : /\ ProcStep(p) /\ proc[p].sid = s
                          /\ Inserts(p) \/ RecordStep(p)
<1>1. PICK p \in Procs : ProcStep(p) /\ (Inserts(p) \/ RecordStep(p))
  BY BooksLemma
<1>2. Sid(p) = proc[p].sid BY DEF Sid
<1>3. proc[p].sid = s
  BY <1>1, <1>2 DEF SameBooks, Inserts, RecordStep, Save, IInv, TypeOK
<1> QED BY <1>1, <1>3

\* The counter of steps never goes down.
LEMMA StepsGrow ==
  ASSUME IInv, [Next]_vars, NEW s \in Sessions
  PROVE  /\ budget[s].steps \in Nat /\ budget'[s].steps \in Nat
         /\ budget[s].steps <= budget'[s].steps
         /\ \A p \in Procs : RecordStep(p) /\ proc[p].sid = s =>
              budget'[s].steps = budget[s].steps + 1
<1>1. budget[s] \in Budgets /\ budget[s].steps \in Nat BY DEF IInv, TypeOK, Budgets
<1>2. ASSUME NEW p \in Procs, RecordStep(p), proc[p].sid = s
      PROVE  budget'[s].steps = budget[s].steps + 1
  <2> DEFINE a == log[s][proc[p].step]
             t == budget[s]
  <2>1. proc[p].pc = "record" /\ proc[p].pc \in InLoop
    BY <1>2 DEF RecordStep, At, InLoop
  <2>2. a \in Actions /\ t \in Budgets /\ TypeOK BY <1>2, <2>1 DEF IInv, Shape, TypeOK
  <2>3. proc[p].trk = t /\ Sid(p) = s BY <1>2, <2>1, InLoopFacts
  <2>4. Save(p, RecordedStep(t, a)) BY <1>2, <2>3 DEF RecordStep
  <2>5. RecordedStep(t, a) \in Budgets BY <2>2, RecordedFacts
  <2> HIDE DEF a, t
  <2>6. RecordedStep(t, a).steps = t.steps + 1 BY <2>2 DEF RecordedStep, Budgets
  <2>7. budget'[s] = RecordedStep(t, a) BY <2>2, <2>3, <2>4, <2>5, SaveFacts
  <2> QED BY <2>6, <2>7 DEF t
<1>3. budget'[s].steps = budget[s].steps \/ budget'[s].steps = budget[s].steps + 1
  <2>1. CASE SameBooks(s) BY <2>1 DEF SameBooks
  <2>2. CASE ~SameBooks(s) BY <1>2, <2>2, BooksMove DEF Inserts
  <2> QED BY <2>1, <2>2
<1> QED BY <1>1, <1>2, <1>3

LEMMA LatestKnown ==
  ASSUME TypeOK, NEW s \in Sessions, LatestApproval(s) # 0
  PROVE  LatestApproval(s) \in Steps /\ appr[s][LatestApproval(s)] # "NONE"
<1> DEFINE K == {k \in Steps : appr[s][k] # "NONE"}
<1>1. K # {} BY DEF LatestApproval
<1>2. MaxSteps + 1 \in Nat BY BudgetAssumption
<1>3. K \subseteq 1..(MaxSteps + 1) BY DEF Steps
<1> HIDE DEF K
<1>4. \E k \in K : \A j \in K : j <= k BY <1>1, <1>2, <1>3, Greatest
<1>5. LatestApproval(s) \in K BY <1>1, <1>4 DEF LatestApproval, K
<1> QED BY <1>5 DEF K

\* A row without a successor that is not charged has been charged itself.
LEMMA ChargedRow ==
  ASSUME IInv, BInv, NEW s \in Sessions, Ahead(s) = NoAction, NEW k \in Steps,
         log[s][k] # NoAction
  PROVE  k <= budget[s].steps
<1> DEFINE n == budget[s].steps
           Rows == {j \in Steps : log[s][j] # NoAction}
<1>1. n \in Nat BY DEF IInv, TypeOK, Budgets
<1>2. Rows = 1..n \/ Rows = 1..(n + 1) BY DEF BInv, LogContiguous
<1>3. n + 1 \notin Rows BY DEF Ahead
<1>4. k \in Rows OBVIOUS
<1> HIDE DEF Rows, n
<1>5. Rows = 1..n BY <1>1, <1>2, <1>3
<1> QED BY <1>1, <1>4, <1>5 DEF n

LEMMA RequestedStep ==
  ASSUME IInv, EInv, [Next]_vars PROVE Requested'
<1> SUFFICES ASSUME NEW s \in Sessions, NEW k \in Steps, appr'[s][k] # "NONE"
             PROVE  log'[s][k] \in Gated
  BY DEF Requested
<1>0. TypeOK /\ Requested BY DEF IInv, EInv
<1>1. CASE SameRows \/ \E p \in Procs : Runs(p)
  BY <1>0, <1>1 DEF SameRows, Runs, Requested
<1>2. ASSUME NEW p \in Procs, Inserts(p) PROVE log'[s][k] \in Gated
  <2> DEFINE u == proc[p].sid
             j == budget[u].steps + 1
  <2>1. /\ j \in Steps /\ log[u][j] = NoAction
        /\ log' = [log EXCEPT ![u][j] = proc[p].act]
        /\ appr' = IF proc[p].act \in Gated THEN [appr EXCEPT ![u][j] = "PENDING"]
                   ELSE appr
    BY <1>2 DEF Inserts
  <2> HIDE DEF u, j
  <2>2. NoAction \notin Gated BY ActionsAssumption DEF Actions
  <2>3. CASE s = u /\ k = j
    BY <1>0, <2>1, <2>2, <2>3 DEF TypeOK, Requested
  <2>4. CASE ~(s = u /\ k = j)
    <3>1. log'[s][k] = log[s][k] /\ appr'[s][k] = appr[s][k]
      BY <1>0, <2>1, <2>4 DEF TypeOK
    <3> QED BY <1>0, <3>1 DEF Requested
  <2> QED BY <2>3, <2>4
<1>3. ASSUME NEW u \in Sessions, NEW j \in Steps, Decides(u, j)
      PROVE  log'[s][k] \in Gated
  <2>1. appr[s][k] # "NONE"
    <3>1. appr[u][j] # "NONE"
      BY <1>3 DEF Decides, SetApproval, ApprovalTransitions
    <3>2. (s = u /\ k = j) \/ appr'[s][k] = appr[s][k]
      BY <1>0, <1>3 DEF Decides, SetApproval, TypeOK
    <3> QED BY <3>1, <3>2
  <2> QED BY <1>0, <1>3, <2>1 DEF Requested, Decides
<1> QED BY <1>1, <1>2, <1>3, RowStep DEF EInv

\* A session comes to wait for an approval from "pause" only.
LEMMA ApprovalPause ==
  ASSUME TypeOK, [Next]_vars, NEW s \in Sessions,
         status'[s] = "PAUSED_APPROVAL", status[s] # "PAUSED_APPROVAL"
  PROVE  \E p \in Procs : /\ proc[p].pc = "pause" /\ proc[p].sid = s
                          /\ UNCHANGED <<log, budget>>
<1>1. status' # status OBVIOUS
<1>2. \A t : \A target : Set(t, target) => s = t /\ target = "PAUSED_APPROVAL"
  BY DEF Set, TypeOK
<1>3. ~(Answer \/ Environment \/ UNCHANGED vars)
  BY <1>1 DEF Answer, Approve, Deny, Environment, SessionTimeout, EditFile,
              Expire, tables, vars
<1>4. PICK p \in Procs : Start(p) \/ Continue(p) \/ Failure(p)
  BY <1>3 DEF Next
<1>5. ~(Start(p) \/ Failure(p) \/ Release(p))
  BY <1>1 DEF Start, StartRun, StartResume, StartKeep, StartRollback, Failure,
              LeakLock, Abort, Kill, Release, tables
<1>6. ~(Decide(p) \/ Resume(p))
  BY <1>1, <1>2 DEF Decide, Keep, RollbackFiles, RollbackStatus, Resume,
     Acquire, Recover, Invalidate, DriftPause, Resolve, ConsumeCheck,
     ConsumeCommit, ContinueApproved, Reopen, Pause, tables
<1>7. PauseForApproval(p)
  <2>1. ~(CreateSession(p) \/ EngineRun(p))
    BY <1>1, <1>2 DEF CreateSession, EngineRun
  <2>2. ~(LoopTop(p) \/ AskLlm(p) \/ Authorize(p))
    BY <1>1, <1>2 DEF LoopTop, AskLlm, Authorize, Pause
  <2>3. ~Conclude(p) BY <1>1, <1>2 DEF Conclude, Pause
  <2>4. ~Execute(p)
    <3>1. ~ToolFailed(p) BY <1>1, <1>2 DEF ToolFailed, Pause
    <3> QED BY <1>1, <3>1 DEF Execute
  <2>5. ~(RecordStep(p) \/ FinalValidation(p) \/ FastValidation(p))
    BY <1>1 DEF RecordStep, FinalValidation, FastValidation
  <2> QED BY <1>4, <1>5, <1>6, <2>1, <2>2, <2>3, <2>4, <2>5 DEF Continue, Engine
<1> QED
  BY <1>1, <1>2, <1>7 DEF PauseForApproval, Pause, At, Sid

LEMMA SettledStep ==
  ASSUME SInv, EInv, [Next]_vars PROVE Settled'
<1>0. IInv /\ TypeOK /\ BInv /\ Settled BY DEF SInv, IInv, EInv
<1>1. ASSUME NEW s \in Sessions, status'[s] = "PAUSED_APPROVAL"
      PROVE  Ahead(s)' = NoAction
  <2>1. CASE status[s] = "PAUSED_APPROVAL"
    <3>1. SameBooks(s)
      <4>1. ASSUME NEW p \in Procs, Inserts(p) \/ RecordStep(p)
            PROVE  status[proc[p].sid] = "RUNNING"
        BY <4>1 DEF Inserts, RecordStep, At, InLoop, SInv, Running
      <4> QED BY <1>0, <2>1, <4>1, BooksMove
    <3> QED BY <1>0, <2>1, <3>1 DEF Settled, Ahead, SameBooks
  <2>2. CASE status[s] # "PAUSED_APPROVAL"
    <3>1. PICK p \in Procs : /\ proc[p].pc = "pause" /\ proc[p].sid = s
                             /\ UNCHANGED <<log, budget>>
      BY <1>0, <1>1, <2>2, ApprovalPause
    <3> QED BY <1>0, <3>1 DEF Settled, Ahead
  <2> QED BY <2>1, <2>2
<1>2. ASSUME NEW q \in Procs, proc'[q].pc = "pause"
      PROVE  log'[proc'[q].sid][budget'[proc'[q].sid].steps + 1] = NoAction
  <2>1. CASE ~ProcStep(q)
    <3>1. Spared(q) BY <2>1, Bystander DEF EInv
    <3>2. proc[q].pc \in InLoop /\ proc[q].pc \in Held
      BY <1>2, <3>1 DEF Spared, Held, Pcs, InLoop
    <3>3. proc[q].sid \in Sessions BY <1>0, <3>2, InLoopFacts
    <3>4. SameBooks(proc[q].sid) BY <3>1, <3>2, <3>3 DEF Spared
    <3> QED BY <1>0, <1>2, <3>1, <3>4 DEF Settled, Ahead, Spared, SameBooks
  <2>2. CASE ProcStep(q)
    <3> DEFINE s == proc[q].sid
               n == budget[s].steps
               Rows == {k \in Steps : log[s][k] # NoAction}
    <3>1. Arrives(q) BY <1>0, <2>2, ArriveLemma
    <3>2. proc[q].pc = "record" /\ proc'[q].sid = s /\ RecordStep(q)
      BY <1>2, <3>1 DEF Arrives, Watched
    <3>3. s \in Sessions /\ proc[q].trk = budget[s]
      BY <1>0, <3>2, InLoopFacts DEF InLoop
    <3>4. n \in Nat /\ n < MaxSteps /\ proc[q].step = n + 1
      BY <1>0, <3>2, <3>3 DEF BInv, Room, Recording, IInv, TypeOK, Budgets
    <3>5. n + 1 \in Rows
      BY <1>0, <3>2, <3>4, ActionsAssumption DEF IInv, Shape
    <3>6. Rows = 1..n \/ Rows = 1..(n + 1) BY <1>0, <3>3 DEF BInv, LogContiguous
    <3>7. n + 2 \in Steps BY <3>4, BudgetAssumption DEF Steps
    <3>8. n + 2 \notin Rows BY <3>4, <3>5, <3>6
    <3>9. UNCHANGED log /\ budget'[s].steps = n + 1
      BY <1>0, <3>2, <3>3, StepsGrow DEF RecordStep
    <3>10. (n + 1) + 1 = n + 2 BY <3>4
    <3>11. log[s][n + 2] = NoAction BY <3>7, <3>8
    <3> HIDE DEF n
    <3> QED BY <3>2, <3>9, <3>10, <3>11
  <2> QED BY <2>1, <2>2
<1> QED BY <1>1, <1>2 DEF Settled, Ahead

LEMMA InPlaceStep ==
  ASSUME SInv, EInv, [Next]_vars PROVE InPlace'
<1>0. IInv /\ TypeOK /\ BInv /\ Settled /\ InPlace /\ Requested
  BY DEF SInv, IInv, EInv
<1> SUFFICES ASSUME NEW q \in Procs
             PROVE  /\ proc'[q].pc \in Waiting =>
                         status'[proc'[q].sid] = "PAUSED_APPROVAL"
                    /\ proc'[q].pc \in Handling =>
                         /\ proc'[q].step \in Steps
                         /\ proc'[q].step <= budget'[proc'[q].sid].steps
  BY DEF InPlace
<1>1. Waiting \subseteq Held /\ Handling \subseteq Held
      /\ Waiting \subseteq Based /\ Handling \subseteq Based
      /\ Waiting \subseteq Watched \ {"rollback"}
      /\ Handling \subseteq Watched \ {"rollback"}
  BY DEF Waiting, Handling, Held, Based, Pcs, Watched
<1>2. CASE ~ProcStep(q)
  <2>1. Spared(q) BY <1>0, <1>2, Bystander
  <2>2. SUFFICES ASSUME proc[q].pc \in Waiting \cup Handling
                 PROVE  /\ proc[q].pc \in Waiting =>
                             status'[proc[q].sid] = "PAUSED_APPROVAL"
                        /\ proc[q].pc \in Handling =>
                             /\ proc[q].step \in Steps
                             /\ proc[q].step <= budget'[proc[q].sid].steps
    BY <2>1 DEF Spared
  <2>3. proc[q].sid \in Sessions /\ proc[q].pc \in Held
    BY <1>0, <1>1, <2>2 DEF IInv, Shape
  <2>4. /\ status'[proc[q].sid] = status[proc[q].sid]
           \/ status[proc[q].sid] = "NEEDS_USER_DECISION"
        /\ budget'[proc[q].sid].steps = budget[proc[q].sid].steps
    BY <2>1, <2>3 DEF Spared, SameBooks
  <2> QED BY <1>0, <2>4 DEF InPlace
<1>3. CASE ProcStep(q)
  <2> DEFINE s == proc[q].sid
  <2>1. Arrives(q) BY <1>0, <1>3, ArriveLemma
  <2>2. ASSUME proc'[q].pc \in Waiting PROVE status'[proc'[q].sid] = "PAUSED_APPROVAL"
    <3>1. proc'[q].sid = s /\ UNCHANGED status
          /\ (status[s] = "PAUSED_APPROVAL" \/ proc[q].pc \in Waiting)
      BY <1>1, <2>1, <2>2 DEF Arrives, Waiting
    <3> QED BY <1>0, <3>1 DEF InPlace
  <2>3. ASSUME proc'[q].pc \in Handling
        PROVE  /\ proc'[q].step \in Steps
               /\ proc'[q].step <= budget'[proc'[q].sid].steps
    <3>1. proc'[q].sid = s BY <1>1, <2>1, <2>3 DEF Arrives
    <3>2. s \in Sessions
      <4>1. proc[q].pc \in Based
        BY <2>1, <2>3 DEF Arrives, Handling, Based, Pcs
      <4> QED BY <1>0, <4>1 DEF IInv, Shape
    <3>3. /\ budget[s].steps \in Nat /\ budget'[s].steps \in Nat
          /\ budget[s].steps <= budget'[s].steps
      BY <1>0, <3>2, StepsGrow
    <3>4. CASE proc'[q].pc = "consume"
      <4>1. /\ proc[q].pc = "resolve" /\ proc'[q].step = LatestApproval(s)
            /\ LatestApproval(s) # 0
        BY <2>1, <3>4 DEF Arrives
      <4>2. Ahead(s) = NoAction
        BY <1>0, <3>2, <4>1 DEF InPlace, Waiting, Settled
      <4>3. LatestApproval(s) \in Steps /\ appr[s][LatestApproval(s)] # "NONE"
        BY <1>0, <3>2, <4>1, LatestKnown
      <4>4. log[s][LatestApproval(s)] # NoAction
        BY <1>0, <3>2, <4>3, ActionsAssumption DEF Requested, Actions
      <4>5. LatestApproval(s) <= budget[s].steps
        BY <1>0, <3>2, <4>2, <4>3, <4>4, ChargedRow
      <4>6. LatestApproval(s) \in Nat BY <4>3, BudgetAssumption DEF Steps
      <4> QED BY <3>1, <3>3, <4>1, <4>3, <4>5, <4>6
    <3>5. CASE \/ proc'[q].pc \in {"commit", "granted"}
               \/ proc'[q].pc = "execute" /\ proc[q].pc = "granted"
      <4>1. proc'[q].step = proc[q].step /\ proc[q].pc \in Handling
        BY <2>1, <3>5 DEF Arrives, Handling
      <4>2. proc[q].step \in Steps /\ proc[q].step <= budget[s].steps
        BY <1>0, <4>1 DEF InPlace
      <4>3. proc[q].step \in Nat BY <4>2, BudgetAssumption DEF Steps
      <4> QED BY <3>1, <3>3, <4>1, <4>2, <4>3
    <3>6. CASE proc'[q].pc = "execute" /\ proc[q].pc = "record"
      <4>1. RecordStep(q) /\ proc'[q].step = proc[q].step
        BY <2>1, <3>6 DEF Arrives
      <4>2. proc[q].trk = budget[s] BY <1>0, <3>6, InLoopFacts DEF InLoop
      <4>3. proc[q].step \in Steps /\ proc[q].step = budget[s].steps + 1
        BY <1>0, <3>6, <4>2 DEF IInv, Shape, BInv, Recording
      <4>4. budget'[s].steps = budget[s].steps + 1
        BY <1>0, <3>2, <4>1, StepsGrow
      <4> QED BY <3>1, <3>3, <4>1, <4>3, <4>4
    <3> QED BY <2>1, <2>3, <3>4, <3>5, <3>6 DEF Handling, Arrives
  <2> QED BY <2>2, <2>3
<1> QED BY <1>2, <1>3

\* What a step may have started.
LEMMA StartedStep ==
  ASSUME SInv, EInv, [Next]_vars, NEW s \in Sessions, NEW k \in Steps,
         executed'[s][k] # executed[s][k]
  PROVE  \E p \in Procs : Runs(p) /\ proc[p].sid = s /\ proc[p].step = k
<1>0. IInv /\ TypeOK /\ InPlace BY DEF SInv, IInv, EInv
<1>1. PICK p \in Procs : Runs(p) BY <1>0, RowStep DEF SameRows, Inserts, Decides
<1>2. proc[p].sid = s /\ proc[p].step = k BY <1>0, <1>1 DEF Runs, TypeOK
<1> QED BY <1>1, <1>2

LEMMA BehindStep ==
  ASSUME SInv, EInv, [Next]_vars PROVE Behind'
<1>0. IInv /\ TypeOK /\ InPlace /\ Behind BY DEF SInv, IInv, EInv
<1> SUFFICES ASSUME NEW s \in Sessions, NEW k \in Steps, executed'[s][k] > 0
             PROVE  k <= budget'[s].steps
  BY DEF Behind, Started
<1>1. k <= budget[s].steps
  <2>1. CASE executed'[s][k] = executed[s][k]
    BY <1>0, <2>1 DEF Behind, Started
  <2>2. CASE executed'[s][k] # executed[s][k]
    <3>1. PICK p \in Procs : Runs(p) /\ proc[p].sid = s /\ proc[p].step = k
      BY <2>2, StartedStep
    <3> QED BY <1>0, <3>1 DEF InPlace, Runs, Handling
  <2> QED BY <2>1, <2>2
<1>2. k \in Nat BY BudgetAssumption DEF Steps
<1> QED BY <1>0, <1>1, <1>2, StepsGrow

LEMMA NextEInv == ASSUME SInv, EInv, [Next]_vars PROVE EInv'
BY NextBInv, RequestedStep, SettledStep, InPlaceStep, BehindStep DEF EInv, SInv

LEMMA InitEInv == Init => EInv
<1> SUFFICES ASSUME Init PROVE EInv OBVIOUS
<1>1. \A p \in Procs : proc[p].pc = "idle" BY IdleType DEF Init
<1>2. Requested /\ Behind
  BY DEF Init, Requested, Behind, Started
<1>3. Settled /\ InPlace
  BY <1>1 DEF Init, Settled, InPlace, Waiting, Handling
<1> QED BY <1>2, <1>3, InitBInv DEF EInv

LEMMA ChargedLemma ==
  ASSUME IInv, EInv PROVE EffectsCharged
<1>1. Behind /\ Counted BY DEF EInv, BInv
<1> SUFFICES ASSUME NEW s \in Sessions, NEW a \in Actions
             PROVE  Cardinality({k \in Started(s) : log[s][k] = a}) <= budget[s].fps[a]
  BY <1>1 DEF EffectsCharged, Behind, Counted
<1> DEFINE n == budget[s].steps
           S == {k \in 1..n : log[s][k] = a}
           T == {k \in Started(s) : log[s][k] = a}
<1>2. n \in Nat BY DEF IInv, TypeOK, Budgets
<1>3. IsFiniteSet(S)
  <2>1. IsFiniteSet(1..n) BY <1>2, FS_Interval
  <2>2. S \in SUBSET (1..n) OBVIOUS
  <2> HIDE DEF n, S
  <2> QED BY <2>1, <2>2, FS_Subset
<1>4. T \in SUBSET S
  <2>1. \A k \in Started(s) : k \in 1..n
    BY <1>1, <1>2, BudgetAssumption DEF Behind, Started, Steps
  <2> QED BY <2>1
<1>5. Cardinality(S) = budget[s].fps[a] BY <1>1 DEF Counted
<1> HIDE DEF S, T
<1>6. Cardinality(T) <= Cardinality(S) BY <1>3, <1>4, FS_Subset
<1> QED BY <1>5, <1>6 DEF T

\* Whatever is interrupted and resumed, every tool that was started has been
\* charged to the persisted counters, and those stay within their limits.
THEOREM StartedToolsAreCharged == Spec => []EffectsCharged
<1>1. SInv /\ EInv => EffectsCharged BY ChargedLemma DEF SInv
<1> QED BY <1>1, InitSInv, NextSInv, InitEInv, NextEInv, PTL DEF Spec

-----------------------------------------------------------------------------
(* The action in hand, and Governance                                       *)

\* What a step leaves alone of a row that exists.
LEMMA KeptRow ==
  ASSUME TypeOK, [Next]_vars, NEW s \in Sessions, NEW k \in Steps,
         log[s][k] # NoAction
  PROVE  /\ log'[s][k] = log[s][k]
         /\ Dispatchable(s, k) => Dispatchable(s, k)'
<1>1. LawfulAt(s, k) BY NextLawful DEF Lawful
<1> QED
  BY <1>1 DEF LawfulAt, Dispatchable, ConsumedApproval, ApprovalTransitions

LEMMA UnstartedStep ==
  ASSUME SInv, AInv, GInv, [Next]_vars PROVE Unstarted'
<1>0. IInv /\ TypeOK /\ BInv /\ EInv /\ InPlace /\ Requested /\ Behind
      /\ EffectsGoverned
  BY DEF SInv, IInv, GInv, EInv, AInv
<1> SUFFICES ASSUME NEW q \in Procs, proc'[q].pc \in {"granted", "execute"},
                    NEW s, s = proc'[q].sid, NEW k, k = proc'[q].step
             PROVE  /\ executed'[s][k] = 0 /\ Dispatchable(s, k)'
                    /\ proc'[q].pc = "granted" => log'[s][k] \in Gated
  BY DEF Unstarted, Dispatchable, ConsumedApproval
<1>a. NoAction \notin Gated \cup Allowed BY ActionsAssumption DEF Actions
<1>b. ASSUME Dispatchable(s, k) PROVE log[s][k] # NoAction
  BY <1>a, <1>b DEF Dispatchable, ConsumedApproval
<1>1. CASE ~ProcStep(q)
  <2>1. Spared(q) BY <1>0, <1>1, Bystander
  <2>2. /\ proc'[q] = proc[q] /\ proc[q].pc \in {"granted", "execute"}
        /\ s = proc[q].sid /\ k = proc[q].step
    BY <2>1 DEF Spared
  <2>3. proc[q].pc \in Held /\ s \in Sessions /\ k \in Steps
    BY <1>0, <2>2 DEF Held, Pcs, IInv, Shape, Based, InPlace, Handling
  <2>4. executed[s][k] = 0 /\ Dispatchable(s, k)
        /\ (proc[q].pc = "granted" => log[s][k] \in Gated)
    BY <2>2 DEF GInv, Unstarted
  <2>5. log'[s][k] = log[s][k] /\ Dispatchable(s, k)'
    BY <1>0, <1>b, <2>3, <2>4, KeptRow
  <2>6. UNCHANGED executed BY <2>1, <2>2, <2>3 DEF Spared
  <2> QED BY <2>2, <2>4, <2>5, <2>6
<1>2. CASE ProcStep(q)
  <2>1. Arrives(q) BY <1>0, <1>2, ArriveLemma
  <2>2. s = proc[q].sid /\ k = proc[q].step
    BY <2>1 DEF Arrives, Watched, Waiting
  <2>3. CASE proc'[q].pc = "granted"
    <3>1. /\ proc[q].pc = "commit" /\ UNCHANGED <<log, executed>>
          /\ SetApproval(s, k, "CONSUMED")
      BY <2>1, <2>2, <2>3 DEF Arrives
    <3>2. s \in Sessions /\ k \in Steps
      BY <1>0, <2>2, <3>1 DEF IInv, Shape, Based, Pcs, InPlace, Handling
    <3>3. appr[s][k] = "APPROVED" /\ appr'[s][k] = "CONSUMED"
      BY <1>0, <3>1, <3>2 DEF SetApproval, ApprovalTransitions, TypeOK
    <3>4. log[s][k] \in Gated /\ log[s][k] \notin Allowed
      BY <1>0, <3>2, <3>3, ActionsAssumption DEF Requested
    <3>5. k \notin Started(s) BY <1>0, <3>2, <3>3, <3>4 DEF EffectsGoverned
    <3>6. executed[s][k] \in Nat BY <1>0, <3>2 DEF TypeOK
    <3>7. executed[s][k] = 0 BY <3>2, <3>5, <3>6 DEF Started
    <3> QED BY <2>2, <3>1, <3>3, <3>4, <3>7 DEF Dispatchable, ConsumedApproval
  <2>4. CASE proc'[q].pc = "execute" /\ proc[q].pc = "granted"
    <3>1. UNCHANGED <<executed, log, appr>>
      BY <2>1, <2>4 DEF Arrives
    <3>2. executed[s][k] = 0 /\ Dispatchable(s, k)
      BY <2>2, <2>4 DEF GInv, Unstarted
    <3> QED BY <2>2, <2>4, <3>1, <3>2 DEF Dispatchable, ConsumedApproval
  <2>5. CASE proc'[q].pc = "execute" /\ proc[q].pc = "record"
    <3>1. RecordStep(q) /\ log[s][k] \in Allowed BY <2>1, <2>2, <2>5 DEF Arrives
    <3>2. UNCHANGED <<log, executed>> BY <3>1 DEF RecordStep, history
    <3>3. s \in Sessions /\ proc[q].trk = budget[s]
      BY <1>0, <2>2, <2>5, InLoopFacts DEF InLoop
    <3>4. k \in Steps /\ k = budget[s].steps + 1 /\ budget[s].steps \in Nat
      BY <1>0, <2>2, <2>5, <3>3 DEF IInv, Shape, BInv, Recording, TypeOK, Budgets
    <3>5. k \notin Started(s) BY <1>0, <3>3, <3>4 DEF Behind
    <3>6. executed[s][k] \in Nat BY <1>0, <3>3, <3>4 DEF TypeOK
    <3>7. executed[s][k] = 0 BY <3>4, <3>5, <3>6 DEF Started
    <3> QED BY <2>2, <2>5, <3>1, <3>2, <3>7 DEF Dispatchable, ConsumedApproval
  <2> QED BY <2>1, <2>3, <2>4, <2>5 DEF Arrives
<1> QED BY <1>1, <1>2

LEMMA OnceStep ==
  ASSUME SInv, GInv, [Next]_vars PROVE Once'
<1> SUFFICES ASSUME NEW s \in Sessions, NEW k \in Steps
             PROVE  executed'[s][k] \in {0, 1}
  BY DEF Once
<1>1. CASE executed'[s][k] = executed[s][k] BY <1>1 DEF GInv, Once
<1>2. CASE executed'[s][k] # executed[s][k]
  <2>1. PICK p \in Procs : Runs(p) /\ proc[p].sid = s /\ proc[p].step = k
    BY <1>2, StartedStep DEF GInv
  <2>2. executed[s][k] = 0 BY <2>1 DEF GInv, Unstarted, Runs
  <2> QED BY <2>1, <2>2 DEF Runs, SInv, IInv, TypeOK
<1> QED BY <1>1, <1>2

LEMMA NextGInv == ASSUME SInv, AInv, GInv, [Next]_vars PROVE GInv'
BY NextEInv, UnstartedStep, OnceStep DEF GInv

LEMMA InitGInv == Init => GInv
<1> SUFFICES ASSUME Init PROVE GInv OBVIOUS
<1>1. \A p \in Procs : proc[p].pc = "idle" BY IdleType DEF Init
<1>2. Once BY DEF Init, Once
<1> QED BY <1>1, <1>2, InitEInv DEF GInv, Unstarted

LEMMA InitAInv == Init => AInv
<1>1. Init => TypeOK BY InitIInv DEF IInv
<1> QED BY <1>1 DEF Init, AInv, EffectsGoverned, Started, Consent

LEMMA NextAInv == ASSUME SInv, AInv, [Next]_vars PROVE AInv'
<1>1. TypeOK' BY NextIInv DEF SInv, IInv
<1> QED BY <1>1, NextLawful, LawfulLemma DEF AInv

\* The permit of a row, from what the row holds.
PermitOf(e, a, v) ==
  CASE e > 1 -> "started again"
    [] e = 1 -> "started"
    [] e = 0 /\ a = NoAction -> "none"
    [] e = 0 /\ a \in Denied -> "refused"
    [] e = 0 /\ a \in Allowed \cup Finishing -> "allowed"
    [] e = 0 /\ a \in Gated ->
         CASE v = "PENDING" -> "waiting"
           [] v = "APPROVED" -> "approved"
           [] v = "CONSUMED" -> "granted"
           [] OTHER -> "refused"

LEMMA PermitValues ==
  /\ \A a, v : PermitOf(1, a, v) = "started"
  /\ \A v : PermitOf(0, NoAction, v) = "none"
  /\ \A a \in Denied : \A v : PermitOf(0, a, v) = "refused"
  /\ \A a \in Allowed \cup Finishing : \A v : PermitOf(0, a, v) = "allowed"
  /\ \A a \in Gated :
       /\ PermitOf(0, a, "PENDING") = "waiting"
       /\ PermitOf(0, a, "APPROVED") = "approved"
       /\ PermitOf(0, a, "CONSUMED") = "granted"
       /\ \A v : v \notin {"PENDING", "APPROVED", "CONSUMED"} =>
            PermitOf(0, a, v) = "refused"
<1>1. NoAction \notin Denied \cup Allowed \cup Finishing \cup Gated
  BY ActionsAssumption DEF Actions
<1>2. \A a, v : PermitOf(1, a, v) = "started" BY DEF PermitOf
<1>3. \A v : PermitOf(0, NoAction, v) = "none" BY <1>1 DEF PermitOf
<1>4. \A a \in Denied : \A v : PermitOf(0, a, v) = "refused"
  BY <1>1, ActionsAssumption DEF PermitOf
<1>5. \A a \in Allowed \cup Finishing : \A v : PermitOf(0, a, v) = "allowed"
  BY <1>1, ActionsAssumption DEF PermitOf
<1>6. ASSUME NEW a \in Gated, NEW v
      PROVE  PermitOf(0, a, v) = CASE v = "PENDING" -> "waiting"
                                   [] v = "APPROVED" -> "approved"
                                   [] v = "CONSUMED" -> "granted"
                                   [] OTHER -> "refused"
  <2>1. a # NoAction /\ a \notin Denied \cup Allowed \cup Finishing
    BY <1>1, ActionsAssumption
  <2> QED BY <2>1 DEF PermitOf
<1> QED BY <1>2, <1>3, <1>4, <1>5, <1>6

LEMMA PermitIs ==
  ASSUME NEW s \in Sessions, NEW k \in Steps
  PROVE  /\ Permit(<<s, k>>) = PermitOf(executed[s][k], log[s][k], appr[s][k])
         /\ Permit(<<s, k>>)' = PermitOf(executed'[s][k], log'[s][k], appr'[s][k])
BY DEF Permit, PermitOf

\* A row whose entries stay keeps its permit.
LEMMA SamePermit ==
  ASSUME NEW s \in Sessions, NEW k \in Steps, log'[s][k] = log[s][k],
         appr'[s][k] = appr[s][k], executed'[s][k] = executed[s][k]
  PROVE  Permit(<<s, k>>)' = Permit(<<s, k>>)
BY PermitIs

\* A step that changes the permit of one row.
LEMMA OneRowMoves ==
  ASSUME NEW s \in Sessions, NEW k \in Steps, NEW from, NEW to,
         Permit(<<s, k>>) \in from, Permit(<<s, k>>)' = to,
         \A u \in Sessions, j \in Steps :
           ~(u = s /\ j = k) => Permit(<<u, j>>)' = Permit(<<u, j>>)
  PROVE  Gov!Move(<<s, k>>, from, to)
<1> DEFINE P == [r \in Sessions \X Steps |-> Permit(r)]
           Q == [r \in Sessions \X Steps |-> Permit(r)']
<1>1. P[<<s, k>>] \in from BY DEF P
<1>2. Q = [P EXCEPT ![<<s, k>>] = to]
  <2>1. ASSUME NEW r \in Sessions \X Steps
        PROVE  Q[r] = [P EXCEPT ![<<s, k>>] = to][r]
    <3>1. PICK u \in Sessions, j \in Steps : r = <<u, j>> OBVIOUS
    <3>2. CASE u = s /\ j = k BY <3>1, <3>2
    <3>3. CASE ~(u = s /\ j = k)
      <4>1. r # <<s, k>> BY <3>1, <3>3
      <4>2. Permit(r)' = Permit(r) BY <3>1, <3>3
      <4> QED BY <4>1, <4>2
    <3> QED BY <3>2, <3>3
  <2> HIDE DEF P
  <2> QED BY <2>1 DEF P
<1> QED BY <1>1, <1>2 DEF Gov!Move

\* The row inserted gets what the policy decided.
LEMMA InsertIsProposal ==
  ASSUME SInv, GInv, NEW p \in Procs, Inserts(p), NEW s, s = proc[p].sid,
         NEW k, k = budget[s].steps + 1, NEW a, a = proc[p].act
  PROVE  s \in Sessions /\ k \in Steps /\ Gov!Propose(<<s, k>>)
<1>0. IInv /\ TypeOK /\ Behind BY DEF SInv, IInv, GInv, EInv
<1>1. s \in Sessions /\ budget[s].steps \in Nat
  BY <1>0, InLoopFacts DEF Inserts, InLoop, TypeOK, Budgets
<1>2. /\ k \in Steps /\ log[s][k] = NoAction /\ a \in Actions
      /\ log' = [log EXCEPT ![s][k] = a] /\ UNCHANGED executed
      /\ appr' = IF a \in Gated THEN [appr EXCEPT ![s][k] = "PENDING"] ELSE appr
  BY DEF Inserts
<1>3. executed[s][k] = 0
  <2>1. k \notin Started(s) BY <1>0, <1>1 DEF Behind
  <2>2. executed[s][k] \in Nat BY <1>0, <1>1, <1>2 DEF TypeOK
  <2> QED BY <1>2, <2>1, <2>2 DEF Started
<1>4. Permit(<<s, k>>) = "none" BY <1>1, <1>2, <1>3, PermitIs, PermitValues
<1>5. log'[s][k] = a /\ executed'[s][k] = 0
      /\ (a \in Gated => appr'[s][k] = "PENDING")
  BY <1>0, <1>1, <1>2, <1>3 DEF TypeOK
<1>6. Permit(<<s, k>>)' \in {"allowed", "waiting", "refused"}
  <2>1. Permit(<<s, k>>)' = PermitOf(0, a, appr'[s][k])
    BY <1>1, <1>2, <1>5, PermitIs
  <2>2. a \in Gated => PermitOf(0, a, appr'[s][k]) = "waiting"
    BY <1>5, PermitValues
  <2>3. a \in Denied => PermitOf(0, a, appr'[s][k]) = "refused"
    BY PermitValues
  <2>4. a \in Allowed \cup Finishing => PermitOf(0, a, appr'[s][k]) = "allowed"
    BY PermitValues
  <2> QED BY <1>2, <2>1, <2>2, <2>3, <2>4 DEF Actions
<1>7. ASSUME NEW u \in Sessions, NEW j \in Steps, ~(u = s /\ j = k)
      PROVE  Permit(<<u, j>>)' = Permit(<<u, j>>)
  BY <1>0, <1>1, <1>2, <1>7, SamePermit DEF TypeOK
<1>8. PICK to \in {"allowed", "waiting", "refused"} : Permit(<<s, k>>)' = to
  BY <1>6
<1>9. Gov!Move(<<s, k>>, {"none"}, to)
  BY <1>1, <1>2, <1>4, <1>7, <1>8, OneRowMoves
<1> QED BY <1>1, <1>2, <1>9 DEF Gov!Propose

\* A decision over an approval moves the permit of a tool that has not started.
LEMMA DecisionIsPermitted ==
  ASSUME SInv, AInv, GInv, NEW s \in Sessions, NEW k \in Steps, Decides(s, k)
  PROVE  Gov!Consent(<<s, k>>) \/ Gov!Withdraw(<<s, k>>) \/ Gov!Grant(<<s, k>>)
<1>0. TypeOK /\ Requested /\ EffectsGoverned
  BY DEF SInv, IInv, GInv, EInv, AInv
<1>1. PICK target \in {"APPROVED", "DENIED", "EXPIRED", "INVALIDATED", "CONSUMED"} :
        /\ <<appr[s][k], target>> \in ApprovalTransitions
        /\ appr' = [appr EXCEPT ![s][k] = target]
  BY DEF Decides, SetApproval
<1>2. UNCHANGED <<log, executed>> BY DEF Decides
<1>3. /\ appr[s][k] \in {"PENDING", "APPROVED"}
      /\ appr[s][k] = "PENDING" => target # "CONSUMED"
      /\ appr[s][k] = "APPROVED" => target # "APPROVED" /\ target # "DENIED"
  BY <1>1 DEF ApprovalTransitions
<1>4. log[s][k] \in Gated /\ log[s][k] # NoAction
      /\ log[s][k] \notin Denied \cup Allowed \cup Finishing
  BY <1>0, <1>3, ActionsAssumption DEF Requested, Actions
<1>5. executed[s][k] = 0
  <2>1. k \notin Started(s) BY <1>0, <1>3, <1>4 DEF EffectsGoverned
  <2>2. executed[s][k] \in Nat BY <1>0 DEF TypeOK
  <2> QED BY <2>1, <2>2 DEF Started
<1>6. Permit(<<s, k>>) = IF appr[s][k] = "PENDING" THEN "waiting" ELSE "approved"
  BY <1>3, <1>4, <1>5, PermitIs, PermitValues
<1>7. appr'[s][k] = target BY <1>0, <1>1 DEF TypeOK
<1>8. /\ target = "APPROVED" => Permit(<<s, k>>)' = "approved"
      /\ target = "CONSUMED" => Permit(<<s, k>>)' = "granted"
      /\ target \notin {"APPROVED", "CONSUMED"} => Permit(<<s, k>>)' = "refused"
  <2>1. Permit(<<s, k>>)' = PermitOf(0, log[s][k], target)
    BY <1>2, <1>5, <1>7, PermitIs
  <2>2. target # "PENDING" OBVIOUS
  <2> QED BY <1>4, <2>1, <2>2, PermitValues
<1>9. ASSUME NEW u \in Sessions, NEW j \in Steps, ~(u = s /\ j = k)
      PROVE  Permit(<<u, j>>)' = Permit(<<u, j>>)
  BY <1>0, <1>1, <1>2, <1>9, SamePermit DEF TypeOK
<1>10. CASE target = "APPROVED"
  BY <1>3, <1>6, <1>8, <1>9, <1>10, OneRowMoves DEF Gov!Consent
<1>11. CASE target = "CONSUMED"
  BY <1>3, <1>6, <1>8, <1>9, <1>11, OneRowMoves DEF Gov!Grant
<1>12. CASE target \notin {"APPROVED", "CONSUMED"}
  BY <1>3, <1>6, <1>8, <1>9, <1>12, OneRowMoves DEF Gov!Withdraw
<1> QED BY <1>10, <1>11, <1>12

\* A tool starts on a permit for it, for the first time.
LEMMA RunIsPermitted ==
  ASSUME SInv, GInv, NEW p \in Procs, Runs(p), NEW s, s = proc[p].sid,
         NEW k, k = proc[p].step
  PROVE  s \in Sessions /\ k \in Steps /\ Gov!StartTool(<<s, k>>)
<1>0. TypeOK /\ IInv /\ InPlace BY DEF SInv, IInv, GInv, EInv
<1>1. /\ proc[p].pc = "execute" /\ Dispatchable(s, k)
      /\ executed' = [executed EXCEPT ![s][k] = @ + 1]
      /\ UNCHANGED <<log, appr>>
  BY DEF Runs
<1>2. s \in Sessions /\ k \in Steps /\ executed[s][k] = 0
  BY <1>0, <1>1 DEF IInv, Shape, Based, Pcs, InPlace, Handling, GInv, Unstarted
<1>3. executed'[s][k] = 1 BY <1>0, <1>1, <1>2 DEF TypeOK
<1>4. Permit(<<s, k>>) \in {"allowed", "granted"}
  BY <1>1, <1>2, PermitIs, PermitValues DEF Dispatchable, ConsumedApproval
<1>5. Permit(<<s, k>>)' = "started" BY <1>2, <1>3, PermitIs, PermitValues
<1>6. ASSUME NEW u \in Sessions, NEW j \in Steps, ~(u = s /\ j = k)
      PROVE  Permit(<<u, j>>)' = Permit(<<u, j>>)
  BY <1>0, <1>1, <1>2, <1>6, SamePermit DEF TypeOK
<1>7. Gov!StartTool(<<s, k>>)
  BY <1>2, <1>4, <1>5, <1>6, OneRowMoves DEF Gov!StartTool
<1> QED BY <1>2, <1>7

LEMMA StepIsGoverned ==
  ASSUME SInv, AInv, GInv, [Next]_vars
  PROVE  [Gov!Next]_([r \in Sessions \X Steps |-> Permit(r)])
<1>1. CASE SameRows
  <2>1. ASSUME NEW r \in Sessions \X Steps PROVE Permit(r)' = Permit(r)
    <3>1. PICK s \in Sessions, k \in Steps : r = <<s, k>> OBVIOUS
    <3> QED BY <1>1, <3>1, SamePermit DEF SameRows
  <2> QED BY <2>1
<1>2. ASSUME NEW p \in Procs, Inserts(p) PROVE Gov!Next
  <2>1. PICK s, k : /\ s \in Sessions /\ k \in Steps /\ Gov!Propose(<<s, k>>)
    BY <1>2, InsertIsProposal
  <2>2. <<s, k>> \in Sessions \X Steps BY <2>1
  <2> QED BY <2>1, <2>2 DEF Gov!Next
<1>3. ASSUME NEW p \in Procs, Runs(p) PROVE Gov!Next
  <2>1. PICK s, k : /\ s \in Sessions /\ k \in Steps /\ Gov!StartTool(<<s, k>>)
    BY <1>3, RunIsPermitted
  <2>2. <<s, k>> \in Sessions \X Steps BY <2>1
  <2> QED BY <2>1, <2>2 DEF Gov!Next
<1>4. ASSUME NEW s \in Sessions, NEW k \in Steps, Decides(s, k) PROVE Gov!Next
  <2>1. <<s, k>> \in Sessions \X Steps OBVIOUS
  <2> QED BY <1>4, <2>1, DecisionIsPermitted DEF Gov!Next
<1>5. IInv /\ InPlace BY DEF SInv, GInv, EInv
<1> QED BY <1>1, <1>2, <1>3, <1>4, <1>5, RowStep

LEMMA InitGoverned == Init => Gov!Init
<1> SUFFICES ASSUME Init, NEW r \in Sessions \X Steps PROVE Permit(r) = "none"
  BY DEF Gov!Init
<1>1. PICK s \in Sessions, k \in Steps : r = <<s, k>> OBVIOUS
<1>2. executed[s][k] = 0 /\ log[s][k] = NoAction BY DEF Init
<1> QED BY <1>1, <1>2, PermitIs, PermitValues

\* The harness implements Governance, whatever commands interleave and whatever
\* fails: the policy decides over every action once, a waiting action moves on
\* by the user's consent and a grant that uses it up, and no tool starts twice.
THEOREM HarnessIsGoverned == Spec => Governed
<1>1. SInv /\ AInv /\ GInv /\ [Next]_vars => SInv' /\ AInv' /\ GInv'
  BY NextSInv, NextAInv, NextGInv
<1> QED
  BY <1>1, InitSInv, InitAInv, InitGInv, InitGoverned, StepIsGoverned, PTL
  DEF Spec, Governed, Gov!Spec

-----------------------------------------------------------------------------
(* What was approved is done                                                *)

LEMMA FaultsGrow ==
  ASSUME [Next]_vars PROVE faults' = faults \/ faults' = faults + 1
<1>1. CASE Answer \/ Environment \/ UNCHANGED vars
  BY <1>1 DEF Answer, Approve, Deny, Environment, SessionTimeout, EditFile,
     Expire, Env, bounds, vars
<1>2. ASSUME NEW p \in Procs, ProcStep(p) PROVE faults' = faults \/ faults' = faults + 1
  <2>1. CASE Start(p) \/ Release(p) \/ Decide(p) \/ Failure(p)
    BY <2>1 DEF Start, StartRun, StartResume, StartKeep, StartRollback, Release,
       Decide, Keep, RollbackFiles, RollbackStatus, Failure, LeakLock, Abort, Kill,
       Fault, bounds
  <2>2. CASE Engine(p)
    BY <2>2 DEF Engine, CreateSession, EngineRun, LoopTop, AskLlm, Authorize,
       RecordStep, PauseForApproval, FinalValidation, Conclude, Execute,
       FastValidation, Fault, bounds
  <2>3. CASE Resume(p)
    BY <2>3 DEF Resume, Acquire, Recover, Invalidate, DriftPause, Resolve,
       ConsumeCheck, ConsumeCommit, ContinueApproved, Fault, bounds
  <2> QED BY <1>2, <2>1, <2>2, <2>3 DEF ProcStep, Continue
<1> QED BY <1>1, <1>2 DEF Next, ProcStep

\* Only the transaction of consume makes an approval CONSUMED.
LEMMA ConsumedStep ==
  ASSUME TypeOK, [Next]_vars, NEW s \in Sessions, NEW k \in Steps,
         appr'[s][k] = "CONSUMED", appr[s][k] # "CONSUMED"
  PROVE  \E p \in Procs : /\ ConsumeCommit(p) /\ proc[p].sid = s /\ proc[p].step = k
<1>1. appr' # appr OBVIOUS
<1>2. ASSUME NEW u, NEW j, NEW target, appr' = [appr EXCEPT ![u][j] = target]
      PROVE  u = s /\ j = k /\ target = "CONSUMED"
  BY <1>2 DEF TypeOK
<1>3. \A u, j, target : SetApproval(u, j, target) =>
                          u = s /\ j = k /\ target = "CONSUMED"
  BY <1>2 DEF SetApproval
<1>4. ~(Answer \/ Environment \/ UNCHANGED vars)
  BY <1>1, <1>3 DEF Answer, Approve, Deny, Environment, SessionTimeout, EditFile,
     Expire, tables, vars
<1>5. PICK p \in Procs : ProcStep(p) BY <1>4 DEF Next, ProcStep
<1>6. ~(Start(p) \/ Release(p) \/ Decide(p) \/ Failure(p))
  BY <1>1 DEF Start, StartRun, StartResume, StartKeep, StartRollback, Release,
     Decide, Keep, RollbackFiles, RollbackStatus, Failure, LeakLock, Abort, Kill,
     tables
<1>7. ~Engine(p)
  <2>1. ~Authorize(p)
    <3> SUFFICES ASSUME Authorize(p) PROVE FALSE OBVIOUS
    <3>1. UNCHANGED appr \/ RequestApproval(Sid(p), proc[p].trk.steps + 1)
      BY DEF Authorize
    <3> QED BY <1>1, <1>2, <3>1 DEF RequestApproval
  <2> QED
    BY <1>1, <2>1 DEF Engine, CreateSession, EngineRun, LoopTop, AskLlm,
       RecordStep, PauseForApproval, FinalValidation, Conclude, Execute,
       FastValidation
<1>8. ConsumeCommit(p)
  <2>1. ~(Acquire(p) \/ Recover(p) \/ DriftPause(p) \/ Resolve(p)
          \/ ContinueApproved(p))
    BY <1>1 DEF Acquire, Recover, DriftPause, Resolve, ContinueApproved, tables
  <2>2. ~Invalidate(p)
    <3> SUFFICES ASSUME Invalidate(p) PROVE FALSE OBVIOUS
    <3>1. UNCHANGED appr \/ \E j : SetApproval(Sid(p), j, "INVALIDATED")
      BY Zenon DEF Invalidate
    <3> QED BY <1>1, <1>3, <3>1
  <2>3. ~ConsumeCheck(p)
    <3> SUFFICES ASSUME ConsumeCheck(p) PROVE FALSE OBVIOUS
    <3>1. \/ UNCHANGED appr
          \/ SetApproval(Sid(p), proc[p].step, "EXPIRED")
          \/ SetApproval(Sid(p), proc[p].step, "INVALIDATED")
      BY DEF ConsumeCheck
    <3> QED BY <1>1, <1>3, <3>1
  <2> QED BY <1>5, <1>6, <1>7, <2>1, <2>2, <2>3 DEF ProcStep, Continue, Resume
<1>9. proc[p].sid = s /\ proc[p].step = k
  BY <1>1, <1>3, <1>8 DEF ConsumeCommit, Sid
<1> QED BY <1>8, <1>9

\* An approval gets lost only by a fault of the process that has it in hand.
LEMMA LossStep ==
  ASSUME SInv, AInv, GInv, [Next]_vars, NEW s \in Sessions, NEW k \in Steps,
         <<s, k>> \in Lost', <<s, k>> \notin Lost
  PROVE  \E p \in Procs : /\ lock = p /\ s = proc[p].sid /\ k = proc[p].step
                          /\ faults' = faults + 1
<1>0. IInv /\ TypeOK /\ InPlace BY DEF SInv, IInv, GInv, EInv
<1>1. appr'[s][k] = "CONSUMED" /\ executed'[s][k] = 0 /\ ~Granted(s, k)'
  BY DEF Lost
<1>2. appr[s][k] = "CONSUMED" /\ executed[s][k] = 0 => Granted(s, k)
  BY DEF Lost
<1>3. CASE appr[s][k] # "CONSUMED"
  <2>1. PICK p \in Procs : ConsumeCommit(p) /\ proc[p].sid = s /\ proc[p].step = k
    BY <1>0, <1>1, <1>3, ConsumedStep
  <2>2. lock = p
    BY <1>0, <2>1 DEF ConsumeCommit, At, IInv, Shape, Held, Pcs
  <2>3. ~Go(p, "granted")
    <3>1. ASSUME Go(p, "granted") PROVE Granted(s, k)'
      <4>1. proc'[p].pc = "granted" /\ proc'[p].sid = s /\ proc'[p].step = k
        BY <1>0, <2>1, <3>1, GoTo
      <4> QED BY <4>1 DEF Granted, Sid
    <3> QED BY <1>1, <3>1
  <2>4. appr' # appr BY <1>1, <1>3
  <2>5. Fault BY <2>1, <2>3, <2>4 DEF ConsumeCommit
  <2> QED BY <2>1, <2>2, <2>5 DEF Fault
<1>4. CASE appr[s][k] = "CONSUMED"
  <2>1. executed[s][k] = 0
    <3>1. CASE executed'[s][k] = executed[s][k] BY <1>1, <3>1
    <3>2. CASE executed'[s][k] # executed[s][k]
      <4>1. PICK p \in Procs : Runs(p) /\ proc[p].sid = s /\ proc[p].step = k
        BY <3>2, StartedStep DEF GInv
      <4> QED BY <1>0, <1>1, <4>1 DEF Runs, TypeOK
    <3> QED BY <3>1, <3>2
  <2>2. PICK p \in Procs : /\ proc[p].pc \in {"granted", "execute"}
                           /\ proc[p].sid = s /\ proc[p].step = k
    BY <1>2, <1>4, <2>1 DEF Granted, Sid
  <2>3. lock = p BY <1>0, <2>2 DEF IInv, Shape, Held, Pcs
  <2>4. ~(proc'[p].pc \in {"granted", "execute"} /\ proc'[p].sid = s
          /\ proc'[p].step = k)
    BY <1>1 DEF Granted, Sid
  <2>5. ProcStep(p) BY <1>0, <2>2, <2>4, OneMoves
  <2>6. CASE Failure(p)
    BY <2>2, <2>3, <2>6 DEF Failure, LeakLock, Abort, Kill, Fault, At
  <2>7. CASE ContinueApproved(p)
    <3>1. status[s] = "PAUSED_APPROVAL"
      BY <1>0, <2>2, <2>7 DEF ContinueApproved, At, InPlace, Waiting
    <3>2. proc' = [proc EXCEPT ![p].pc = "execute", ![p].trk = TrackerOf(s)]
      BY <2>2, <2>7, <3>1 DEF ContinueApproved, Sid
    <3> QED BY <1>0, <2>2, <2>4, <3>2 DEF TypeOK, Locals
  <2>8. CASE Execute(p)
    <3>1. Dispatchable(s, k)
      BY <2>2, <2>8 DEF Execute, At, GInv, Unstarted
    <3>2. executed' = [executed EXCEPT ![s][k] = @ + 1]
      BY <2>2, <2>8, <3>1 DEF Execute, RunTool, Sid
    <3> QED BY <1>0, <1>1, <2>1, <3>2 DEF TypeOK
  <2>9. ~(\/ Start(p) \/ Release(p) \/ Decide(p) \/ CreateSession(p) \/ EngineRun(p)
          \/ LoopTop(p) \/ AskLlm(p) \/ Authorize(p) \/ RecordStep(p)
          \/ PauseForApproval(p) \/ FinalValidation(p) \/ Conclude(p)
          \/ FastValidation(p) \/ Acquire(p) \/ Recover(p) \/ Invalidate(p)
          \/ DriftPause(p) \/ Resolve(p) \/ ConsumeCheck(p) \/ ConsumeCommit(p))
    BY <2>2 DEF At, Start, StartRun, StartResume, StartKeep, StartRollback, Release,
       Decide, Keep, RollbackFiles, RollbackStatus, CreateSession, EngineRun,
       LoopTop, AskLlm, Authorize, RecordStep, PauseForApproval, FinalValidation,
       Conclude, FastValidation, Acquire, Recover, Invalidate, DriftPause, Resolve,
       ConsumeCheck, ConsumeCommit
  <2> QED BY <2>5, <2>6, <2>7, <2>8, <2>9 DEF ProcStep, Continue, Engine, Resume
<1> QED BY <1>3, <1>4

LEMMA LostFinite == IsFiniteSet(Lost) /\ Cardinality(Lost) \in Nat
<1>1. IsFiniteSet(Sessions) BY FS_Interval, BudgetAssumption DEF Sessions
<1>2. IsFiniteSet(Steps)
  <2>1. MaxSteps + 1 \in Int BY BudgetAssumption
  <2> QED BY <2>1, FS_Interval DEF Steps
<1>3. IsFiniteSet(Sessions \X Steps) BY <1>1, <1>2, FS_Product
<1>4. Lost \in SUBSET (Sessions \X Steps) BY DEF Lost
<1> QED BY <1>3, <1>4, FS_Subset, FS_CardinalityType

\* The cardinality of a set that gains one element at most.
LEMMA GainOne ==
  ASSUME NEW S, IsFiniteSet(S), NEW T, NEW x, T \subseteq S \cup {x}
  PROVE  Cardinality(T) <= Cardinality(S) + 1
<1>1. IsFiniteSet(S \cup {x}) /\ Cardinality(S \cup {x}) <= Cardinality(S) + 1
      /\ Cardinality(S) \in Nat
  BY FS_AddElement, FS_CardinalityType
<1>2. Cardinality(T) <= Cardinality(S \cup {x}) BY <1>1, FS_Subset
<1>3. Cardinality(T) \in Nat /\ Cardinality(S \cup {x}) \in Nat
  BY <1>1, FS_Subset, FS_CardinalityType
<1> QED BY <1>1, <1>2, <1>3

LEMMA ConsumedStartsStep ==
  ASSUME SInv, AInv, GInv, ConsumedStarts, [Next]_vars PROVE ConsumedStarts'
<1>1. Cardinality(Lost) <= faults /\ faults \in Nat
  BY DEF ConsumedStarts, Lost, SInv, IInv, TypeOK
<1>2. SUFFICES Cardinality(Lost') <= faults' BY DEF ConsumedStarts, Lost
<1>3. IsFiniteSet(Lost) /\ Cardinality(Lost) \in Nat BY LostFinite
<1>4. CASE Lost' \subseteq Lost
  <2>1. Cardinality(Lost') <= Cardinality(Lost) /\ Cardinality(Lost') \in Nat
    BY <1>3, <1>4, FS_Subset, FS_CardinalityType
  <2> QED BY <1>1, <1>3, <2>1, FaultsGrow
<1>5. CASE ~(Lost' \subseteq Lost)
  <2>1. PICK x \in Lost' : x \notin Lost BY <1>5
  <2>2. \A y \in Lost' : y \in Sessions \X Steps BY DEF Lost
  <2>3. ASSUME NEW y \in Lost', y \notin Lost
        PROVE  \E p \in Procs : /\ lock = p /\ y = <<proc[p].sid, proc[p].step>>
                                /\ faults' = faults + 1
    <3>1. PICK s \in Sessions, k \in Steps : y = <<s, k>> BY <2>2
    <3> QED BY <2>3, <3>1, LossStep
  <2>4. faults' = faults + 1 /\ x = <<proc[lock].sid, proc[lock].step>>
    BY <2>1, <2>3
  <2>5. Lost' \subseteq Lost \cup {x}
    <3> SUFFICES ASSUME NEW y \in Lost', y \notin Lost PROVE y = x OBVIOUS
    <3> QED BY <2>3, <2>4
  <2>6. Cardinality(Lost') <= Cardinality(Lost) + 1 BY <1>3, <2>5, GainOne
  <2>7. Cardinality(Lost') \in Nat
    <3>1. IsFiniteSet(Lost \cup {x}) BY <1>3, FS_AddElement
    <3> QED BY <2>5, <3>1, FS_Subset, FS_CardinalityType
  <2> QED BY <1>1, <1>3, <2>4, <2>6, <2>7
<1> QED BY <1>4, <1>5

\* Every approval that was used up has its tool started, or there was a fault
\* for each that has not, wherever processes are killed or raise.
THEOREM ApprovedIsDone == Spec => []ConsumedStarts
<1>1. Init => ConsumedStarts
  <2> SUFFICES ASSUME Init PROVE Cardinality(Lost) <= faults
    BY DEF ConsumedStarts, Lost
  <2>1. Lost = {} BY DEF Init, Lost
  <2> QED BY <2>1, FS_EmptySet DEF Init
<1>2. /\ SInv /\ AInv /\ GInv /\ ConsumedStarts /\ [Next]_vars
      => SInv' /\ AInv' /\ GInv' /\ ConsumedStarts'
  BY NextSInv, NextAInv, NextGInv, ConsumedStartsStep
<1> QED BY <1>1, <1>2, InitSInv, InitAInv, InitGInv, PTL DEF Spec

-----------------------------------------------------------------------------
(* The user's decision                                                      *)

\* What a session is from the moment it awaits the decision.
Ended == {"NEEDS_USER_DECISION", "CHANGES_KEPT", "ROLLED_BACK"}

\* There is no way back from the decision, and only the last step of a rollback
\* command makes a session ROLLED_BACK.
LEMMA EndedStep ==
  ASSUME IInv, [Next]_vars, NEW s \in Sessions
  PROVE  /\ status[s] \in Ended => status'[s] \in Ended
         /\ status'[s] = "ROLLED_BACK" /\ status[s] # "ROLLED_BACK" =>
              \E p \in Procs : /\ proc[p].pc = "rolled" /\ proc[p].sid = s
                               /\ UNCHANGED <<journal, reverted>>
<1> DEFINE Kept == /\ status[s] \in Ended => status'[s] \in Ended
                   /\ status'[s] = "ROLLED_BACK" => status[s] = "ROLLED_BACK"
<1>0. TypeOK BY DEF IInv
<1>1. ASSUME status'[s] = status[s] PROVE Kept BY <1>1
<1>2. ASSUME NEW u, NEW target, Set(u, target), target # "ROLLED_BACK",
             u = s => status[s] \notin Ended \/ target \in Ended
      PROVE  Kept
  BY <1>0, <1>2 DEF Set, TypeOK
<1>3. ASSUME NEW target, Legal(s, target), status[s] \in Ended
      PROVE  target \in Ended
  BY <1>3 DEF Legal, ALLOWED_TRANSITIONS, Pauses, Ended
<1>4. ASSUME NEW p, NEW target, Pause(p, target), target # "ROLLED_BACK" PROVE Kept
  BY <1>1, <1>2, <1>3, <1>4 DEF Pause
<1>5. CASE Answer \/ Environment \/ UNCHANGED vars
  BY <1>1, <1>5 DEF Answer, Approve, Deny, Environment, SessionTimeout, EditFile,
     Expire, tables, vars
<1>6. ASSUME NEW p \in Procs, ProcStep(p), ~RollbackStatus(p) PROVE Kept
  <2>1. CASE Start(p) \/ Release(p) \/ Failure(p) \/ RollbackFiles(p)
    BY <1>1, <2>1 DEF Start, StartRun, StartResume, StartKeep, StartRollback,
       Release, Failure, LeakLock, Abort, Kill, RollbackFiles, tables
  <2>2. CASE Keep(p)
    <3>1. "CHANGES_KEPT" \in Ended /\ "CHANGES_KEPT" # "ROLLED_BACK" BY DEF Ended
    <3> QED BY <1>1, <1>2, <2>2, <3>1 DEF Keep
  <2>3. CASE CreateSession(p)
    <3>1. CASE UNCHANGED status BY <1>1, <3>1
    <3>2. ASSUME NEW u, status[u] = "NONE", Set(u, "CREATED") PROVE Kept
      BY <1>2, <3>2 DEF Ended
    <3> QED BY <2>3, <3>1, <3>2 DEF CreateSession
  <2>4. CASE EngineRun(p)
    BY <1>1, <1>2, <2>4 DEF EngineRun, Ended
  <2>5. CASE LoopTop(p) \/ AskLlm(p) \/ Authorize(p)
    BY <1>1, <1>4, <2>5 DEF LoopTop, AskLlm, Authorize
  <2>6. CASE PauseForApproval(p) \/ Conclude(p) \/ DriftPause(p)
    BY <1>4, <2>6 DEF PauseForApproval, Conclude, DriftPause
  <2>7. CASE Execute(p)
    BY <1>1, <1>4, <2>7 DEF Execute, ToolFailed
  <2>8. CASE \/ RecordStep(p) \/ FinalValidation(p) \/ FastValidation(p)
             \/ Acquire(p) \/ Recover(p) \/ Invalidate(p) \/ ConsumeCheck(p)
             \/ ConsumeCommit(p)
    BY <1>1, <2>8 DEF RecordStep, FinalValidation, FastValidation, Acquire, Recover,
       Invalidate, ConsumeCheck, ConsumeCommit, tables
  <2>9. CASE Resolve(p)
    <3>1. CASE UNCHANGED status BY <1>1, <3>1
    <3>2. CASE Legal(Sid(p), "RUNNING") /\ Set(Sid(p), "RUNNING")
      <4>1. status[Sid(p)] \notin Ended
        BY <3>2 DEF Legal, ALLOWED_TRANSITIONS, Pauses, Ended
      <4> QED BY <1>2, <3>2, <4>1
    <3> QED BY <2>9, <3>1, <3>2 DEF Resolve
  <2>10. CASE ContinueApproved(p)
    BY <1>1, <1>2, <2>10 DEF ContinueApproved, Reopen, Ended
  <2> QED
    BY <1>6, <2>1, <2>2, <2>3, <2>4, <2>5, <2>6, <2>7, <2>8, <2>9, <2>10
    DEF ProcStep, Continue, Engine, Resume, Decide
<1>7. ASSUME NEW p \in Procs, RollbackStatus(p)
      PROVE  /\ status[s] \in Ended => status'[s] \in Ended
             /\ status'[s] = "ROLLED_BACK" /\ status[s] # "ROLLED_BACK" =>
                  /\ proc[p].pc = "rolled" /\ proc[p].sid = s
                  /\ UNCHANGED <<journal, reverted>>
  <2>1. proc[p].pc = "rolled" /\ UNCHANGED <<journal, reverted>> /\ Sid(p) = proc[p].sid
    BY <1>7 DEF RollbackStatus, At, history, Sid
  <2>2. CASE UNCHANGED status BY <2>2
  <2>3. CASE Set(proc[p].sid, "ROLLED_BACK")
    BY <1>0, <2>1, <2>3 DEF Set, TypeOK, Ended
  <2> QED BY <1>7, <2>1, <2>2, <2>3 DEF RollbackStatus
<1> QED BY <1>1, <1>5, <1>6, <1>7 DEF Next, ProcStep

\* Changes come only to a session that is running, and what was reverted
\* stays so.
LEMMA ChangesStep ==
  ASSUME SInv, [Next]_vars, NEW s \in Sessions
  PROVE  /\ journal[s] = "empty" /\ journal'[s] # "empty" => status[s] = "RUNNING"
         /\ s \in reverted => s \in reverted'
<1>0. TypeOK BY DEF SInv, IInv
<1>1. s \in reverted => s \in reverted'
  <2>1. CASE Answer \/ Environment \/ UNCHANGED vars
    BY <2>1 DEF Answer, Approve, Deny, Environment, SessionTimeout, EditFile,
       Expire, history, vars
  <2>2. ASSUME NEW p \in Procs, ProcStep(p) PROVE s \in reverted => s \in reverted'
    <3>1. CASE Start(p) \/ Release(p) \/ Decide(p) \/ Failure(p)
      BY <3>1 DEF Start, StartRun, StartResume, StartKeep, StartRollback, Release,
         Decide, Keep, RollbackFiles, RollbackStatus, Failure, LeakLock, Abort, Kill,
         history
    <3>2. CASE Engine(p)
      BY <3>2 DEF Engine, CreateSession, EngineRun, LoopTop, AskLlm, Authorize,
         RecordStep, PauseForApproval, FinalValidation, Conclude, Execute,
         FastValidation, history
    <3>3. CASE Resume(p)
      BY <3>3 DEF Resume, Acquire, Recover, Invalidate, DriftPause, Resolve,
         ConsumeCheck, ConsumeCommit, ContinueApproved, history
    <3> QED BY <2>2, <3>1, <3>2, <3>3 DEF ProcStep, Continue
  <2> QED BY <2>1, <2>2 DEF Next, ProcStep
<1>2. ASSUME journal[s] = "empty", journal'[s] # "empty" PROVE status[s] = "RUNNING"
  <2>1. journal' # journal BY <1>2
  <2>2. ASSUME NEW u, NEW j, journal[u] # "empty", journal' = [journal EXCEPT ![u] = j]
        PROVE  FALSE
    BY <1>0, <1>2, <2>2 DEF TypeOK
  <2>3. ASSUME NEW p \in Procs, At(p, "execute"), NEW done,
               RunTool(Sid(p), proc[p].step, done)
        PROVE  status[s] = "RUNNING"
    <3>1. \E j : journal' = [journal EXCEPT ![Sid(p)] = j] BY <2>3 DEF RunTool
    <3>2. s = proc[p].sid BY <1>0, <1>2, <3>1 DEF TypeOK, Sid
    <3> QED BY <2>3, <3>2 DEF At, InLoop, SInv, Running
  <2>4. ~(Answer \/ UNCHANGED vars)
    BY <2>1 DEF Answer, Approve, Deny, vars, tables
  <2>5. ~Environment
    <3>1. ASSUME NEW u \in Sessions PROVE ~EditFile(u)
      <4> SUFFICES ASSUME EditFile(u) PROVE FALSE OBVIOUS
      <4>1. journal[u] # "empty" /\ \E j : journal' = [journal EXCEPT ![u] = j]
        BY <2>1 DEF EditFile
      <4> QED BY <2>2, <4>1
    <3> QED BY <2>1, <3>1 DEF Environment, SessionTimeout, Expire, tables
  <2>6. PICK p \in Procs : ProcStep(p) BY <2>4, <2>5 DEF Next, ProcStep
  <2>7. ~RollbackFiles(p)
    <3> SUFFICES ASSUME RollbackFiles(p) PROVE FALSE OBVIOUS
    <3>1. journal[Sid(p)] # "empty" /\ \E j : journal' = [journal EXCEPT ![Sid(p)] = j]
      BY <2>1 DEF RollbackFiles
    <3> QED BY <2>2, <3>1
  <2>8. CASE Execute(p) BY <2>1, <2>3, <2>8 DEF Execute
  <2>9. CASE Abort(p) \/ Kill(p)
    BY <2>1, <2>3, <2>9 DEF Abort, Kill, CutShort
  <2>10. ~(Start(p) \/ Release(p) \/ LeakLock(p) \/ Keep(p) \/ RollbackStatus(p)
           \/ Resume(p))
    BY <2>1 DEF Start, StartRun, StartResume, StartKeep, StartRollback, Release,
       LeakLock, Keep, RollbackStatus, Resume, Acquire, Recover, Invalidate,
       DriftPause, Resolve, ConsumeCheck, ConsumeCommit, ContinueApproved, tables
  <2>11. ~(\/ CreateSession(p) \/ EngineRun(p) \/ LoopTop(p) \/ AskLlm(p)
           \/ Authorize(p) \/ RecordStep(p) \/ PauseForApproval(p)
           \/ FinalValidation(p) \/ Conclude(p) \/ FastValidation(p))
    BY <2>1 DEF CreateSession, EngineRun, LoopTop, AskLlm, Authorize, RecordStep,
       PauseForApproval, FinalValidation, Conclude, FastValidation
  <2> QED
    BY <2>6, <2>7, <2>8, <2>9, <2>10, <2>11
    DEF ProcStep, Continue, Engine, Decide, Failure
<1> QED BY <1>1, <1>2

LEMMA DecidedStep ==
  ASSUME SInv, InPlace, Decided, [Next]_vars PROVE Decided'
<1>0. IInv BY DEF SInv
<1> SUFFICES ASSUME NEW q \in Procs, proc'[q].pc \in {"rollback", "rolled"}
             PROVE  /\ proc'[q].seen => status'[proc'[q].sid] \in Ended
                    /\ proc'[q].pc = "rolled" =>
                         /\ proc'[q].seen
                         /\ \/ proc'[q].sid \in reverted'
                            \/ journal'[proc'[q].sid] = "empty"
  BY DEF Decided, Ended
<1>1. "RUNNING" \notin Ended BY DEF Ended
<1>2. CASE ~ProcStep(q)
  <2> DEFINE s == proc[q].sid
  <2>1. proc'[q] = proc[q] BY <1>2, Bystander DEF Spared
  <2>2. s \in Sessions BY <1>0, <2>1 DEF IInv, Shape, Based, Pcs
  <2>3. /\ proc[q].seen => status[s] \in Ended
        /\ proc[q].pc = "rolled" =>
             proc[q].seen /\ (s \in reverted \/ journal[s] = "empty")
    BY <2>1 DEF Decided, Ended
  <2>4. /\ status[s] \in Ended => status'[s] \in Ended
        /\ journal[s] = "empty" /\ journal'[s] # "empty" => status[s] = "RUNNING"
        /\ s \in reverted => s \in reverted'
    BY <1>0, <2>2, EndedStep, ChangesStep
  <2> QED BY <1>1, <2>1, <2>3, <2>4
<1>3. CASE ProcStep(q)
  <2>1. Arrives(q) BY <1>0, <1>3, ArriveLemma
  <2>2. CASE proc'[q].pc = "rollback"
    BY <2>1, <2>2 DEF Arrives, Ended
  <2>3. CASE proc'[q].pc = "rolled"
    <3>1. /\ proc[q].pc = "rollback" /\ proc[q].seen /\ proc'[q].seen
          /\ UNCHANGED status /\ proc'[q].sid = proc[q].sid
          /\ proc[q].sid \in reverted' \/ journal'[proc[q].sid] = "empty"
      BY <2>1, <2>3 DEF Arrives, Watched, Waiting
    <3>2. status[proc[q].sid] \in Ended BY <3>1 DEF Decided, Ended
    <3> QED BY <3>1, <3>2
  <2> QED BY <2>2, <2>3
<1> QED BY <1>2, <1>3

LEMMA RolledBackStep ==
  ASSUME SInv, Decided, RolledBackMeansReverted, [Next]_vars
  PROVE  RolledBackMeansReverted'
<1>0. IInv BY DEF SInv
<1> SUFFICES ASSUME NEW s \in Sessions, status'[s] = "ROLLED_BACK"
             PROVE  s \in reverted' \/ journal'[s] = "empty"
  BY DEF RolledBackMeansReverted
<1>1. CASE status[s] = "ROLLED_BACK"
  BY <1>1, ChangesStep DEF RolledBackMeansReverted
<1>2. CASE status[s] # "ROLLED_BACK"
  <2>1. PICK p \in Procs : /\ proc[p].pc = "rolled" /\ proc[p].sid = s
                           /\ UNCHANGED <<journal, reverted>>
    BY <1>0, <1>2, EndedStep
  <2> QED BY <2>1 DEF Decided
<1> QED BY <1>1, <1>2

\* A session is ROLLED_BACK only if a rollback of it ran to its end or there was
\* nothing to undo, whatever other commands did between the two transactions.
THEOREM RolledBackIsTrue == Spec => []RolledBackMeansReverted
<1>1. Init => Decided /\ RolledBackMeansReverted
  <2> SUFFICES ASSUME Init PROVE Decided /\ RolledBackMeansReverted OBVIOUS
  <2>1. \A p \in Procs : proc[p].pc = "idle" BY IdleType DEF Init
  <2> QED BY <2>1 DEF Init, Decided, RolledBackMeansReverted
<1>2. /\ SInv /\ EInv /\ Decided /\ RolledBackMeansReverted /\ [Next]_vars
      => SInv' /\ EInv' /\ Decided' /\ RolledBackMeansReverted'
  BY NextSInv, NextEInv, DecidedStep, RolledBackStep DEF EInv
<1> QED BY <1>1, <1>2, InitSInv, InitEInv, PTL DEF Spec

-----------------------------------------------------------------------------
(***************************************************************************)
(* Part 5: every command ends                                              *)
(***************************************************************************)

\* How far a place is from the end of the command, within one round of the
\* loop: each step of a round goes down, and only a call to the model starts
\* another round.
Height(r) ==
  CASE r.pc = "idle" -> 0
    [] r.pc = "release" -> 1
    [] r.pc \in {"pause", "conclude", "keep", "rolled"} -> 2
    [] r.pc \in {"final", "rollback"} -> 3
    [] r.pc = "loop" -> 4
    [] r.pc = "run" -> 5
    [] r.pc \in {"create", "fast"} -> 6
    [] r.pc = "execute" -> 7
    [] r.pc \in {"record", "granted"} -> 8
    [] r.pc \in {"authorize", "commit"} -> 9
    [] r.pc \in {"ask", "consume"} -> 10
    [] r.pc = "resolve" -> 11
    [] r.pc = "invalidate" -> 12 + Cardinality(r.todo)
    [] r.pc = "recover" -> MaxSteps + 14
    [] r.pc = "acquire" -> MaxSteps + 15

\* The rounds that it can still pay for.
RoundsLeft(r, b) ==
  CASE r.pc \in {"idle", "release"} -> 0
    [] r.pc = "create" -> MaxLlmCalls
    [] r.pc \in Based -> MaxLlmCalls - b[r.sid].calls

Rank(p) == 7 * RoundsLeft(proc[p], budget) + Height(proc[p])

Longest == 7 * MaxLlmCalls + MaxSteps + 15

\* No command takes more than Longest steps: each step of its own lowers its
\* rank, and no other step raises it.
RankFalls ==
  /\ [](\A p \in Procs : Rank(p) \in 0..Longest)
  /\ [][\A p \in Procs : ~At(p, "idle") =>
          IF UNCHANGED proc[p] THEN Rank(p)' <= Rank(p) ELSE Rank(p)' < Rank(p)]_vars

\* What a listed approval adds to the height.
LEMMA TodoFacts ==
  ASSUME NEW S \in SUBSET Steps
  PROVE  /\ Cardinality(S) \in 0..(MaxSteps + 1)
         /\ \A k \in S : Cardinality(S \ {k}) = Cardinality(S) - 1
<1>1. MaxSteps + 1 \in Nat BY BudgetAssumption
<1>2. IsFiniteSet(Steps) /\ Cardinality(Steps) = MaxSteps + 1
  BY <1>1, FS_Interval DEF Steps
<1>3. IsFiniteSet(S) /\ Cardinality(S) <= Cardinality(Steps) BY <1>2, FS_Subset
<1>4. Cardinality(S) \in Nat BY <1>3, FS_CardinalityType
<1>5. \A k \in S : Cardinality(S \ {k}) = Cardinality(S) - 1
  BY <1>3, FS_RemoveElement
<1> QED BY <1>1, <1>2, <1>3, <1>4, <1>5

\* The table of heights, and how high they get.
LEMMA HeightIs ==
  ASSUME NEW r
  PROVE  /\ r.pc = "idle" => Height(r) = 0
         /\ r.pc = "release" => Height(r) = 1
         /\ r.pc \in {"pause", "conclude", "keep", "rolled"} => Height(r) = 2
         /\ r.pc \in {"final", "rollback"} => Height(r) = 3
         /\ r.pc = "loop" => Height(r) = 4
         /\ r.pc = "run" => Height(r) = 5
         /\ r.pc \in {"create", "fast"} => Height(r) = 6
         /\ r.pc = "execute" => Height(r) = 7
         /\ r.pc \in {"record", "granted"} => Height(r) = 8
         /\ r.pc \in {"authorize", "commit"} => Height(r) = 9
         /\ r.pc \in {"ask", "consume"} => Height(r) = 10
         /\ r.pc = "resolve" => Height(r) = 11
         /\ r.pc = "invalidate" => Height(r) = 12 + Cardinality(r.todo)
         /\ r.pc = "recover" => Height(r) = MaxSteps + 14
         /\ r.pc = "acquire" => Height(r) = MaxSteps + 15
BY DEF Height

LEMMA HeightType ==
  ASSUME NEW r \in Locals
  PROVE  /\ Height(r) \in 0..(MaxSteps + 15)
         /\ r.pc \notin {"idle", "release"} => Height(r) >= 2
<1>1. MaxSteps \in Nat BY BudgetAssumption
<1>2. Cardinality(r.todo) \in 0..(MaxSteps + 1) BY TodoFacts DEF Locals
<1>3. r.pc \in Pcs BY DEF Locals
<1>4. \/ r.pc = "idle" /\ Height(r) = 0
      \/ r.pc = "release" /\ Height(r) = 1
      \/ Height(r) \in 2..11
      \/ Height(r) = 12 + Cardinality(r.todo)
      \/ Height(r) = MaxSteps + 14
      \/ Height(r) = MaxSteps + 15
  BY <1>3, HeightIs DEF Pcs
<1> QED BY <1>1, <1>2, <1>4, HeightIs

LEMMA RoundsLeftIs ==
  ASSUME NEW r, NEW b
  PROVE  /\ r.pc \in {"idle", "release"} => RoundsLeft(r, b) = 0
         /\ r.pc = "create" => RoundsLeft(r, b) = MaxLlmCalls
         /\ r.pc \in Based => RoundsLeft(r, b) = MaxLlmCalls - b[r.sid].calls
BY DEF RoundsLeft, Based

LEMMA RoundsLeftType ==
  ASSUME NEW r \in Locals, NEW b \in [Sessions -> Budgets],
         r.pc \in Based => r.sid \in Sessions,
         \A s \in Sessions : b[s].calls <= MaxLlmCalls
  PROVE  RoundsLeft(r, b) \in 0..MaxLlmCalls
<1>1. MaxLlmCalls \in Nat BY BudgetAssumption
<1>2. CASE r.pc \in Based
  <2>1. r.sid \in Sessions /\ b[r.sid] \in Budgets BY <1>2
  <2>2. b[r.sid].calls \in Nat /\ b[r.sid].calls <= MaxLlmCalls BY <2>1 DEF Budgets
  <2> QED BY <1>1, <1>2, <2>2, RoundsLeftIs
<1>3. CASE r.pc \notin Based
  <2>1. r.pc \in {"idle", "create", "release"} BY <1>3 DEF Based, Locals
  <2> QED BY <1>1, <2>1, RoundsLeftIs
<1> QED BY <1>2, <1>3

\* No rank is above Longest.
LEMMA RankType ==
  ASSUME IInv, NEW p \in Procs PROVE Rank(p) \in 0..Longest
<1>1. MaxSteps \in Nat /\ MaxLlmCalls \in Nat BY BudgetAssumption
<1>2. proc[p] \in Locals BY DEF IInv, TypeOK
<1>3. Height(proc[p]) \in 0..(MaxSteps + 15) BY <1>2, HeightType
<1>4. RoundsLeft(proc[p], budget) \in 0..MaxLlmCalls
  BY <1>2, RoundsLeftType DEF IInv, TypeOK, Shape, CallsCharged
<1> QED BY <1>1, <1>3, <1>4 DEF Rank, Longest

-----------------------------------------------------------------------------
(* The calls that are paid for                                              *)

\* Nobody takes a call back, and only the top of the loop adds one.
LEMMA CallsKept ==
  ASSUME IInv, [Next]_vars, NEW s \in Sessions
  PROVE  \/ budget'[s].calls = budget[s].calls
         \/ /\ budget'[s].calls = budget[s].calls + 1
            /\ \E p \in Procs : LoopTop(p) /\ proc'[p].pc = "ask"
<1>1. ASSUME NEW p \in Procs, proc[p].pc \in InLoop, NEW t \in Budgets, Save(p, t)
      PROVE  /\ proc[p].trk.calls = t.calls => budget'[s].calls = budget[s].calls
             /\ budget'[s].calls = budget[s].calls \/ budget'[s].calls = t.calls
  BY <1>1, InLoopFacts, SaveFacts
<1>2. ASSUME UNCHANGED budget PROVE budget'[s].calls = budget[s].calls BY <1>2
<1>3. CASE Answer \/ Environment \/ UNCHANGED vars
  BY <1>2, <1>3 DEF Answer, Approve, Deny, Environment, SessionTimeout, EditFile,
     Expire, tables, vars
<1>4. ASSUME NEW p \in Procs, LoopTop(p)
      PROVE  \/ budget'[s].calls = budget[s].calls
             \/ budget'[s].calls = budget[s].calls + 1 /\ proc'[p].pc = "ask"
  <2>1. proc[p].pc \in InLoop BY <1>4 DEF LoopTop, At, InLoop
  <2>2. proc[p].trk \in Budgets /\ proc[p].trk = budget[proc[p].sid] /\ TypeOK
        /\ Sid(p) \in Sessions /\ Sid(p) = proc[p].sid /\ proc[p] \in Locals
    BY <2>1, InLoopFacts
  <2> DEFINE c == RecordedCall(proc[p].trk)
  <2>3. c \in Budgets /\ c.calls = proc[p].trk.calls + 1 BY <2>2, RecordedFacts
  <2> HIDE DEF c
  <2>4. CASE Save(p, c) /\ proc' = [proc EXCEPT ![p].pc = "ask", ![p].trk = c]
    <3>1. budget'[Sid(p)] = c
          /\ \A u \in Sessions : u # Sid(p) => budget'[u] = budget[u]
      BY <2>2, <2>3, <2>4, SaveFacts
    <3>2. proc'[p].pc = "ask" BY <2>2, <2>4 DEF TypeOK, Locals
    <3> QED BY <2>2, <2>3, <3>1, <3>2
  <2>5. CASE Save(p, proc[p].trk) BY <1>1, <2>1, <2>2, <2>5
  <2> QED BY <1>2, <1>4, <2>4, <2>5 DEF LoopTop, c
<1>5. ASSUME NEW p \in Procs, RecordStep(p) PROVE budget'[s].calls = budget[s].calls
  <2>1. proc[p].pc = "record" /\ proc[p].pc \in InLoop
    BY <1>5 DEF RecordStep, At, InLoop
  <2>2. proc[p].trk \in Budgets /\ Sid(p) = proc[p].sid BY <2>1, InLoopFacts
  <2> DEFINE a == log[Sid(p)][proc[p].step]
             t == RecordedStep(proc[p].trk, a)
  <2>3. a \in Actions BY <2>1, <2>2 DEF IInv, Shape
  <2>4. t \in Budgets /\ t.calls = proc[p].trk.calls BY <2>2, <2>3, RecordedFacts
  <2>5. Save(p, t) BY <1>5 DEF RecordStep
  <2> HIDE DEF t
  <2> QED BY <1>1, <2>1, <2>4, <2>5
<1>6. ASSUME NEW p \in Procs, FastValidation(p) PROVE budget'[s].calls = budget[s].calls
  <2>1. proc[p].pc \in InLoop BY <1>6 DEF FastValidation, At, InLoop
  <2>2. proc[p].trk \in Budgets BY <2>1, InLoopFacts
  <2>3. PICK ok \in BOOLEAN : Save(p, RecordedValidation(proc[p].trk, ok))
    BY <1>6 DEF FastValidation
  <2> DEFINE t == RecordedValidation(proc[p].trk, ok)
  <2>4. t \in Budgets /\ t.calls = proc[p].trk.calls BY <2>2, RecordedFacts
  <2>5. Save(p, t) BY <2>3
  <2> HIDE DEF t
  <2> QED BY <1>1, <2>1, <2>4, <2>5
<1>7. ASSUME NEW p \in Procs, ProcStep(p) PROVE UNCHANGED budget \/ LoopTop(p)
                                          \/ RecordStep(p) \/ FastValidation(p)
  <2>1. CASE Start(p)
    BY <2>1 DEF Start, StartRun, StartResume, StartKeep, StartRollback, tables
  <2>2. CASE Engine(p)
    BY <2>2 DEF Engine, CreateSession, EngineRun, AskLlm, Authorize, PauseForApproval,
       FinalValidation, Conclude, Execute
  <2>3. CASE Resume(p)
    BY <2>3 DEF Resume, Acquire, Recover, Invalidate, DriftPause, Resolve,
       ConsumeCheck, ConsumeCommit, ContinueApproved, tables
  <2>4. CASE Decide(p) \/ Release(p) \/ Failure(p)
    BY <2>4 DEF Decide, Keep, RollbackFiles, RollbackStatus, Release, Failure,
       LeakLock, Abort, Kill, tables
  <2> QED BY <1>7, <2>1, <2>2, <2>3, <2>4 DEF ProcStep, Continue
<1> QED BY <1>2, <1>3, <1>4, <1>5, <1>6, <1>7 DEF Next, ProcStep

-----------------------------------------------------------------------------
(* The steps                                                                *)

\* The command is over, or gives up, or is nearer to its end with what it has.
Falls(r, q) ==
  \/ q.pc = "idle"
  \/ q.pc = "release" /\ r.pc # "release"
  \/ r.pc \in Based /\ q.pc \in Based /\ q.sid = r.sid /\ Height(q) < Height(r)

LEMMA FallsLemma ==
  ASSUME IInv, [Next]_vars, NEW p \in Procs, proc[p].pc # "idle",
         Falls(proc[p], proc'[p])
  PROVE  Rank(p)' < Rank(p)
<1> DEFINE r == proc[p]
           q == proc'[p]
           n == RoundsLeft(r, budget)
           m == RoundsLeft(q, budget')
<1>1. IInv' BY NextIInv
<1>2. r \in Locals /\ q \in Locals BY <1>1 DEF IInv, TypeOK
<1>3. Height(r) \in Nat /\ Height(q) \in Nat
  BY <1>2, HeightType, BudgetAssumption
<1>4. n \in Nat
  <2>1. /\ budget \in [Sessions -> Budgets]
        /\ \A s \in Sessions : budget[s].calls <= MaxLlmCalls
        /\ r.pc \in Based => r.sid \in Sessions
    BY DEF IInv, TypeOK, Shape, CallsCharged
  <2> QED BY <1>2, <2>1, RoundsLeftType, BudgetAssumption
<1>5. m \in Nat
  <2>1. /\ budget' \in [Sessions -> Budgets]
        /\ \A s \in Sessions : budget'[s].calls <= MaxLlmCalls
        /\ q.pc \in Based => q.sid \in Sessions
    BY <1>1 DEF IInv, TypeOK, Shape, CallsCharged
  <2> QED BY <1>2, <2>1, RoundsLeftType, BudgetAssumption
<1>6. Rank(p) = 7 * n + Height(r) /\ Rank(p)' = 7 * m + Height(q) BY DEF Rank
<1>7. CASE q.pc = "idle" \/ (q.pc = "release" /\ r.pc # "release")
  <2>1. m = 0 BY <1>7, RoundsLeftIs
  <2>2. r.pc = "release" \/ Height(r) >= 2 BY <1>2, HeightType
  <2>3. Height(q) < Height(r) BY <1>3, <1>7, <2>2, HeightIs
  <2> HIDE DEF n, m, q, r
  <2> QED BY <1>3, <1>4, <1>6, <2>1, <2>3
<1>8. CASE r.pc \in Based /\ q.pc \in Based /\ q.sid = r.sid /\ Height(q) < Height(r)
  <2>1. r.sid \in Sessions BY <1>8 DEF IInv, Shape
  <2>2. budget[r.sid].calls \in Nat /\ budget'[r.sid].calls \in Nat
    BY <1>1, <2>1 DEF IInv, TypeOK, Budgets
  <2>3. budget[r.sid].calls <= budget'[r.sid].calls BY <2>1, <2>2, CallsKept
  <2>4. n = MaxLlmCalls - budget[r.sid].calls /\ m = MaxLlmCalls - budget'[r.sid].calls
    BY <1>8, RoundsLeftIs
  <2>5. m <= n BY <2>2, <2>3, <2>4, BudgetAssumption
  <2>6. \A x, y, h, k \in Nat : x <= y /\ h < k => 7 * x + h < 7 * y + k OBVIOUS
  <2> HIDE DEF n, m, q, r
  <2> QED BY <1>3, <1>4, <1>5, <1>6, <1>8, <2>5, <2>6
<1> QED BY <1>7, <1>8 DEF Falls

\* The places in the code that a step can take a process to.
LEMMA GoFalls ==
  ASSUME IInv, NEW p \in Procs, NEW l, Go(p, l),
         \/ l \in {"idle", "release"} /\ proc[p].pc # "release"
         \/ /\ proc[p].pc \in Based /\ l \in Based
            /\ \A q : q.pc = l => Height(q) < Height(proc[p])
  PROVE  Falls(proc[p], proc'[p])
<1>1. proc'[p].pc = l /\ proc'[p].sid = proc[p].sid BY GoTo DEF IInv
<1> QED BY <1>1 DEF Falls

LEMMA QuitFalls ==
  ASSUME IInv, NEW p \in Procs, Quit(p) PROVE Falls(proc[p], proc'[p])
BY QuitFacts DEF IInv, Falls

LEMMA PauseFalls ==
  ASSUME IInv, NEW p \in Procs, NEW t, Pause(p, t), proc[p].pc # "release"
  PROVE Falls(proc[p], proc'[p])
<1>1. Go(p, "release") BY DEF Pause
<1> QED BY <1>1, GoFalls

LEMMA CommandFalls ==
  ASSUME IInv, NEW p \in Procs, proc[p].pc # "idle",
         \/ Release(p) \/ PauseForApproval(p) \/ Conclude(p) \/ DriftPause(p)
         \/ Decide(p) \/ Failure(p) \/ Acquire(p)
  PROVE  Falls(proc[p], proc'[p])
<1>1. CASE Release(p) \/ Keep(p) \/ RollbackStatus(p) \/ LeakLock(p) \/ Kill(p)
  BY <1>1, QuitFalls DEF Release, Keep, RollbackStatus, LeakLock, Kill
<1>2. CASE PauseForApproval(p) \/ Conclude(p) \/ DriftPause(p)
  BY <1>2, PauseFalls DEF PauseForApproval, Conclude, DriftPause, At
<1>3. CASE Abort(p) BY <1>3, GoFalls DEF Abort, At
<1>4. CASE RollbackFiles(p)
  <2>1. proc[p].pc = "rollback" /\ (Quit(p) \/ Go(p, "rolled"))
    BY <1>4 DEF RollbackFiles, RollbackRefused, RollbackEnds, At
  <2> QED BY <2>1, QuitFalls, GoFalls, HeightIs DEF Based, Pcs
<1>5. CASE Acquire(p)
  <2>1. proc[p].pc = "acquire" /\ (Quit(p) \/ Go(p, "recover"))
    BY <1>5 DEF Acquire, Busy, At
  <2> QED BY <2>1, QuitFalls, GoFalls, HeightIs, BudgetAssumption DEF Based, Pcs
<1> QED BY <1>1, <1>2, <1>3, <1>4, <1>5 DEF Decide, Failure

LEMMA ResumeFalls ==
  ASSUME IInv, NEW p \in Procs,
         \/ Recover(p) \/ Invalidate(p) \/ Resolve(p) \/ ConsumeCheck(p)
         \/ ConsumeCommit(p) \/ ContinueApproved(p)
  PROVE  Falls(proc[p], proc'[p])
<1>1. proc \in [Procs -> Locals] /\ proc[p] \in Locals BY DEF IInv, TypeOK
<1>2. {"recover", "invalidate", "resolve", "consume", "commit", "granted", "execute",
       "run"} \subseteq Based
  BY DEF Based, Pcs
<1>3. MaxSteps \in Nat BY BudgetAssumption
<1>4. CASE Recover(p)
  <2>1. proc[p].pc = "recover" /\ Height(proc[p]) = MaxSteps + 14
    BY <1>4, HeightIs DEF Recover, At
  <2>2. CASE proc' = [proc EXCEPT ![p].pc = "invalidate",
                                  ![p].todo = PendingApprovals(Sid(p))]
    <3>1. /\ proc'[p].pc = "invalidate" /\ proc'[p].sid = proc[p].sid
          /\ proc'[p].todo = PendingApprovals(Sid(p))
      BY <1>1, <2>2 DEF Locals
    <3>2. Cardinality(proc'[p].todo) \in 0..(MaxSteps + 1)
      BY <3>1, TodoFacts DEF PendingApprovals
    <3> QED BY <1>2, <1>3, <2>1, <3>1, <3>2, HeightIs DEF Falls
  <2>3. ASSUME NEW l \in {"resolve", "release", "run"}, Go(p, l)
        PROVE  Falls(proc[p], proc'[p])
    BY <1>2, <1>3, <2>1, <2>3, GoFalls, HeightIs
  <2> QED BY <1>4, <2>2, <2>3 DEF Recover
<1>5. CASE Invalidate(p)
  <2>1. proc[p].pc = "invalidate" BY <1>5 DEF Invalidate, At
  <2>2. ASSUME NEW k \in proc[p].todo, proc' = [proc EXCEPT ![p].todo = @ \ {k}]
        PROVE  Falls(proc[p], proc'[p])
    <3>1. /\ proc'[p].pc = "invalidate" /\ proc'[p].sid = proc[p].sid
          /\ proc'[p].todo = proc[p].todo \ {k}
      BY <1>1, <2>1, <2>2 DEF Locals
    <3>2. /\ Cardinality(proc[p].todo) \in Nat
          /\ Cardinality(proc'[p].todo) = Cardinality(proc[p].todo) - 1
      BY <1>1, <1>3, <3>1, TodoFacts DEF Locals
    <3>3. Height(proc[p]) = 12 + Cardinality(proc[p].todo)
          /\ Height(proc'[p]) = 12 + Cardinality(proc'[p].todo)
      BY <2>1, <3>1, HeightIs
    <3> QED BY <1>2, <2>1, <3>1, <3>2, <3>3 DEF Falls
  <2> QED BY <1>5, <2>1, <2>2, GoFalls DEF Invalidate
<1>6. CASE Resolve(p)
  <2>1. proc[p].pc = "resolve" BY <1>6 DEF Resolve, At
  <2>2. CASE proc' = [proc EXCEPT ![p].pc = "consume", ![p].step = LatestApproval(Sid(p))]
    <3>1. proc'[p].pc = "consume" /\ proc'[p].sid = proc[p].sid
      BY <1>1, <2>2 DEF Locals
    <3> QED BY <1>2, <2>1, <3>1, HeightIs DEF Falls
  <2>3. ASSUME NEW l \in {"release", "run"}, Go(p, l) PROVE Falls(proc[p], proc'[p])
    BY <1>2, <2>1, <2>3, GoFalls, HeightIs
  <2> QED BY <1>6, <2>2, <2>3 DEF Resolve
<1>7. CASE ConsumeCheck(p)
  <2>1. proc[p].pc = "consume" /\ (Go(p, "release") \/ Go(p, "commit"))
    BY <1>7 DEF ConsumeCheck, At
  <2> QED BY <1>2, <2>1, GoFalls, HeightIs
<1>8. CASE ConsumeCommit(p)
  <2>1. proc[p].pc = "commit" /\ (Go(p, "release") \/ Go(p, "granted"))
    BY <1>8 DEF ConsumeCommit, At
  <2> QED BY <1>2, <2>1, GoFalls, HeightIs
<1>9. CASE ContinueApproved(p)
  <2>1. proc[p].pc = "granted" BY <1>9 DEF ContinueApproved, At
  <2>2. CASE proc' = [proc EXCEPT ![p].pc = "execute", ![p].trk = TrackerOf(Sid(p))]
    <3>1. proc'[p].pc = "execute" /\ proc'[p].sid = proc[p].sid
      BY <1>1, <2>2 DEF Locals
    <3> QED BY <1>2, <2>1, <3>1, HeightIs DEF Falls
  <2> QED BY <1>9, <2>1, <2>2, GoFalls DEF ContinueApproved
<1> QED BY <1>4, <1>5, <1>6, <1>7, <1>8, <1>9

\* The actions, but for the one that pays and the one that has no session yet.
LEMMA EngineFalls ==
  ASSUME IInv, NEW p \in Procs,
         \/ EngineRun(p) \/ AskLlm(p) \/ Authorize(p) \/ RecordStep(p)
         \/ FinalValidation(p) \/ Execute(p) \/ FastValidation(p)
  PROVE  Falls(proc[p], proc'[p])
<1>1. proc \in [Procs -> Locals] /\ proc[p] \in Locals BY DEF IInv, TypeOK
<1>2. {"run", "loop", "ask", "authorize", "record", "pause", "final", "conclude",
       "execute", "fast"} \subseteq Based
  BY DEF Based, Pcs
<1>3. AfterTool(p) \in {"run", "loop"} BY DEF AfterTool
<1>4. CASE EngineRun(p)
  <2>1. proc[p].pc = "run" BY <1>4 DEF EngineRun, At
  <2>2. CASE Go(p, "release") BY <2>1, <2>2, GoFalls
  <2>3. CASE proc' = [proc EXCEPT ![p].pc = "loop", ![p].trk = TrackerOf(Sid(p)),
                                  ![p].perr = 0, ![p].step = 0]
    <3>1. proc'[p].pc = "loop" /\ proc'[p].sid = proc[p].sid
      BY <1>1, <2>3 DEF Locals
    <3> QED BY <1>2, <2>1, <3>1, HeightIs DEF Falls
  <2> QED BY <1>4, <2>2, <2>3 DEF EngineRun
<1>5. CASE AskLlm(p)
  <2>1. proc[p].pc = "ask" BY <1>5 DEF AskLlm, At
  <2>2. ASSUME NEW t, Pause(p, t) PROVE Falls(proc[p], proc'[p])
    BY <2>1, <2>2, PauseFalls
  <2>3. CASE proc' = [proc EXCEPT ![p].pc = "loop", ![p].perr = @ + 1]
    <3>1. proc'[p].pc = "loop" /\ proc'[p].sid = proc[p].sid
      BY <1>1, <2>3 DEF Locals
    <3> QED BY <1>2, <2>1, <3>1, HeightIs DEF Falls
  <2>4. ASSUME NEW a, proc' = [proc EXCEPT ![p].pc = "authorize", ![p].perr = 0,
                                           ![p].act = a]
        PROVE  Falls(proc[p], proc'[p])
    <3>1. proc'[p].pc = "authorize" /\ proc'[p].sid = proc[p].sid
      BY <1>1, <2>4 DEF Locals
    <3> QED BY <1>2, <2>1, <3>1, HeightIs DEF Falls
  <2> QED BY <1>5, <2>2, <2>3, <2>4 DEF AskLlm
<1>6. CASE Authorize(p)
  <2>1. proc[p].pc = "authorize" BY <1>6 DEF Authorize, At
  <2>2. CASE Pause(p, "PAUSED_INTERNAL_ERROR") BY <2>1, <2>2, PauseFalls
  <2>3. CASE proc' = [proc EXCEPT ![p].pc = "record", ![p].act = NoAction,
                                  ![p].step = proc[p].trk.steps + 1]
    <3>1. proc'[p].pc = "record" /\ proc'[p].sid = proc[p].sid
      BY <1>1, <2>3 DEF Locals
    <3> QED BY <1>2, <2>1, <3>1, HeightIs DEF Falls
  <2> QED BY <1>6, <2>2, <2>3 DEF Authorize
<1>7. CASE RecordStep(p)
  <2> DEFINE a == log[Sid(p)][proc[p].step]
             t == RecordedStep(proc[p].trk, a)
  <2>1. proc[p].pc = "record" /\ a \in Actions
    BY <1>7 DEF RecordStep, At, IInv, Shape, Sid
  <2>2. Dispatch(a) \in {"loop", "pause", "final", "execute"}
    BY <2>1, ActionsAssumption DEF Dispatch, Actions
  <2>3. proc' = [proc EXCEPT ![p].trk = t, ![p].pc = Dispatch(a)]
    BY <1>7 DEF RecordStep
  <2> HIDE DEF a, t
  <2>4. proc'[p].pc = Dispatch(a) /\ proc'[p].sid = proc[p].sid
    BY <1>1, <2>3 DEF Locals
  <2> QED BY <1>2, <2>1, <2>2, <2>4, HeightIs DEF Falls
<1>8. CASE FinalValidation(p)
  <2>1. proc[p].pc = "final" BY <1>8 DEF FinalValidation, At
  <2>2. proc'[p].pc = "conclude" /\ proc'[p].sid = proc[p].sid
    BY <1>8, FinalFacts DEF IInv
  <2> QED BY <1>2, <2>1, <2>2, HeightIs DEF Falls
<1>9. CASE Execute(p)
  <2>1. proc[p].pc = "execute" BY <1>9 DEF Execute, At
  <2>2. CASE ToolFailed(p) BY <2>1, <2>2, PauseFalls DEF ToolFailed
  <2>3. ASSUME NEW l \in {"fast", "run", "loop"}, Go(p, l)
        PROVE  Falls(proc[p], proc'[p])
    BY <1>2, <2>1, <2>3, GoFalls, HeightIs
  <2> QED BY <1>3, <1>9, <2>2, <2>3 DEF Execute
<1>10. CASE FastValidation(p)
  <2>1. proc[p].pc = "fast" BY <1>10 DEF FastValidation, At
  <2>2. PICK ok \in BOOLEAN :
          proc' = [proc EXCEPT ![p].trk = RecordedValidation(proc[p].trk, ok),
                               ![p].pc = AfterTool(p)]
    BY <1>10 DEF FastValidation
  <2>3. proc'[p].pc = AfterTool(p) /\ proc'[p].sid = proc[p].sid
    BY <1>1, <2>2 DEF Locals
  <2> QED BY <1>2, <1>3, <2>1, <2>3, HeightIs DEF Falls
<1> QED BY <1>4, <1>5, <1>6, <1>7, <1>8, <1>9, <1>10

\* A call to the model is paid for, which is why the next round costs less.
LEMMA RoundLemma ==
  ASSUME IInv, [Next]_vars, NEW p \in Procs, LoopTop(p) PROVE Rank(p)' < Rank(p)
<1> DEFINE t == proc[p].trk
           c == RecordedCall(t)
<1>1. proc[p].pc = "loop" /\ proc[p].pc \in InLoop BY DEF LoopTop, At, InLoop
<1>2. /\ TypeOK /\ Sid(p) = proc[p].sid /\ proc[p].sid \in Sessions
      /\ t \in Budgets /\ t = budget[proc[p].sid]
  BY <1>1, InLoopFacts
<1>3. CASE \E target : Pause(p, target)
  BY <1>1, <1>3, PauseFalls, FallsLemma
<1>4. CASE /\ ~StopReason(t, Sid(p)) /\ Save(p, c)
           /\ proc' = [proc EXCEPT ![p].pc = "ask", ![p].trk = c]
  <2>1. c \in Budgets /\ c.calls = t.calls + 1 BY <1>2, RecordedFacts
  <2>2. t.calls \in Nat /\ t.calls < MaxLlmCalls
    BY <1>2, <1>4, BudgetAssumption DEF StopReason, Budgets
  <2> HIDE DEF c, t
  <2>3. budget'[proc[p].sid] = c BY <1>2, <1>4, <2>1, SaveFacts
  <2>4. proc'[p].pc = "ask" /\ proc'[p].sid = proc[p].sid
    BY <1>2, <1>4 DEF TypeOK, Locals
  <2>5. "loop" \in Based /\ "ask" \in Based BY DEF Based, Pcs
  <2>6. Rank(p) = 7 * (MaxLlmCalls - t.calls) + 4
    BY <1>1, <1>2, <2>5, RoundsLeftIs, HeightIs DEF Rank
  <2>7. Rank(p)' = 7 * (MaxLlmCalls - (t.calls + 1)) + 10
    BY <2>1, <2>3, <2>4, <2>5, RoundsLeftIs, HeightIs DEF Rank
  <2> QED BY <2>2, <2>6, <2>7, BudgetAssumption
<1> QED BY <1>3, <1>4 DEF LoopTop

LEMMA CreateLemma ==
  ASSUME IInv, [Next]_vars, NEW p \in Procs, CreateSession(p) PROVE Rank(p)' < Rank(p)
<1>1. proc[p].pc = "create" /\ UNCHANGED budget BY DEF CreateSession, At
<1>2. CASE Go(p, "release")
  BY <1>1, <1>2, GoFalls, FallsLemma
<1>3. ASSUME NEW s \in Sessions, proc' = [proc EXCEPT ![p].pc = "run", ![p].sid = s]
      PROVE  Rank(p)' < Rank(p)
  <2>1. proc'[p].pc = "run" /\ proc'[p].sid = s BY <1>3 DEF IInv, TypeOK, Locals
  <2>2. budget[s].calls \in Nat /\ MaxLlmCalls \in Nat
    BY BudgetAssumption DEF IInv, TypeOK, Budgets
  <2>3. Rank(p) = 7 * MaxLlmCalls + 6
    BY <1>1, RoundsLeftIs, HeightIs DEF Rank
  <2>4. Rank(p)' = 7 * (MaxLlmCalls - budget[s].calls) + 5
    BY <1>1, <2>1, RoundsLeftIs, HeightIs DEF Rank, Based, Pcs
  <2> QED BY <2>2, <2>3, <2>4
<1> QED BY <1>2, <1>3 DEF CreateSession

-----------------------------------------------------------------------------
(* Every step                                                               *)

LEMMA OwnStepLowers ==
  ASSUME IInv, [Next]_vars, NEW p \in Procs, proc[p].pc # "idle", ProcStep(p)
  PROVE  Rank(p)' < Rank(p)
<1>1. ~Start(p) BY DEF Start, StartRun, StartResume, StartKeep, StartRollback, At
<1>2. CASE Engine(p)
  BY <1>2, EngineFalls, CommandFalls, FallsLemma, RoundLemma, CreateLemma DEF Engine
<1>3. CASE Resume(p) BY <1>3, ResumeFalls, CommandFalls, FallsLemma DEF Resume
<1>4. CASE Decide(p) \/ Release(p) \/ Failure(p) BY <1>4, CommandFalls, FallsLemma
<1> QED BY <1>1, <1>2, <1>3, <1>4 DEF ProcStep, Continue

\* Others can only make calls that are paid for.
LEMMA OtherStepKeeps ==
  ASSUME IInv, [Next]_vars, NEW p \in Procs, proc'[p] = proc[p]
  PROVE  Rank(p)' <= Rank(p)
<1> DEFINE r == proc[p]
           n == RoundsLeft(r, budget)
           m == RoundsLeft(r, budget')
<1>1. Rank(p) = 7 * n + Height(r) /\ Rank(p)' = 7 * m + Height(r) BY DEF Rank
<1>2. r \in Locals /\ Height(r) \in Nat
  BY HeightType, BudgetAssumption DEF IInv, TypeOK
<1>3. m <= n /\ m \in Int /\ n \in Int
  <2>1. CASE r.pc \in Based
    <3>1. r.sid \in Sessions BY <2>1 DEF IInv, Shape
    <3>2. IInv' BY NextIInv
    <3>3. budget[r.sid].calls \in Nat /\ budget'[r.sid].calls \in Nat
      BY <3>1, <3>2 DEF IInv, TypeOK, Budgets
    <3>4. budget[r.sid].calls <= budget'[r.sid].calls BY <3>1, <3>3, CallsKept
    <3>5. n = MaxLlmCalls - budget[r.sid].calls /\ m = MaxLlmCalls - budget'[r.sid].calls
      BY <2>1, RoundsLeftIs
    <3> QED BY <3>3, <3>4, <3>5, BudgetAssumption
  <2>2. CASE r.pc \notin Based
    <3>1. r.pc \in {"idle", "create", "release"} BY <1>2, <2>2 DEF Based, Locals
    <3> QED BY <3>1, RoundsLeftIs, BudgetAssumption
  <2> QED BY <2>1, <2>2
<1>4. \A x, y \in Int : \A h \in Nat : x <= y => 7 * x + h <= 7 * y + h OBVIOUS
<1> HIDE DEF n, m, r
<1> QED BY <1>1, <1>2, <1>3, <1>4

\* Every command that is not stopped comes to its end within Longest steps of its
\* own, for any number of processes and sessions, whatever the model answers and
\* whatever the users of other commands do meanwhile: the budgets bound the loop,
\* and a lock that is taken is not waited for (stop_reason, WorkspaceLock).
THEOREM CommandsAreBounded == Spec => RankFalls
<1> DEFINE Lowered ==
      \A p \in Procs : ~At(p, "idle") =>
        IF UNCHANGED proc[p] THEN Rank(p)' <= Rank(p) ELSE Rank(p)' < Rank(p)
<1>1. IInv => \A p \in Procs : Rank(p) \in 0..Longest BY RankType
<1>2. IInv /\ SInv /\ [Next]_vars => Lowered
  BY OwnStepLowers, OtherStepKeeps, OneMoves DEF At
<1> QED BY <1>1, <1>2, InitSInv, NextSInv, PTL DEF Spec, RankFalls, SInv
=============================================================================
