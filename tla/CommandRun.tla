----------------------------- MODULE CommandRun -----------------------------
(***************************************************************************)
(* One command of a session: CommandRunner.run starts a process, waits for *)
(* its output to end, and kills it when its time is over. The process may  *)
(* start others, which write to the same pipes, live longer than it does   *)
(* and, on POSIX, leave its process group. The user can press Ctrl-C, and  *)
(* the harness itself can be killed.                                       *)
(*                                                                         *)
(* Processes, groups and pipes are modelled as the code relies on them:    *)
(* communicate() returns when every writing end of the pipes is closed and *)
(* the process has exited; killpg reaches all of a group; taskkill /T goes *)
(* down from a process through the children of those that still exist.     *)
(*                                                                         *)
(* Operators named Bug_X are wrong versions of X, which no specification   *)
(* uses: with X replaced by Bug_X, a run must find its property violated.  *)
(***************************************************************************)
CONSTANTS
  Leader,      \* the process that Popen starts
  Descendants  \* the processes it may start, directly or not (a bound)

ASSUME LeaderAssumption == Leader \notin Descendants

Platforms == {"posix", "nt"}
Tree == {Leader} \cup Descendants

VARIABLES
  platform,  \* os.name
  pc,        \* where CommandRunner.run is
  result,    \* "none", or how the command ended
  lock,      \* whose the workspace lock is: "this", "free" or "next"
  running,   \* the processes that exist
  started,   \* the processes that have ever existed
  above,     \* of a process: its parent, its parent's parent, ...
  group,     \* the processes in the group of the leader
  writers,   \* the processes with a writing end of the pipes
  escaped    \* history: the processes that got out of reach by what they, or
             \* those above them, did

harness == <<platform, pc, result, lock>>
processes == <<running, started, above, group, writers, escaped>>
vars == <<harness, processes>>

Init ==
  /\ platform \in Platforms
  /\ pc = "ready"
  /\ result = "none"
  /\ lock = "this"
  /\ running = {} /\ started = {} /\ group = {} /\ writers = {} /\ escaped = {}
  /\ above = [p \in Tree |-> {}]

-----------------------------------------------------------------------------
(* CommandRunner.run                                                        *)

\* Popen, with start_new_session or CREATE_NEW_PROCESS_GROUP.
Spawn ==
  /\ pc = "ready"
  /\ pc' = "wait"
  /\ running' = {Leader} /\ started' = {Leader}
  /\ group' = {Leader} /\ writers' = {Leader}
  /\ UNCHANGED <<platform, result, lock, above, escaped>>

\* Popen raises OSError, or an earlier check ValueError.
SpawnFails ==
  /\ pc = "ready"
  /\ pc' = "ended"
  /\ result' = "error"
  /\ UNCHANGED <<platform, lock, processes>>

\* What communicate() waits for.
Drained == writers = {} /\ Leader \notin running

\* The result that is returned: exit_code is None after a timeout.
Outcome(timedOut) == IF timedOut THEN "timeout" ELSE "completed"

Complete ==
  /\ pc = "wait"
  /\ Drained
  /\ pc' = "ended"
  /\ result' = Outcome(FALSE)
  /\ UNCHANGED <<platform, lock, processes>>

\* TimeoutExpired.
Timeout ==
  /\ pc = "wait"
  /\ pc' = "kill"
  /\ UNCHANGED <<platform, result, lock, processes>>

\* killpg on POSIX, taskkill /T on Windows.
\* os.kill: the process alone.
Bug_Reached == {Leader} \cap running
Reached ==
  IF platform = "posix" THEN group \cap running
                        ELSE {p \in running : above[p] \subseteq running}

KillTree ==
  /\ pc = "kill"
  /\ pc' = "drain"
  /\ running' = running \ Reached
  /\ writers' = writers \ Reached
  /\ UNCHANGED <<platform, result, lock, started, above, group, escaped>>

\* The second communicate() has no timeout.
Drain ==
  /\ pc = "drain"
  /\ Drained
  /\ pc' = "ended"
  /\ result' = Outcome(TRUE)
  /\ UNCHANGED <<platform, lock, processes>>

\* KeyboardInterrupt: the processes of the command are not in the foreground
\* group and do not get the signal.
Interrupt ==
  /\ pc \in {"wait", "kill", "drain"}
  /\ pc' = "ended"
  /\ result' = "interrupted"
  /\ UNCHANGED <<platform, lock, processes>>

\* The harness dies. The lock file stays.
Kill ==
  /\ pc \in {"wait", "kill", "drain"}
  /\ pc' = "dead"
  /\ UNCHANGED <<platform, result, lock, processes>>

-----------------------------------------------------------------------------
(* The session goes on, or ends and releases the lock (the finally of run   *)
(* and resume_and_run); another one takes it.                               *)

\* The lock is released when the time of the command is over.
Bug_Over == pc \in {"kill", "drain", "ended"}
Over == pc = "ended"

Release ==
  /\ Over /\ lock = "this"
  /\ lock' = "free"
  /\ UNCHANGED <<platform, pc, result, processes>>

Acquire ==
  /\ lock = "free"
  /\ lock' = "next"
  /\ UNCHANGED <<platform, pc, result, processes>>

-----------------------------------------------------------------------------
(* The processes of the command                                             *)

With(S, q, p) == IF p \in S THEN S \cup {q} ELSE S

Fork(p) ==
  /\ p \in running
  /\ \E q \in Descendants \ started :
       /\ running' = running \cup {q} /\ started' = started \cup {q}
       /\ above' = [above EXCEPT ![q] = above[p] \cup {p}]
       /\ group' = With(group, q, p)
       /\ writers' = With(writers, q, p)
       /\ escaped' = With(escaped, q, p)
  /\ UNCHANGED harness

\* setsid or setpgid. The leader of a session cannot leave it.
LeaveGroup(p) ==
  /\ platform = "posix" /\ p \in running \ {Leader}
  /\ group' = group \ {p}
  /\ escaped' = escaped \cup {p}
  /\ UNCHANGED <<harness, running, started, above, writers>>

\* It closes or redirects its output.
CloseOutput(p) ==
  /\ p \in writers
  /\ writers' = writers \ {p}
  /\ UNCHANGED <<harness, running, started, above, group, escaped>>

Exit(p) ==
  /\ p \in running
  /\ running' = running \ {p}
  /\ writers' = writers \ {p}
  /\ escaped' = IF platform = "posix" THEN escaped
                ELSE escaped \cup {q \in running : p \in above[q]}
  /\ UNCHANGED <<harness, started, above, group>>

Runner == Spawn \/ SpawnFails \/ Complete \/ Timeout \/ KillTree \/ Drain

Next ==
  \/ Runner \/ Interrupt \/ Kill \/ Release \/ Acquire
  \/ \E p \in Tree : Fork(p) \/ LeaveGroup(p) \/ CloseOutput(p) \/ Exit(p)

Spec == Init /\ [][Next]_vars

\* What the runner can do, it does at last; of the processes nothing is known.
LiveSpec == Spec /\ WF_vars(Runner)

-----------------------------------------------------------------------------
Busy == pc \in {"wait", "kill", "drain"}

TypeOK ==
  /\ platform \in Platforms
  /\ pc \in {"ready", "ended", "dead"} \/ Busy
  /\ result \in {"none", "completed", "timeout", "error", "interrupted"}
  /\ lock \in {"this", "free", "next"}
  /\ running \subseteq started /\ started \subseteq Tree
  /\ writers \subseteq running
  /\ {group, escaped} \subseteq SUBSET started
  /\ above \in [Tree -> SUBSET Tree]

\* However long its processes run, a command ends, unless one of them got out
\* of reach: time limits bound the tools and validators of the engine.
EndsUnlessEscaped == Busy ~> (~ Busy \/ escaped # {})

\* After a timeout no process of the command is left that was still within
\* reach when it was killed, in whatever order processes were started and ended:
\* the next step of the session meets none of them. What is left of any command
\* when another session has got the workspace has escaped, or closed its output
\* so that the command could end without it, unless the user pressed Ctrl-C,
\* which kills nothing (the lock is released in the finally of run and of
\* resume_and_run).
NothingLeft ==
  /\ TypeOK
  /\ result = "timeout" => running \subseteq escaped
  /\ lock = "next" /\ result # "interrupted" =>
       \A p \in running : p \in escaped \/ (result = "completed" /\ p \notin writers)
=============================================================================
