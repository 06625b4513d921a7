---------------------------- MODULE AuditOutbox ----------------------------
(***************************************************************************)
(* The audit trail: events are inserted into the outbox table in the       *)
(* transaction that makes the state change they report, and moved from     *)
(* there to the append-only file events.jsonl by StateStore.flush_audit,   *)
(* which every process of the harness may be running.                      *)
(*                                                                         *)
(* A command (PolicyGateway.authorize, the methods of ApprovalService)     *)
(* flushes what is left over, commits its own change, flushes again and    *)
(* only then goes on: its effect must be preceded by its events.           *)
(*                                                                         *)
(* Operators named Bug_X are wrong versions of X, which no specification   *)
(* uses: with X replaced by Bug_X, the run must find a property violated.  *)
(***************************************************************************)
EXTENDS Naturals, Sequences, FiniteSets

CONSTANTS
  Procs,
  NoProc,      \* nobody holds the write lock of the database
  MaxEvents,   \* rows of the outbox (a bound)
  MaxFaults    \* crashes, failed appends and failed commits (a bound)

ASSUME NoProcAssumption == NoProc \notin Procs
ASSUME BoundsAssumption == MaxEvents \in Nat /\ MaxFaults \in Nat

Events == 1..MaxEvents

VARIABLES
  last,      \* the highest sequence of the outbox (AUTOINCREMENT)
  flushed,   \* the rows with flushed_at set
  file,      \* the lines of events.jsonl: an event, and how it is readable
  writer,    \* who is inside BEGIN IMMEDIATE
  pc,
  row,       \* the event that a flush has in hand
  mine,      \* the last event of the change that the command committed
  acted,     \* history: the last events of the changes acted upon
  faults

vars == <<last, flushed, file, writer, pc, row, mine, acted, faults>>

\* A line that is cut short, by a full disk or a crash, has no newline: the
\* next one continues it. Its own text is all there, but not on a line alone.
Kinds == {"whole", "torn", "glued"}
\* A line is written without its newline.
Bug_Line(e, torn) ==
  [event |-> e,
   kind |-> IF torn THEN "torn" ELSE IF file # <<>> THEN "glued" ELSE "whole"]
Line(e, torn) ==
  [event |-> e,
   kind |-> IF torn THEN "torn"
            ELSE IF file # <<>> /\ file[Len(file)].kind = "torn"
            THEN "glued" ELSE "whole"]

Written == {file[i].event : i \in {j \in 1..Len(file) : file[j].kind # "torn"}}

Unflushed == (1..last) \ flushed

\* SELECT ... WHERE flushed_at IS NULL ORDER BY sequence LIMIT 1.
\* Without ORDER BY any row may come first.
Bug_IsNext(e) == e \in Unflushed
IsNext(e) == e \in Unflushed /\ \A f \in Unflushed : e <= f

\* BEGIN IMMEDIATE admits one writer.
Unlocked == writer = NoProc

Fault == faults < MaxFaults /\ faults' = faults + 1

Init ==
  /\ last = 0
  /\ flushed = {}
  /\ file = <<>>
  /\ writer = NoProc
  /\ pc = [p \in Procs |-> "idle"]
  /\ row = [p \in Procs |-> 0]
  /\ mine = [p \in Procs |-> 0]
  /\ acted = {}
  /\ faults = 0

Go(p, l) == pc' = [pc EXCEPT ![p] = l]

\* The command raises; an open transaction is rolled back.
Raise(p) ==
  /\ pc' = [pc EXCEPT ![p] = "idle"]
  /\ row' = [row EXCEPT ![p] = 0]
  /\ mine' = [mine EXCEPT ![p] = 0]
  /\ writer' = IF writer = p THEN NoProc ELSE writer

\* The command begins with the flush of what others left over.
Start(p) ==
  /\ pc[p] = "idle"
  /\ Go(p, "flush")
  /\ UNCHANGED <<last, flushed, file, writer, row, mine, acted, faults>>

\* A transaction of the command commits its change with one event or, when
\* authorize also requests an approval, with three.
Enqueue(p) ==
  /\ pc[p] = "change"
  /\ Unlocked
  /\ \E n \in {1, 3} :
       /\ last + n \in Events
       /\ last' = last + n
       /\ mine' = [mine EXCEPT ![p] = last + n]
  /\ Go(p, "flush")
  /\ UNCHANGED <<flushed, file, writer, row, acted, faults>>

\* BEGIN IMMEDIATE gives up when another process keeps the database locked.
\* The failed flush is ignored: the events are in the outbox, after all.
Bug_Busy(p) ==
  /\ pc[p] \in {"flush", "change"}
  /\ writer # NoProc
  /\ acted' = acted \cup ({mine[p]} \ {0})
  /\ Raise(p)
  /\ UNCHANGED <<last, flushed, file, faults>>
Busy(p) ==
  /\ pc[p] \in {"flush", "change"}
  /\ writer # NoProc
  /\ Raise(p)
  /\ UNCHANGED <<last, flushed, file, acted, faults>>

\* One round of flush_audit takes the oldest row that is not flushed.
BeginRound(p) ==
  /\ pc[p] = "flush"
  /\ Unlocked
  /\ \E e \in Unflushed :
       /\ IsNext(e)
       /\ row' = [row EXCEPT ![p] = e]
  /\ writer' = p
  /\ Go(p, "append")
  /\ UNCHANGED <<last, flushed, file, mine, acted, faults>>

\* The first flush is over.
FlushedOld(p) ==
  /\ pc[p] = "flush" /\ mine[p] = 0
  /\ Unlocked
  /\ Unflushed = {}
  /\ Go(p, "change")
  /\ UNCHANGED <<last, flushed, file, writer, row, mine, acted, faults>>

\* The second flush is over: the command returns and its caller acts.
FlushedNew(p) ==
  /\ pc[p] = "flush" /\ mine[p] # 0
  /\ Unlocked
  /\ Unflushed = {}
  /\ acted' = acted \cup {mine[p]}
  /\ Go(p, "idle")
  /\ mine' = [mine EXCEPT ![p] = 0]
  /\ UNCHANGED <<last, flushed, file, writer, row, faults>>

\* AuditWriter.append: open with O_APPEND, write, flush, fsync.
AppendLine(p) ==
  /\ pc[p] = "append"
  /\ file' = Append(file, Line(row[p], FALSE))
  /\ Go(p, "mark")
  /\ UNCHANGED <<last, flushed, writer, row, mine, acted, faults>>

\* It fails with nothing written, with part of the line written, or, in fsync,
\* with all of it written. A process can be killed at these points too.
\* The failure is swallowed and the row marked.
Bug_AppendFails(p) ==
  /\ pc[p] = "append"
  /\ UNCHANGED file
  /\ Go(p, "mark")
  /\ Fault
  /\ UNCHANGED <<last, flushed, writer, row, mine, acted>>
AppendFails(p) ==
  /\ pc[p] = "append"
  /\ \/ UNCHANGED file
     \/ \E torn \in BOOLEAN : file' = Append(file, Line(row[p], torn))
  /\ Raise(p)
  /\ Fault
  /\ UNCHANGED <<last, flushed, acted>>

\* UPDATE ... SET flushed_at, COMMIT, and the next round.
Mark(p) ==
  /\ pc[p] = "mark"
  /\ flushed' = flushed \cup {row[p]}
  /\ row' = [row EXCEPT ![p] = 0]
  /\ writer' = NoProc
  /\ Go(p, "flush")
  /\ UNCHANGED <<last, file, mine, acted, faults>>

\* The commit fails, or the process dies: the row stays unflushed.
Fail(p) ==
  /\ pc[p] \in {"flush", "change", "mark"}
  /\ Raise(p)
  /\ Fault
  /\ UNCHANGED <<last, flushed, file, acted>>

Step(p) ==
  \/ Enqueue(p) \/ BeginRound(p) \/ FlushedOld(p) \/ FlushedNew(p)
  \/ AppendLine(p) \/ Mark(p)

Next ==
  \E p \in Procs :
    Start(p) \/ Step(p) \/ Busy(p) \/ AppendFails(p) \/ Fail(p)

Spec == Init /\ [][Next]_vars

-----------------------------------------------------------------------------
Pcs == {"idle", "flush", "change", "append", "mark"}

TypeOK ==
  /\ last \in Events \cup {0}
  /\ flushed \subseteq Events
  /\ file \in Seq([event : Events, kind : Kinds])
  /\ writer \in Procs \cup {NoProc}
  /\ pc \in [Procs -> Pcs]
  /\ row \in [Procs -> Events \cup {0}]
  /\ mine \in [Procs -> Events \cup {0}]
  /\ acted \subseteq Events
  /\ faults \in Nat

\* The file tells the events in the order of their sequence, with no gap: each
\* line repeats the event of the line before it or gives the next one. A row
\* marked as flushed has its text in the file, whoever appended it and wherever
\* that process stopped afterwards.
FileOrdered ==
  /\ TypeOK
  /\ flushed \subseteq Written
  /\ file # <<>> => file[1].event = 1
  /\ \A i \in 1..(Len(file) - 1) :
       file[i + 1].event \in {file[i].event, file[i].event + 1}

\* A command goes on only when its events, and all that came before them, are
\* in the file (authorize returns a grant after the second flush).
ActAfterAudit == \A e \in acted : 1..e \subseteq Written

\* Delivery is at least once, and what goes wrong with it is bounded by what
\* has failed: every copy too many, and every event that is in the file with its
\* row still unflushed, is the trace of a failure or of the one flush under way.
\* Of the events whose row is marked, one for each failure at most has no line of
\* its own: a retry after a torn write continues that line and marks the row.
Readable(e) == \E i \in 1..Len(file) : file[i] = [event |-> e, kind |-> "whole"]

DamageBounded ==
  /\ Len(file) <= Cardinality(flushed) + faults
                  + Cardinality({p \in Procs : pc[p] = "mark"})
  /\ Cardinality({e \in flushed : ~ Readable(e)}) <= faults

-----------------------------------------------------------------------------
\* Commands keep coming, and a command that was started runs on. BEGIN
\* IMMEDIATE waits for the lock longer than a transaction takes, so a command
\* that starts again and again gets it.
LiveSpec ==
  /\ Spec
  /\ \A p \in Procs :
       WF_vars(Start(p)) /\ SF_vars(BeginRound(p)) /\ WF_vars(Step(p))

\* Every event that was committed reaches the file.
EventuallyWritten == \A e \in Events : e <= last ~> e \in Written
=============================================================================
