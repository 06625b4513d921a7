--------------------------- MODULE ChangeJournal ---------------------------
(***************************************************************************)
(* The files of one session: what FileTools does to them, the rows and the *)
(* backups that ChangeJournal keeps, the drift check of a resume, and      *)
(* `cah changes rollback`, which takes no lock and may run beside a tool.  *)
(*                                                                         *)
(* Contents stand for the bytes of a file and for their SHA-256.           *)
(*                                                                         *)
(* Operators named Bug_X are wrong versions of X, which no specification   *)
(* uses: with X replaced by Bug_X, the run must find a property violated.  *)
(***************************************************************************)
EXTENDS Naturals, Sequences, FiniteSets

CONSTANTS
  Paths,
  Contents,
  Missing,     \* no file; the after_digest "missing"
  Open,        \* after_digest NULL: the change has not been finished
  MaxRows,     \* rows of the changes table (a bound)
  MaxFaults,   \* exceptions and crashes (a bound)
  MaxForeign   \* edits made by other programs (a bound)

ASSUME PathsAssumption == Paths # {}
ASSUME ContentsAssumption ==
  Missing \notin Contents /\ Open \notin Contents \cup {Missing}
ASSUME BoundsAssumption == {MaxRows, MaxFaults, MaxForeign} \subseteq Nat

File == Contents \cup {Missing}

VARIABLES
  disk,      \* the files of the workspace
  rows,      \* the changes table, by sequence
  backup,    \* the files of the backup directory, by number
  tool,      \* the file tool of the engine
  undo,      \* the rollback command
  faults, foreign,   \* used up from MaxFaults and MaxForeign
  orig,      \* history: each file before the session first wrote it
  left,      \* history: each file as the session's tools last wrote it
  raced,     \* history: files that changed under a tool at work on them
  calm       \* history: nobody else wrote since the rollback's check

journal == <<rows, backup>>
history == <<orig, left, raced, calm>>
vars == <<disk, journal, tool, undo, faults, foreign, history>>

Ops == {"create", "modify", "delete"}

NoTool ==
  [pc |-> "idle", op |-> "modify", path |-> CHOOSE p \in Paths : TRUE,
   raw |-> Missing, new |-> Missing, before |-> Missing]

NoUndo == [pc |-> "idle", todo |-> 0]

\* The paths that the tools of the session have written.
Touched == {p \in Paths : left[p] # Open}

Init ==
  /\ disk \in [Paths -> File]
  /\ rows = <<>>
  /\ backup = [n \in 1..MaxRows |-> Missing]
  /\ tool = NoTool
  /\ undo = NoUndo
  /\ faults = 0 /\ foreign = 0
  /\ orig = [p \in Paths |-> Open]
  /\ left = [p \in Paths |-> Open]
  /\ raced = {}
  /\ calm = TRUE

Fault == faults < MaxFaults /\ faults' = faults + 1

\* p, if the tool has stored its bytes, or found it missing, and has not
\* written it yet.
AtWork(p) ==
  IF /\ \/ tool.pc \in {"row", "write"}
        \/ tool.pc = "backup" /\ tool.op = "create"
     /\ tool.path = p
  THEN {p} ELSE {}

Go(l) == tool' = [tool EXCEPT !.pc = l]

-----------------------------------------------------------------------------
(* FileTools.replace, create and delete                                     *)

\* The tool looks at its target. A replace keeps the bytes it read; its new
\* text may be the old one.
Begin(op, p, new) ==
  /\ tool.pc = "idle"
  /\ Len(rows) < MaxRows
  /\ CASE op = "modify" -> disk[p] # Missing /\ new \in Contents
       [] op = "create" -> disk[p] = Missing /\ new \in Contents
       [] op = "delete" -> disk[p] # Missing /\ new = Missing
  /\ tool' = [pc |-> "backup", op |-> op, path |-> p, raw |-> disk[p],
              new |-> new, before |-> Missing]
  /\ UNCHANGED <<disk, journal, undo, faults, foreign, history>>

\* The number of the backup file is the number of rows so far.
Slot == Len(rows) + 1

\* _durable_write replaces a file that an interrupted change left behind.
\* An existing backup is kept.
Bug_Stored(n, b) == IF backup[n] = Missing THEN b ELSE backup[n]
Stored(n, b) == b

\* record_before_change reads the target again and stores what it finds.
Backup ==
  /\ tool.pc = "backup"
  /\ LET b == disk[tool.path] IN
     /\ tool' = [tool EXCEPT !.pc = "row", !.before = b]
     /\ backup' = IF b = Missing THEN backup
                  ELSE [backup EXCEPT ![Slot] = Stored(Slot, b)]
  /\ UNCHANGED <<disk, rows, undo, faults, foreign, history>>

\* create_change: the row precedes the write.
InsertRow ==
  /\ tool.pc = "row"
  /\ rows' = Append(rows,
       [path |-> tool.path, op |-> tool.op, before |-> tool.before,
        after |-> Open, ref |-> IF tool.before = Missing THEN 0 ELSE Slot])
  /\ Go("write")
  /\ UNCHANGED <<disk, backup, undo, faults, foreign, history>>

\* The atomic write, or the unlink, which fails when the file is gone.
Write ==
  LET p == tool.path IN
  /\ tool.pc = "write"
  /\ \/ /\ tool.op = "delete" /\ disk[p] = Missing
        /\ Go("ended")
        /\ UNCHANGED <<disk, history>>
     \/ /\ tool.op = "delete" => disk[p] # Missing
        /\ disk' = [disk EXCEPT ![p] = tool.new]
        /\ orig' = IF p \in Touched THEN orig ELSE [orig EXCEPT ![p] = disk[p]]
        /\ left' = [left EXCEPT ![p] = tool.new]
        /\ calm' = FALSE
        /\ Go("finish")
        /\ UNCHANGED raced
  /\ UNCHANGED <<journal, undo, faults, foreign>>

\* finish_change records the digest of what the tool meant to write.
\* That of what it found is recorded.
Bug_Digest == tool.before
Digest == tool.new

Finish ==
  /\ tool.pc = "finish"
  /\ rows' = [rows EXCEPT ![Len(rows)].after = Digest]
  /\ tool' = NoTool
  /\ UNCHANGED <<disk, backup, undo, faults, foreign, history>>

\* A step of the tool raises: the engine hands over to the user, and no tool
\* of the session runs again. Only replace undoes its write, if it can.
ToolFails ==
  /\ tool.pc \in {"backup", "row", "write", "finish"}
  /\ \/ UNCHANGED <<disk, left, calm>>
     \/ /\ tool.pc = "finish" /\ tool.op = "modify"
        /\ disk' = [disk EXCEPT ![tool.path] = tool.raw]
        /\ left' = [left EXCEPT ![tool.path] = tool.raw]
        /\ calm' = FALSE
  /\ tool' = [NoTool EXCEPT !.pc = "ended"]
  /\ Fault
  /\ UNCHANGED <<journal, undo, foreign, orig, raced>>

\* Ctrl-C or a crash: no handler runs. Backups may be left without a row.
Crash ==
  /\ tool.pc \in {"idle", "backup", "row", "write", "finish"}
  /\ tool' = [NoTool EXCEPT !.pc = "down"]
  /\ Fault
  /\ UNCHANGED <<disk, journal, undo, foreign, history>>

\* find_drift_in: a change that was not finished matches nothing.
\* A change without an after_digest is left out of the check.
Bug_Matches(r) == r.after \in {disk[r.path], Open}
Matches(r) == r.after = disk[r.path]
Drift == \E i \in 1..Len(rows) : ~Matches(rows[i])

Resume ==
  /\ tool.pc = "down"
  /\ tool' = [NoTool EXCEPT !.pc = IF Drift THEN "ended" ELSE "idle"]
  /\ UNCHANGED <<disk, journal, undo, faults, foreign, history>>

-----------------------------------------------------------------------------
(* ChangeJournal.rollback                                                   *)

\* Every row must match its file. The files are read one after the other, but
\* reading one commutes with writing another, so one step stands for all.
UndoCheck ==
  /\ undo.pc = "idle"
  /\ ~Drift
  /\ rows # <<>>
  /\ undo' = [pc |-> "restore", todo |-> Len(rows)]
  /\ calm' = TRUE
  /\ UNCHANGED <<disk, journal, tool, faults, foreign, orig, left, raced>>

\* workspace_drift: nothing is written.
UndoRefuse ==
  /\ undo.pc = "idle"
  /\ Drift
  /\ undo' = [NoUndo EXCEPT !.pc = "refused"]
  /\ UNCHANGED <<disk, journal, tool, faults, foreign, history>>

\* The last change is undone first.
\* The changes are undone in the order they were made.
Bug_NextRow == rows[Len(rows) + 1 - undo.todo]
NextRow == rows[undo.todo]

\* A created file is unlinked, any other gets its backup, whose digest must be
\* the one recorded.
CanUndo(r) ==
  IF r.op = "create" THEN disk[r.path] # Missing
  ELSE r.ref # 0 /\ backup[r.ref] = r.before

Undone(r) ==
  [disk EXCEPT ![r.path] = IF r.op = "create" THEN Missing ELSE backup[r.ref]]

\* An error stops the rollback where it is.
UndoRow ==
  /\ undo.pc = "restore" /\ undo.todo # 0
  /\ IF CanUndo(NextRow)
     THEN /\ disk' = Undone(NextRow)
          /\ raced' = raced \cup AtWork(NextRow.path)
          /\ undo' = [undo EXCEPT !.todo = @ - 1]
     ELSE /\ undo' = [NoUndo EXCEPT !.pc = "failed"]
          /\ UNCHANGED <<disk, raced>>
  /\ UNCHANGED <<journal, tool, faults, foreign, orig, left, calm>>

UndoDone ==
  /\ undo.pc = "restore" /\ undo.todo = 0
  /\ undo' = [NoUndo EXCEPT !.pc = "done"]
  /\ UNCHANGED <<disk, journal, tool, faults, foreign, history>>

\* It stops half way; the user may type the command again, then and later.
UndoStops ==
  /\ undo.pc = "restore"
  /\ undo' = [NoUndo EXCEPT !.pc = "failed"]
  /\ Fault
  /\ UNCHANGED <<disk, journal, tool, foreign, history>>

UndoAgain ==
  /\ undo.pc \in {"refused", "failed", "done"}
  /\ undo' = NoUndo
  /\ UNCHANGED <<disk, journal, tool, faults, foreign, history>>

-----------------------------------------------------------------------------
\* Another program writes, creates or deletes a file.
ForeignEdit(p, c) ==
  /\ foreign < MaxForeign
  /\ foreign' = foreign + 1
  /\ disk[p] # c
  /\ disk' = [disk EXCEPT ![p] = c]
  /\ raced' = raced \cup AtWork(p)
  /\ calm' = FALSE
  /\ UNCHANGED <<journal, tool, undo, faults, orig, left>>

Next ==
  \/ \E op \in Ops, p \in Paths, new \in File : Begin(op, p, new)
  \/ Backup \/ InsertRow \/ Write \/ Finish \/ ToolFails \/ Crash \/ Resume
  \/ UndoCheck \/ UndoRefuse \/ UndoRow \/ UndoDone \/ UndoStops \/ UndoAgain
  \/ \E p \in Paths, c \in File : ForeignEdit(p, c)

Spec == Init /\ [][Next]_vars

-----------------------------------------------------------------------------
Row == [path : Paths, op : Ops, before : File, after : File \cup {Open},
        ref : 0..MaxRows]

TypeOK ==
  /\ disk \in [Paths -> File]
  /\ rows \in Seq(Row)
  /\ Len(rows) <= MaxRows
  /\ backup \in [1..MaxRows -> File]
  /\ tool \in [pc : {"idle", "backup", "row", "write", "finish", "ended", "down"},
               op : Ops, path : Paths, raw : File, new : File, before : File]
  /\ undo \in [pc : {"idle", "restore", "refused", "failed", "done"},
               todo : 0..MaxRows]
  /\ faults \in Nat /\ foreign \in Nat
  /\ orig \in [Paths -> File \cup {Open}]
  /\ left \in [Paths -> File \cup {Open}]
  /\ raced \subseteq Paths
  /\ calm \in BOOLEAN

\* A row's backup holds the content the row recorded, for ever: no later change
\* of the session, finished or not, reuses the file.
BackupIntegrity ==
  \A i \in 1..Len(rows) :
    LET r == rows[i] IN
    IF r.before = Missing THEN r.ref = 0
    ELSE r.ref \in 1..MaxRows /\ backup[r.ref] = r.before

\* The first row of a path, and the content it says the file had.
FirstRow(p) ==
  LET I == {i \in 1..Len(rows) : rows[i].path = p}
  IN CHOOSE i \in I : \A j \in I : i <= j

\* At any moment, in the middle of a tool or of a crash, what the session has
\* overwritten can be got back: each file it wrote has a row, whose first
\* one names a backup of the bytes that were there (record_before_change comes
\* before the write). Files that changed under a tool at work are lost.
OriginalsKept ==
  /\ TypeOK /\ BackupIntegrity
  /\ \A p \in Touched :
    /\ \E i \in 1..Len(rows) : rows[i].path = p
    /\ p \notin raced =>
         /\ rows[FirstRow(p)].before = orig[p]
         /\ orig[p] # Missing => backup[rows[FirstRow(p)].ref] = orig[p]

\* The drift check (find_drift_in) sees every change that was made behind the
\* session's back before it looked: if it finds none, each file the session
\* wrote is, at that moment, as its tools left it. It does not keep it that way:
\* a rollback looks at all rows before it writes the first, and overwrites what
\* somebody writes in between.
DriftSeen == ~Drift => \A p \in Touched : disk[p] = left[p]

\* A rollback that ends without an error, and beside which nobody else wrote,
\* has put back every file the session wrote, and its created files are gone.
RollbackRestores ==
  undo.pc = "done" /\ calm =>
    \A p \in Touched \ raced : disk[p] = orig[p]

\* A rollback refuses for one of three reasons and for no other: a change has no
\* digest, because its tool was interrupted or is still at work, a file was
\* changed twice by the session, or a file is not as its tools left it, be it
\* that somebody else wrote it or that a rollback which stopped half way did.
RefusedForReason ==
  [][UndoRefuse =>
       \/ \E i \in 1..Len(rows) : rows[i].after = Open
       \/ \E i, j \in 1..Len(rows) : i # j /\ rows[i].path = rows[j].path
       \/ \E p \in Touched : disk[p] # left[p]]_vars
=============================================================================
