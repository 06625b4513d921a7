------------------------ MODULE ChangeJournalProofs -------------------------
(***************************************************************************)
(* Proofs about ChangeJournal, for any number of files, contents, rows and *)
(* faults: what was overwritten can be got back, the drift check misses    *)
(* nothing, and a rollback restores or refuses with a reason.              *)
(*                                                                         *)
(* The properties speak of the first row of a path. That there is one is   *)
(* kept as an invariant (HasFirst), since a row is only ever appended.     *)
(***************************************************************************)
EXTENDS ChangeJournal, TLAPS

-----------------------------------------------------------------------------
(* The inductive invariant                                                  *)

IsFirst(p, i) ==
  /\ i \in 1..Len(rows)
  /\ rows[i].path = p
  /\ \A j \in 1..Len(rows) : rows[j].path = p => i <= j

\* The journal and the tool that writes it. A tool has room for its row, it
\* has stored what the row will say, and the row it writes is the last one.
Room == tool.pc \in {"backup", "row"} => Len(rows) < MaxRows

HasStored ==
  tool.pc = "row" /\ tool.before # Missing => backup[Slot] = tool.before

InHand ==
  tool.pc \in {"write", "finish"} =>
    /\ Len(rows) # 0
    /\ LET r == rows[Len(rows)] IN
       r.path = tool.path /\ r.op = tool.op /\ r.before = tool.before /\ r.after = Open

Numbered == \A i \in 1..Len(rows) : rows[i].ref \in {0, i}

HasFirst ==
  \A p \in Paths, i \in 1..Len(rows) :
    rows[i].path = p => \E k \in 1..Len(rows) : IsFirst(p, k)

\* The rollback is at one of the rows.
Position == undo.todo <= Len(rows) /\ (undo.pc # "restore" => undo.todo = 0)

JInv ==
  /\ TypeOK /\ Room /\ HasStored /\ InHand /\ Numbered /\ BackupIntegrity /\ HasFirst
  /\ Position

\* The changes and the files. Only the change in hand, or an interrupted one, is
\* not finished, and a finished one was made.
Closed ==
  \A i \in 1..Len(rows) : rows[i].after = Open =>
    \/ tool.pc \in {"ended", "down"}
    \/ tool.pc \in {"write", "finish"} /\ i = Len(rows)

Written == \A i \in 1..Len(rows) : rows[i].after # Open => rows[i].path \in Touched

Finishing == tool.pc = "finish" => left[tool.path] = tool.new

Witnessed ==
  \A p \in Touched : \E i \in 1..Len(rows) :
    rows[i].path = p /\ rows[i].after \in {left[p], Open}

WInv == Closed /\ Written /\ Finishing /\ Witnessed

\* The originals. What a tool found is there until it writes, a created file
\* was not there before, and the first row of a path says what was.
Seen ==
  tool.path \notin raced =>
    /\ tool.pc \in {"row", "write"} => disk[tool.path] = tool.before
    /\ tool.op = "create" =>
         /\ tool.pc = "backup" => disk[tool.path] = Missing
         /\ tool.pc \in {"row", "write"} => tool.before = Missing

Created ==
  \A i \in 1..Len(rows) :
    rows[i].op = "create" /\ rows[i].path \notin raced => rows[i].before = Missing

Kept ==
  \A p \in Touched \ raced, i \in 1..Len(rows) :
    IsFirst(p, i) => rows[i].before = orig[p]

OInv == Seen /\ Created /\ Kept

\* The rollback. A file whose first row has been undone is as it was.
Restored ==
  calm /\ undo.pc \in {"restore", "done"} =>
    \A p \in Touched \ raced, i \in 1..Len(rows) :
      IsFirst(p, i) /\ i > undo.todo => disk[p] = orig[p]

-----------------------------------------------------------------------------
(* Rows                                                                     *)

LEMMA RowFacts ==
  ASSUME TypeOK
  PROVE  /\ Len(rows) \in Nat
         /\ \A i \in 1..Len(rows) :
              /\ rows[i] \in Row /\ rows[i].path \in Paths /\ rows[i].op \in Ops
              /\ rows[i].before \in File /\ rows[i].after \in File \cup {Open}
              /\ rows[i].ref \in 0..MaxRows
<1>1. rows \in Seq(Row) BY DEF TypeOK
<1>2. Len(rows) \in Nat /\ \A i \in 1..Len(rows) : rows[i] \in Row BY <1>1
<1> QED BY <1>2 DEF Row

\* One row more.
LEMMA InsertFacts ==
  ASSUME TypeOK, InsertRow
  PROVE  /\ Len(rows') = Len(rows) + 1
         /\ \A i \in 1..Len(rows) : rows'[i] = rows[i]
         /\ rows'[Len(rows) + 1].path = tool.path
         /\ rows'[Len(rows) + 1].op = tool.op
         /\ rows'[Len(rows) + 1].before = tool.before
         /\ rows'[Len(rows) + 1].after = Open
         /\ rows'[Len(rows) + 1].ref = IF tool.before = Missing THEN 0 ELSE Slot
         /\ rows' \in Seq([path : {tool.path} \cup Paths, op : {tool.op} \cup Ops,
                           before : {tool.before} \cup File,
                           after : File \cup {Open}, ref : {0, Slot} \cup (0..MaxRows)])
<1> DEFINE r == [path |-> tool.path, op |-> tool.op, before |-> tool.before,
                 after |-> Open, ref |-> IF tool.before = Missing THEN 0 ELSE Slot]
           R == [path : {tool.path} \cup Paths, op : {tool.op} \cup Ops,
                 before : {tool.before} \cup File,
                 after : File \cup {Open}, ref : {0, Slot} \cup (0..MaxRows)]
<1>1. rows' = Append(rows, r) BY DEF InsertRow
<1>2. r.path = tool.path /\ r.op = tool.op /\ r.before = tool.before /\ r.after = Open
      /\ r.ref = IF tool.before = Missing THEN 0 ELSE Slot
  OBVIOUS
<1>3. r \in R OBVIOUS
<1>4. Len(rows) \in Nat /\ \A i \in 1..Len(rows) : rows[i] \in R
  BY RowFacts DEF Row
<1>5. rows \in Seq(Row) BY DEF TypeOK
<1> HIDE DEF r, R
<1>6. rows \in Seq(R) BY <1>4, <1>5
<1>7. /\ rows' \in Seq(R) /\ Len(rows') = Len(rows) + 1
      /\ rows'[Len(rows) + 1] = r
      /\ \A i \in 1..Len(rows) : rows'[i] = rows[i]
  BY <1>1, <1>3, <1>6
<1> QED BY <1>2, <1>7 DEF R

\* The last row gets its digest.
LEMMA FinishFacts ==
  ASSUME TypeOK, InHand, Finish
  PROVE  /\ Len(rows') = Len(rows)
         /\ rows' \in Seq(Row)
         /\ \A i \in 1..Len(rows) :
              /\ rows'[i].path = rows[i].path /\ rows'[i].op = rows[i].op
              /\ rows'[i].before = rows[i].before /\ rows'[i].ref = rows[i].ref
              /\ i # Len(rows) => rows'[i].after = rows[i].after
         /\ rows'[Len(rows)].after = tool.new
<1>1. rows' = [rows EXCEPT ![Len(rows)].after = tool.new] BY DEF Finish, Digest
<1>2. rows \in Seq(Row) /\ Len(rows) \in Nat /\ Len(rows) # 0 /\ tool.new \in File
  BY RowFacts DEF TypeOK, InHand, Finish
<1>3. Len(rows) \in 1..Len(rows) BY <1>2
<1>4. [rows[Len(rows)] EXCEPT !.after = tool.new] \in Row
  BY <1>2, <1>3, RowFacts DEF Row
<1>5. rows' = [rows EXCEPT ![Len(rows)] = [rows[Len(rows)] EXCEPT !.after = tool.new]]
  BY <1>1
<1>6. rows' \in Seq(Row) /\ Len(rows') = Len(rows)
  BY <1>2, <1>3, <1>4, <1>5
<1>7. ASSUME NEW i \in 1..Len(rows)
      PROVE  rows'[i] = IF i = Len(rows) THEN [rows[i] EXCEPT !.after = tool.new]
                                         ELSE rows[i]
  BY <1>2, <1>5
<1>8. \A i \in 1..Len(rows) : rows[i] \in Row BY RowFacts
<1> QED BY <1>3, <1>6, <1>7, <1>8 DEF Row

\* The first row of a path stays the first one.
LEMMA FirstIsUnique ==
  ASSUME TypeOK, NEW p, NEW i, IsFirst(p, i)
  PROVE  FirstRow(p) = i
<1> DEFINE I == {k \in 1..Len(rows) : rows[k].path = p}
           f == CHOOSE k \in I : \A j \in I : k <= j
<1>1. i \in I /\ \A j \in I : i <= j BY DEF IsFirst
<1>2. f \in I /\ \A j \in I : f <= j BY <1>1
<1>3. I \subseteq Nat BY RowFacts
<1>4. f \in Nat /\ i \in Nat /\ f <= i /\ i <= f BY <1>1, <1>2, <1>3
<1>5. f = i BY <1>4
<1>6. FirstRow(p) = f BY DEF FirstRow
<1> QED BY <1>5, <1>6

-----------------------------------------------------------------------------
(* The journal and the tool                                                 *)

\* A tool that is not at work.
LEMMA NoToolFacts ==
  /\ NoTool \in [pc : {"idle"}, op : Ops, path : Paths, raw : File, new : File,
                 before : File]
  /\ \A l : [NoTool EXCEPT !.pc = l] \in
              [pc : {l}, op : Ops, path : Paths, raw : File, new : File, before : File]
<1>1. (CHOOSE p \in Paths : TRUE) \in Paths BY PathsAssumption
<1> QED BY <1>1 DEF NoTool, Ops, File

\* A step that leaves the journal as it is.
LEMMA JournalFrame ==
  ASSUME JInv, UNCHANGED journal
  PROVE  Numbered' /\ BackupIntegrity' /\ HasFirst'
<1>1. rows' = rows /\ backup' = backup BY DEF journal
<1> QED BY <1>1 DEF JInv, Numbered, BackupIntegrity, HasFirst, IsFirst

\* The steps of the tool that do not write the journal.
LEMMA ToolTypes ==
  ASSUME JInv,
         \/ \E op \in Ops, p \in Paths, new \in File : Begin(op, p, new)
         \/ Write \/ ToolFails \/ Crash \/ Resume
  PROVE  JInv'
<1> USE DEF journal, history
<1>1. UNCHANGED journal
  BY DEF Begin, Write, ToolFails, Crash, Resume
<1>2. TypeOK'
  <2>1. ASSUME NEW op \in Ops, NEW p \in Paths, NEW new \in File, Begin(op, p, new)
        PROVE  TypeOK'
    <3>1. disk[p] \in File /\ Missing \in File BY DEF JInv, TypeOK, File
    <3>2. tool' \in [pc : {"backup"}, op : Ops, path : Paths, raw : File, new : File,
                    before : File]
      BY <2>1, <3>1 DEF Begin
    <3> QED BY <2>1, <3>2 DEF JInv, TypeOK, Begin
  <2>2. CASE Write BY <2>2 DEF JInv, TypeOK, Write, Go
  <2>3. CASE ToolFails
    <3>1. tool' \in [pc : {"ended"}, op : Ops, path : Paths, raw : File, new : File,
                    before : File]
      BY <2>3, NoToolFacts DEF ToolFails
    <3>2. disk' \in [Paths -> File] /\ left' \in [Paths -> File \cup {Open}]
      BY <2>3 DEF JInv, TypeOK, ToolFails
    <3>3. calm' \in BOOLEAN /\ UNCHANGED <<rows, backup, undo, foreign, orig, raced>>
      BY <2>3 DEF JInv, TypeOK, ToolFails
    <3>4. faults' \in Nat BY <2>3 DEF JInv, TypeOK, ToolFails, Fault
    <3> QED BY <3>1, <3>2, <3>3, <3>4 DEF JInv, TypeOK
  <2>4. CASE Crash \/ Resume
    <3>1. tool' \in [pc : {"idle", "ended", "down"}, op : Ops, path : Paths, raw : File,
                    new : File, before : File]
      BY <2>4, NoToolFacts DEF Crash, Resume
    <3> QED BY <2>4, <3>1 DEF JInv, TypeOK, Crash, Resume, Fault
  <2> QED BY <2>1, <2>2, <2>3, <2>4
<1>3. Room' /\ HasStored' /\ InHand'
  <2>1. ASSUME NEW op \in Ops, NEW p \in Paths, NEW new \in File, Begin(op, p, new)
        PROVE  Room' /\ HasStored' /\ InHand'
    BY <2>1 DEF Room, HasStored, InHand, Begin
  <2>2. CASE Write
    BY <2>2 DEF JInv, TypeOK, Room, HasStored, InHand, Write, Go
  <2>3. CASE ToolFails \/ Crash \/ Resume
    BY <2>3 DEF Room, HasStored, InHand, ToolFails, Crash, Resume, NoTool
  <2> QED BY <2>1, <2>2, <2>3
<1>4. Position'
  BY DEF JInv, Position, Begin, Write, ToolFails, Crash, Resume
<1> QED BY <1>1, <1>2, <1>3, <1>4, JournalFrame DEF JInv

LEMMA JBackup == ASSUME JInv, Backup PROVE JInv'
<1> USE DEF history
<1>1. /\ tool.pc = "backup" /\ rows' = rows /\ Len(rows) \in Nat
      /\ Slot \in 1..MaxRows /\ Slot > Len(rows) /\ Slot' = Slot
      /\ disk[tool.path] \in File
  BY RowFacts, BoundsAssumption DEF JInv, TypeOK, Room, Backup, Slot
<1>2. /\ \A n \in 1..MaxRows : n # Slot => backup'[n] = backup[n]
      /\ backup' \in [1..MaxRows -> File]
      /\ disk[tool.path] # Missing => backup'[Slot] = disk[tool.path]
  BY <1>1 DEF Backup, Stored, JInv, TypeOK
<1>3. tool' = [tool EXCEPT !.pc = "row", !.before = disk[tool.path]]
  BY DEF Backup
<1>4. TypeOK' BY <1>1, <1>2, <1>3 DEF JInv, TypeOK, Backup
<1>5. Room' /\ HasStored' /\ InHand'
  <2>1. tool'.pc = "row" /\ tool'.before = disk[tool.path]
    BY <1>3 DEF JInv, TypeOK
  <2> QED BY <1>1, <1>2, <2>1 DEF JInv, Room, HasStored, InHand
<1>6. Numbered' /\ HasFirst' BY <1>1 DEF JInv, Numbered, HasFirst, IsFirst
<1>7. BackupIntegrity'
  <2> SUFFICES ASSUME NEW i \in 1..Len(rows), rows[i].before # Missing
               PROVE  rows[i].ref \in 1..MaxRows /\ backup'[rows[i].ref] = rows[i].before
    BY <1>1 DEF JInv, BackupIntegrity
  <2>1. rows[i].ref \in 1..MaxRows /\ backup[rows[i].ref] = rows[i].before
    BY DEF JInv, BackupIntegrity
  <2>2. rows[i].ref # Slot BY <1>1, <2>1 DEF JInv, Numbered
  <2> QED BY <1>2, <2>1, <2>2
<1>8. Position' BY <1>1 DEF JInv, Position, Backup
<1> QED BY <1>4, <1>5, <1>6, <1>7, <1>8 DEF JInv

LEMMA JInsertRow == ASSUME JInv, InsertRow PROVE JInv'
<1> DEFINE n == Len(rows)
<1>1. TypeOK BY DEF JInv
<1>2. /\ n \in Nat /\ Len(rows') = n + 1 /\ n + 1 <= MaxRows
      /\ Slot = n + 1 /\ Slot \in 1..MaxRows
      /\ \A i \in 1..n : rows'[i] = rows[i]
      /\ 1..Len(rows') = (1..n) \cup {n + 1}
      /\ tool.pc = "row" /\ tool.path \in Paths /\ tool.op \in Ops /\ tool.before \in File
      /\ UNCHANGED <<disk, backup, undo, faults, foreign, history>>
      /\ tool' = [tool EXCEPT !.pc = "write"]
  BY <1>1, InsertFacts, RowFacts, BoundsAssumption
     DEF JInv, Room, InsertRow, Slot, Go, TypeOK
<1>3. TypeOK'
  <2>1. /\ {tool.path} \cup Paths = Paths /\ {tool.op} \cup Ops = Ops
        /\ {tool.before} \cup File = File
        /\ {0, Slot} \cup (0..MaxRows) = 0..MaxRows
    BY <1>2, BoundsAssumption
  <2>2. rows' \in Seq(Row) BY <1>1, <2>1, InsertFacts DEF Row
  <2> QED BY <1>1, <1>2, <2>2 DEF TypeOK, history
<1>4. /\ tool'.pc = "write" /\ tool'.path = tool.path /\ tool'.op = tool.op
      /\ tool'.before = tool.before
  BY <1>1, <1>2 DEF TypeOK
<1>5. Room' /\ HasStored' /\ InHand'
  BY <1>1, <1>2, <1>4, InsertFacts DEF Room, HasStored, InHand
<1>6. Numbered'
  <2> SUFFICES ASSUME NEW i \in 1..Len(rows') PROVE rows'[i].ref \in {0, i}
    BY DEF Numbered
  <2>1. CASE i \in 1..n BY <1>2, <2>1 DEF JInv, Numbered
  <2>2. CASE i = n + 1 BY <1>1, <1>2, <2>2, InsertFacts
  <2> QED BY <1>2, <2>1, <2>2
<1>7. BackupIntegrity'
  <2> SUFFICES ASSUME NEW i \in 1..Len(rows')
               PROVE  IF rows'[i].before = Missing THEN rows'[i].ref = 0
                      ELSE /\ rows'[i].ref \in 1..MaxRows
                           /\ backup[rows'[i].ref] = rows'[i].before
    BY <1>2 DEF BackupIntegrity
  <2>1. CASE i \in 1..n BY <1>2, <2>1 DEF JInv, BackupIntegrity
  <2>2. CASE i = n + 1
    BY <1>1, <1>2, <2>2, InsertFacts DEF JInv, HasStored
  <2> QED BY <1>2, <2>1, <2>2
<1>8. HasFirst'
  <2> SUFFICES ASSUME NEW p \in Paths, NEW i \in 1..Len(rows'), rows'[i].path = p
               PROVE  \E k \in 1..Len(rows') : IsFirst(p, k)'
    BY DEF HasFirst
  <2>1. CASE \E j \in 1..n : rows[j].path = p
    <3>1. PICK k \in 1..n : IsFirst(p, k) BY <2>1 DEF JInv, HasFirst
    <3>2. IsFirst(p, k)' BY <1>2, <3>1 DEF IsFirst
    <3> QED BY <1>2, <3>2
  <2>2. CASE ~ \E j \in 1..n : rows[j].path = p
    <3>1. i = n + 1 BY <1>2, <2>2
    <3>2. IsFirst(p, i)' BY <1>2, <2>2, <3>1 DEF IsFirst
    <3> QED BY <3>2
  <2> QED BY <2>1, <2>2
<1>9. Position' BY <1>1, <1>2 DEF JInv, Position, TypeOK
<1> QED BY <1>3, <1>5, <1>6, <1>7, <1>8, <1>9 DEF JInv

LEMMA JFinish == ASSUME JInv, Finish PROVE JInv'
<1> DEFINE n == Len(rows)
<1>1. TypeOK /\ InHand BY DEF JInv
<1>2. /\ n \in Nat /\ Len(rows') = n
      /\ \A i \in 1..n :
           /\ rows'[i].path = rows[i].path /\ rows'[i].before = rows[i].before
           /\ rows'[i].ref = rows[i].ref
      /\ UNCHANGED <<disk, backup, undo, faults, foreign, history>>
      /\ tool' = NoTool
  BY <1>1, FinishFacts, RowFacts DEF Finish
<1>3. TypeOK'
  <2>1. rows' \in Seq(Row) BY <1>1, FinishFacts
  <2> QED BY <1>1, <1>2, <2>1, NoToolFacts DEF TypeOK, history
<1>4. Room' /\ HasStored' /\ InHand' BY <1>2 DEF Room, HasStored, InHand, NoTool
<1>5. Numbered' /\ BackupIntegrity'
  BY <1>2 DEF JInv, Numbered, BackupIntegrity
<1>6. HasFirst' BY <1>2 DEF JInv, HasFirst, IsFirst
<1>7. Position' BY <1>2 DEF JInv, Position
<1> QED BY <1>3, <1>4, <1>5, <1>6, <1>7 DEF JInv

\* The rollback and the other programs.
LEMMA OtherTypes ==
  ASSUME JInv,
         \/ UndoCheck \/ UndoRefuse \/ UndoRow \/ UndoDone \/ UndoStops \/ UndoAgain
         \/ \E p \in Paths, c \in File : ForeignEdit(p, c)
  PROVE  JInv'
<1> USE DEF journal, history
<1>1. UNCHANGED <<journal, tool>>
  BY DEF UndoCheck, UndoRefuse, UndoRow, UndoDone, UndoStops, UndoAgain, ForeignEdit
<1>2. TypeOK'
  <2>1. CASE UndoCheck
    <3>1. Len(rows) \in 0..MaxRows BY RowFacts, BoundsAssumption DEF JInv, TypeOK
    <3> QED BY <2>1, <3>1 DEF JInv, TypeOK, UndoCheck
  <2>2. CASE UndoRefuse \/ UndoDone \/ UndoAgain
    BY <2>2, BoundsAssumption DEF JInv, TypeOK, UndoRefuse, UndoDone, UndoAgain, NoUndo
  <2>3. CASE UndoStops
    BY <2>3, BoundsAssumption DEF JInv, TypeOK, UndoStops, Fault, NoUndo
  <2>4. ASSUME NEW p \in Paths, NEW c \in File, ForeignEdit(p, c) PROVE TypeOK'
    <3>1. raced' \subseteq Paths BY <2>4 DEF JInv, TypeOK, ForeignEdit, AtWork
    <3>2. disk' \in [Paths -> File] BY <2>4 DEF JInv, TypeOK, ForeignEdit
    <3>3. calm' \in BOOLEAN BY <2>4 DEF ForeignEdit
    <3> QED BY <2>4, <3>1, <3>2, <3>3 DEF JInv, TypeOK, ForeignEdit
  <2>5. CASE UndoRow
    <3>1. CASE CanUndo(NextRow)
      <4>1. disk' = Undone(NextRow) /\ raced' = raced \cup AtWork(NextRow.path)
            /\ undo' = [undo EXCEPT !.todo = @ - 1] /\ undo.todo # 0
        BY <2>5, <3>1 DEF UndoRow
      <4>2. undo' \in [pc : {"idle", "restore", "refused", "failed", "done"},
                       todo : 0..MaxRows]
        BY <4>1, BoundsAssumption DEF JInv, TypeOK
      <4>3. raced' \subseteq Paths BY <4>1 DEF JInv, TypeOK, AtWork
      <4>4. disk' \in [Paths -> File]
        <5>1. Len(rows) \in Nat /\ undo.todo \in 1..Len(rows)
          BY <4>1, RowFacts DEF JInv, TypeOK, Position
        <5>2. NextRow.ref \in 0..MaxRows BY <5>1, RowFacts DEF JInv, NextRow
        <5>3. NextRow.op # "create" => backup[NextRow.ref] \in File
          BY <3>1, <5>2, BoundsAssumption DEF CanUndo, JInv, TypeOK
        <5> QED BY <4>1, <5>3 DEF Undone, JInv, TypeOK, File
      <4> QED BY <2>5, <4>1, <4>2, <4>3, <4>4 DEF JInv, TypeOK, UndoRow
    <3>2. CASE ~ CanUndo(NextRow)
      BY <2>5, <3>2, BoundsAssumption DEF JInv, TypeOK, UndoRow, NoUndo
    <3> QED BY <3>1, <3>2
  <2> QED BY <2>1, <2>2, <2>3, <2>4, <2>5
<1>3. Room' /\ HasStored' /\ InHand'
  BY <1>1 DEF JInv, Room, HasStored, InHand, Slot
<1>4. Position'
  BY RowFacts DEF JInv, TypeOK, Position, UndoCheck, UndoRefuse, UndoRow, UndoDone,
                  UndoStops, UndoAgain, ForeignEdit, NoUndo
<1> QED BY <1>1, <1>2, <1>3, <1>4, JournalFrame DEF JInv

LEMMA InitJInv == Init => JInv
<1> SUFFICES ASSUME Init PROVE JInv OBVIOUS
<1>1. Len(rows) = 0 /\ rows \in Seq(Row) /\ tool.pc = "idle"
  BY DEF Init, NoTool
<1>2. TypeOK
  BY <1>1, NoToolFacts, BoundsAssumption DEF Init, TypeOK, NoUndo, File
<1> QED BY <1>1, <1>2 DEF JInv, Room, HasStored, InHand, Numbered, BackupIntegrity, HasFirst,
                          Position, Init, NoUndo

LEMMA NextJInv == JInv /\ [Next]_vars => JInv'
<1> SUFFICES ASSUME JInv, [Next]_vars PROVE JInv' OBVIOUS
<1>1. CASE UNCHANGED vars
  BY <1>1 DEF vars, journal, history, JInv, TypeOK, Room, HasStored, InHand, Slot,
              Numbered, BackupIntegrity, HasFirst, IsFirst, Position
<1> QED BY <1>1, ToolTypes, JBackup, JInsertRow, JFinish, OtherTypes DEF Next

-----------------------------------------------------------------------------
(* The changes and the files                                                *)

LEMMA OpenIsNoFile == Open \notin File
BY ContentsAssumption DEF File

LEMMA WrittenFrame ==
  ASSUME WInv, UNCHANGED <<rows, left>>
  PROVE  Written' /\ Witnessed'
BY DEF WInv, Written, Witnessed, Touched

\* The steps after which the tool has not yet written, or never will.
LEMMA WFrame ==
  ASSUME JInv, WInv,
         \/ \E op \in Ops, p \in Paths, new \in File : Begin(op, p, new)
         \/ Backup \/ Crash \/ Resume
  PROVE  WInv'
<1> USE DEF history, journal
<1>1. UNCHANGED <<rows, left>> /\ tool'.pc \notin {"write", "finish"}
  <2>1. ASSUME NEW op \in Ops, NEW p \in Paths, NEW new \in File, Begin(op, p, new)
        PROVE  rows' = rows /\ left' = left /\ tool'.pc = "backup"
    BY <2>1 DEF Begin
  <2>2. CASE Backup
    <3>1. tool'.pc = "row" BY <2>2 DEF Backup, JInv, TypeOK
    <3> QED BY <2>2, <3>1 DEF Backup
  <2>3. CASE Crash \/ Resume BY <2>3 DEF Crash, Resume, NoTool
  <2> QED BY <2>1, <2>2, <2>3
<1>2. Finishing' BY <1>1 DEF Finishing
<1>3. Closed'
  <2> SUFFICES ASSUME NEW i \in 1..Len(rows), rows[i].after = Open
               PROVE  tool'.pc \in {"ended", "down"}
    BY <1>1 DEF Closed
  <2>1. tool.pc \notin {"idle", "backup"} BY <1>1 DEF WInv, Closed
  <2>2. CASE Crash BY <2>2 DEF Crash, NoTool
  <2>3. CASE Resume
    <3>1. rows[i].path \in Paths /\ disk[rows[i].path] \in File
      BY RowFacts DEF JInv, TypeOK
    <3>2. Drift BY <3>1, OpenIsNoFile DEF Drift, Matches
    <3> QED BY <2>3, <3>2 DEF Resume, NoTool
  <2> QED BY <2>1, <2>2, <2>3 DEF Begin, Backup
<1> QED BY <1>1, <1>2, <1>3, WrittenFrame DEF WInv

LEMMA WOther ==
  ASSUME WInv, UNCHANGED <<rows, left, tool>>
  PROVE  WInv'
<1>1. Closed' /\ Finishing' BY DEF WInv, Closed, Finishing
<1> QED BY <1>1, WrittenFrame DEF WInv

LEMMA WInsertRow == ASSUME JInv, WInv, InsertRow PROVE WInv'
<1> DEFINE n == Len(rows)
<1>1. /\ n \in Nat /\ Len(rows') = n + 1 /\ 1..Len(rows') = (1..n) \cup {n + 1}
      /\ \A i \in 1..n : rows'[i] = rows[i]
      /\ rows'[n + 1].after = Open
      /\ left' = left /\ tool.pc = "row" /\ tool'.pc = "write"
  BY InsertFacts, RowFacts DEF JInv, TypeOK, InsertRow, Go, history
<1>2. Closed' BY <1>1 DEF WInv, Closed
<1>3. Written' BY <1>1 DEF WInv, Written, Touched
<1>4. Finishing' BY <1>1 DEF Finishing
<1>5. Witnessed' BY <1>1 DEF WInv, Witnessed, Touched
<1> QED BY <1>2, <1>3, <1>4, <1>5 DEF WInv

LEMMA WWrite == ASSUME JInv, WInv, Write PROVE WInv'
<1> DEFINE p == tool.path
           n == Len(rows)
<1>1. /\ tool.pc = "write" /\ rows' = rows /\ n \in Nat /\ n # 0 /\ n \in 1..n
      /\ p \in Paths /\ tool.new \in File /\ tool.new # Open
      /\ rows[n].path = p /\ rows[n].after = Open
  BY RowFacts, OpenIsNoFile DEF JInv, TypeOK, InHand, Write, journal
<1>2. CASE Go("ended") /\ UNCHANGED <<disk, history>>
  <2>1. tool'.pc = "ended" /\ left' = left BY <1>2 DEF Go, JInv, TypeOK, history
  <2>2. Closed' /\ Finishing' BY <1>1, <2>1 DEF Closed, Finishing
  <2> QED BY <1>1, <2>1, <2>2, WrittenFrame DEF WInv
<1>3. CASE /\ left' = [left EXCEPT ![p] = tool.new]
           /\ Go("finish")
  <2>1. tool'.pc = "finish" /\ tool'.path = p /\ tool'.new = tool.new
    BY <1>3 DEF Go, JInv, TypeOK
  <2>2. left'[p] = tool.new /\ \A q \in Paths \ {p} : left'[q] = left[q]
    BY <1>1, <1>3 DEF JInv, TypeOK
  <2>3. Closed' BY <1>1, <2>1 DEF WInv, Closed
  <2>4. Finishing' BY <2>1, <2>2 DEF Finishing
  <2>5. Written' BY <1>1, <2>2 DEF WInv, Written, Touched
  <2>6. Witnessed' BY <1>1, <2>2 DEF WInv, Witnessed, Touched
  <2> QED BY <2>3, <2>4, <2>5, <2>6 DEF WInv
<1> QED BY <1>1, <1>2, <1>3 DEF Write

LEMMA WFinish == ASSUME JInv, WInv, Finish PROVE WInv'
<1> DEFINE p == tool.path
           n == Len(rows)
<1>1. /\ tool.pc = "finish" /\ left' = left /\ n \in Nat /\ n # 0 /\ n \in 1..n
      /\ p \in Paths /\ tool.new \in File /\ tool.new # Open
      /\ rows[n].path = p /\ left[p] = tool.new /\ p \in Touched
      /\ tool'.pc = "idle"
  BY RowFacts, OpenIsNoFile
     DEF JInv, WInv, TypeOK, InHand, Finish, Finishing, Touched, history, NoTool
<1>2. /\ Len(rows') = n
      /\ \A i \in 1..n : rows'[i].path = rows[i].path
                         /\ (i # n => rows'[i].after = rows[i].after)
      /\ rows'[n].after = tool.new
  BY FinishFacts DEF JInv
<1>3. Closed' BY <1>1, <1>2 DEF WInv, Closed
<1>4. Written' BY <1>1, <1>2 DEF WInv, Written, Touched
<1>5. Finishing' BY <1>1 DEF Finishing
<1>6. Witnessed'
  <2> SUFFICES ASSUME NEW q \in Touched
               PROVE  \E i \in 1..n : rows'[i].path = q /\ rows'[i].after \in {left[q], Open}
    BY <1>1, <1>2 DEF Witnessed, Touched
  <2>1. CASE q = p BY <1>1, <1>2, <2>1
  <2>2. CASE q # p
    <3>1. PICK i \in 1..n : rows[i].path = q /\ rows[i].after \in {left[q], Open}
      BY DEF WInv, Witnessed
    <3> QED BY <1>1, <1>2, <2>2, <3>1
  <2> QED BY <2>1, <2>2
<1> QED BY <1>3, <1>4, <1>5, <1>6 DEF WInv

LEMMA WToolFails == ASSUME JInv, WInv, ToolFails PROVE WInv'
<1> DEFINE p == tool.path
           n == Len(rows)
<1>1. rows' = rows /\ tool'.pc = "ended" BY DEF ToolFails, journal, NoTool
<1>2. Closed' /\ Finishing' BY <1>1 DEF Closed, Finishing
<1>3. CASE left' = left BY <1>1, <1>2, <1>3, WrittenFrame DEF WInv
<1>4. CASE tool.pc = "finish" /\ left' = [left EXCEPT ![p] = tool.raw]
  <2>1. /\ n \in Nat /\ n \in 1..n /\ p \in Paths /\ tool.raw # Open
        /\ rows[n].path = p /\ rows[n].after = Open
    BY <1>4, RowFacts, OpenIsNoFile DEF JInv, TypeOK, InHand
  <2>2. left'[p] = tool.raw /\ \A q \in Paths \ {p} : left'[q] = left[q]
    BY <1>4, <2>1 DEF JInv, TypeOK
  <2>3. Written' BY <1>1, <2>1, <2>2 DEF WInv, Written, Touched
  <2>4. Witnessed' BY <1>1, <2>1, <2>2 DEF WInv, Witnessed, Touched
  <2> QED BY <1>2, <2>3, <2>4 DEF WInv
<1> QED BY <1>3, <1>4 DEF ToolFails

LEMMA NextWInv == JInv /\ WInv /\ [Next]_vars => WInv'
<1> SUFFICES ASSUME JInv, WInv, [Next]_vars PROVE WInv' OBVIOUS
<1>1. CASE UNCHANGED vars BY <1>1, WOther DEF vars, journal, history
<1>2. CASE \/ UndoCheck \/ UndoRefuse \/ UndoRow \/ UndoDone \/ UndoStops \/ UndoAgain
           \/ \E p \in Paths, c \in File : ForeignEdit(p, c)
  BY <1>2, WOther DEF journal, history, UndoCheck, UndoRefuse, UndoRow, UndoDone,
     UndoStops, UndoAgain, ForeignEdit
<1> QED BY <1>1, <1>2, WFrame, WInsertRow, WWrite, WFinish, WToolFails DEF Next

LEMMA InitWInv == Init => WInv
BY DEF Init, WInv, Closed, Written, Finishing, Witnessed, Touched, NoTool

LEMMA ChangesInvariant == Spec => [](JInv /\ WInv)
<1>1. Init => JInv /\ WInv BY InitJInv, InitWInv
<1>2. JInv /\ WInv /\ [Next]_vars => (JInv /\ WInv)' BY NextJInv, NextWInv
<1> QED BY <1>1, <1>2, PTL DEF Spec

\* If the drift check finds nothing, every file that the session wrote is as its
\* tools left it.
THEOREM DriftIsSeen == Spec => []DriftSeen
<1>1. JInv /\ WInv => DriftSeen
  <2> SUFFICES ASSUME JInv, WInv, ~ Drift, NEW p \in Touched PROVE disk[p] = left[p]
    BY DEF DriftSeen
  <2>1. PICK i \in 1..Len(rows) : rows[i].path = p /\ rows[i].after \in {left[p], Open}
    BY DEF WInv, Witnessed
  <2>2. rows[i].after = disk[p] BY <2>1 DEF Drift, Matches
  <2>3. disk[p] \in File BY DEF JInv, TypeOK, Touched
  <2> QED BY <2>1, <2>2, <2>3, OpenIsNoFile
<1> QED BY <1>1, ChangesInvariant, PTL

\* What UndoRefuse may be a consequence of.
Reason ==
  \/ \E i \in 1..Len(rows) : rows[i].after = Open
  \/ \E i, j \in 1..Len(rows) : i # j /\ rows[i].path = rows[j].path
  \/ \E p \in Touched : disk[p] # left[p]

\* A row that does not match is not finished, or not the only one of its path,
\* or its file is not as the session left it.
LEMMA DriftHasReason == JInv /\ WInv /\ Drift => Reason
<1> SUFFICES ASSUME JInv, WInv, Drift PROVE Reason OBVIOUS
<1>1. PICK i \in 1..Len(rows) : rows[i].after # disk[rows[i].path]
  BY DEF Drift, Matches
<1>2. CASE rows[i].after = Open BY <1>2 DEF Reason
<1>3. CASE rows[i].after # Open
  <2>1. rows[i].path \in Touched BY <1>3 DEF WInv, Written
  <2>2. PICK j \in 1..Len(rows) :
          rows[j].path = rows[i].path /\ rows[j].after \in {left[rows[i].path], Open}
    BY <2>1 DEF WInv, Witnessed
  <2>3. CASE j # i BY <2>2, <2>3 DEF Reason
  <2>4. CASE j = i BY <1>1, <1>3, <2>1, <2>2, <2>4 DEF Reason
  <2> QED BY <2>3, <2>4
<1> QED BY <1>2, <1>3

\* A rollback refuses only because a change has no digest, a file was changed
\* twice, or a file is not as the session left it.
THEOREM RefusalHasReason == Spec => RefusedForReason
<1>1. JInv /\ WInv => (UndoRefuse => Reason) BY DriftHasReason DEF UndoRefuse
<1>2. JInv /\ WInv /\ [Next]_vars => [UndoRefuse => Reason]_vars BY <1>1
<1> QED BY <1>2, ChangesInvariant, PTL DEF Spec, RefusedForReason, Reason

-----------------------------------------------------------------------------
(* The originals                                                            *)

\* A step that leaves the rows and the tool as they are, and races with it when
\* it writes a file that the tool is at work on.
LEMMA OFrame ==
  ASSUME JInv, OInv, UNCHANGED <<rows, tool, orig, left>>, raced \subseteq raced',
         \A q \in Paths : disk'[q] = disk[q] \/ AtWork(q) \subseteq raced'
  PROVE  OInv'
<1>1. Created' BY DEF OInv, Created
<1>2. Kept' BY DEF OInv, Kept, Touched, IsFirst
<1>3. Seen'
  <2> SUFFICES ASSUME tool.path \notin raced' PROVE Seen' BY DEF Seen
  <2>1. tool.path \in Paths /\ tool.path \notin raced BY DEF JInv, TypeOK
  <2>2. CASE disk'[tool.path] = disk[tool.path] BY <2>1, <2>2 DEF OInv, Seen
  <2>3. CASE disk'[tool.path] # disk[tool.path]
    <3>1. tool.path \notin AtWork(tool.path) BY <2>1, <2>3
    <3> QED BY <3>1 DEF AtWork, Seen
  <2> QED BY <2>2, <2>3
<1> QED BY <1>1, <1>2, <1>3 DEF OInv

\* The steps of the tool that leave the rows and the files as they are.
LEMMA OTool ==
  ASSUME JInv, OInv, UNCHANGED <<rows, disk, history>>, Seen'
  PROVE  OInv'
BY DEF history, OInv, Created, Kept, Touched, IsFirst

LEMMA OBegin ==
  ASSUME JInv, OInv, NEW op \in Ops, NEW p \in Paths, NEW new \in File,
         Begin(op, p, new)
  PROVE  OInv'
<1>1. tool'.pc = "backup" /\ tool'.op = op /\ tool'.path = p
      /\ UNCHANGED <<rows, disk, history>> /\ (op = "create" => disk[p] = Missing)
  BY DEF Begin, journal
<1>2. Seen' BY <1>1 DEF Seen
<1> QED BY <1>1, <1>2, OTool

LEMMA OBackup == ASSUME JInv, OInv, Backup PROVE OInv'
<1>1. /\ tool.pc = "backup" /\ tool'.pc = "row" /\ tool'.op = tool.op
      /\ tool'.path = tool.path /\ tool'.before = disk[tool.path]
      /\ UNCHANGED <<rows, disk, history>>
  BY DEF Backup, JInv, TypeOK
<1>2. Seen' BY <1>1 DEF OInv, Seen, history
<1> QED BY <1>1, <1>2, OTool

\* A file that was written has a row already.
LEMMA TouchedHasRow ==
  ASSUME JInv, WInv, NEW p \in Touched
  PROVE  \E i \in 1..Len(rows) : IsFirst(p, i)
<1>1. PICK i \in 1..Len(rows) : rows[i].path = p BY DEF WInv, Witnessed
<1> QED BY <1>1 DEF JInv, HasFirst, Touched

\* So the new row is not its first.
LEMMA FirstAfterInsert ==
  ASSUME JInv, WInv, InsertRow, NEW p \in Touched, NEW i, IsFirst(p, i)'
  PROVE  i \in 1..Len(rows) /\ IsFirst(p, i)
<1>1. /\ Len(rows) \in Nat /\ Len(rows') = Len(rows) + 1
      /\ \A k \in 1..Len(rows) : rows'[k] = rows[k]
  BY InsertFacts, RowFacts DEF JInv
<1>2. PICK k \in 1..Len(rows) : IsFirst(p, k) BY TouchedHasRow
<1>3. i <= k /\ i \in 1..Len(rows') BY <1>1, <1>2 DEF IsFirst
<1>4. i \in 1..Len(rows) BY <1>1, <1>2, <1>3
<1> QED BY <1>1, <1>4 DEF IsFirst

LEMMA OInsertRow == ASSUME JInv, WInv, OInv, InsertRow PROVE OInv'
<1> DEFINE n == Len(rows)
<1>1. /\ n \in Nat /\ 1..Len(rows') = (1..n) \cup {n + 1}
      /\ \A i \in 1..n : rows'[i] = rows[i]
      /\ rows'[n + 1].path = tool.path /\ rows'[n + 1].op = tool.op
      /\ rows'[n + 1].before = tool.before
      /\ tool.pc = "row" /\ tool'.pc = "write" /\ tool'.op = tool.op
      /\ tool'.path = tool.path /\ tool'.before = tool.before
      /\ UNCHANGED <<disk, orig, left, raced>>
  BY InsertFacts, RowFacts DEF JInv, TypeOK, InsertRow, Go, history
<1>2. Seen' BY <1>1 DEF OInv, Seen
<1>3. Created'
  <2> SUFFICES ASSUME NEW i \in 1..Len(rows'), rows'[i].op = "create",
                      rows'[i].path \notin raced
               PROVE  rows'[i].before = Missing
    BY <1>1 DEF Created
  <2>1. CASE i \in 1..n BY <1>1, <2>1 DEF OInv, Created
  <2>2. CASE i = n + 1 BY <1>1, <2>2 DEF OInv, Seen
  <2> QED BY <1>1, <2>1, <2>2
<1>4. Kept'
  <2> SUFFICES ASSUME NEW p \in Touched \ raced, NEW i \in 1..Len(rows'), IsFirst(p, i)'
               PROVE  rows'[i].before = orig[p]
    BY <1>1 DEF Kept, Touched
  <2>1. i \in 1..n /\ IsFirst(p, i) BY FirstAfterInsert
  <2> QED BY <1>1, <2>1 DEF OInv, Kept
<1> QED BY <1>2, <1>3, <1>4 DEF OInv

\* The tool writes what it found for the first time: its row is the first one.
LEMMA OWrite == ASSUME JInv, WInv, OInv, Write PROVE OInv'
<1> DEFINE p == tool.path
           n == Len(rows)
<1>1. /\ tool.pc = "write" /\ rows' = rows /\ raced' = raced /\ n \in Nat
      /\ p \in Paths /\ tool.new # Open /\ tool'.pc \in {"ended", "finish"}
      /\ rows[n].before = tool.before
  BY RowFacts, OpenIsNoFile DEF JInv, TypeOK, InHand, Write, Go, journal, history
<1>2. Seen' /\ Created' BY <1>1 DEF OInv, Seen, Created
<1>3. Kept'
  <2>1. CASE UNCHANGED <<disk, history>>
    BY <1>1, <2>1 DEF history, OInv, Kept, Touched, IsFirst
  <2>2. CASE /\ orig' = IF p \in Touched THEN orig ELSE [orig EXCEPT ![p] = disk[p]]
             /\ left' = [left EXCEPT ![p] = tool.new]
    <3> SUFFICES ASSUME NEW q \in Touched' \ raced, NEW i \in 1..n, IsFirst(q, i)
                 PROVE  rows[i].before = orig'[q]
      BY <1>1 DEF Kept, IsFirst
    <3>1. q \in Paths /\ (q # p => q \in Touched)
      BY <1>1, <2>2 DEF Touched, JInv, TypeOK
    <3>2. CASE q \in Touched
      <4>1. orig'[q] = orig[q] BY <2>2, <3>1, <3>2 DEF JInv, TypeOK
      <4> QED BY <3>2, <4>1 DEF OInv, Kept
    <3>3. CASE q = p /\ p \notin Touched
      <4>1. orig'[p] = disk[p] BY <1>1, <2>2, <3>3 DEF JInv, TypeOK
      <4>2. rows[i].path = p BY <3>3 DEF IsFirst
      <4>3. rows[i].after = Open BY <3>3, <4>2 DEF WInv, Written
      <4>4. i = n BY <1>1, <4>3 DEF WInv, Closed
      <4>5. disk[p] = tool.before BY <1>1, <3>3 DEF OInv, Seen
      <4> QED BY <1>1, <3>3, <4>1, <4>4, <4>5
    <3> QED BY <3>1, <3>2, <3>3
  <2> QED BY <2>1, <2>2 DEF Write
<1> QED BY <1>2, <1>3 DEF OInv

LEMMA OFinish == ASSUME JInv, OInv, Finish PROVE OInv'
<1>1. /\ UNCHANGED <<disk, orig, left, raced>> /\ tool'.pc = "idle"
      /\ Len(rows') = Len(rows)
      /\ \A i \in 1..Len(rows) :
           /\ rows'[i].path = rows[i].path /\ rows'[i].op = rows[i].op
           /\ rows'[i].before = rows[i].before
  BY FinishFacts DEF JInv, Finish, history, NoTool
<1>2. Seen' BY <1>1 DEF Seen
<1>3. Created' BY <1>1 DEF OInv, Created
<1>4. Kept' BY <1>1 DEF OInv, Kept, Touched, IsFirst
<1> QED BY <1>2, <1>3, <1>4 DEF OInv

LEMMA OToolFails == ASSUME JInv, WInv, OInv, ToolFails PROVE OInv'
<1>1. /\ rows' = rows /\ orig' = orig /\ raced' = raced /\ tool'.pc = "ended"
  BY DEF ToolFails, journal, NoTool
<1>2. Seen' BY <1>1 DEF Seen
<1>3. Created' BY <1>1 DEF OInv, Created
<1>4. Touched' \subseteq Touched
  <2>1. CASE left' = left BY <2>1 DEF Touched
  <2>2. CASE tool.pc = "finish" /\ left' = [left EXCEPT ![tool.path] = tool.raw]
    <3>1. tool.path \in Touched
      BY <2>2, OpenIsNoFile DEF JInv, TypeOK, WInv, Finishing, Touched
    <3> QED BY <2>2, <3>1 DEF Touched, JInv, TypeOK
  <2> QED BY <2>1, <2>2 DEF ToolFails
<1>5. Kept' BY <1>1, <1>4 DEF OInv, Kept, IsFirst
<1> QED BY <1>2, <1>3, <1>5 DEF OInv

LEMMA NextOInv == JInv /\ WInv /\ OInv /\ [Next]_vars => OInv'
<1> SUFFICES ASSUME JInv, WInv, OInv, [Next]_vars PROVE OInv' OBVIOUS
<1>1. CASE UNCHANGED vars BY <1>1, OFrame DEF vars, journal, history
<1>2. CASE Crash \/ Resume
  <2>1. UNCHANGED <<rows, disk, history>> /\ tool'.pc \in {"idle", "ended", "down"}
    BY <1>2 DEF Crash, Resume, NoTool, journal
  <2>2. Seen' BY <2>1 DEF Seen
  <2> QED BY <2>1, <2>2, OTool
<1>3. CASE UndoCheck \/ UndoRefuse \/ UndoDone \/ UndoStops \/ UndoAgain
  BY <1>3, OFrame DEF UndoCheck, UndoRefuse, UndoDone, UndoStops, UndoAgain, journal,
                      history
<1>4. ASSUME NEW p \in Paths, NEW c \in File, ForeignEdit(p, c) PROVE OInv'
  <2>1. \A q \in Paths : disk'[q] = disk[q] \/ AtWork(q) \subseteq raced'
    BY <1>4 DEF ForeignEdit, JInv, TypeOK
  <2>2. raced \subseteq raced' /\ UNCHANGED <<rows, tool, orig, left>>
    BY <1>4 DEF ForeignEdit, journal
  <2> QED BY <2>1, <2>2, OFrame
<1>5. CASE UndoRow
  <2>1. \A q \in Paths : disk'[q] = disk[q] \/ AtWork(q) \subseteq raced'
    BY <1>5 DEF UndoRow, Undone, JInv, TypeOK
  <2>2. raced \subseteq raced' /\ UNCHANGED <<rows, tool, orig, left>>
    BY <1>5 DEF UndoRow, journal
  <2> QED BY <2>1, <2>2, OFrame
<1> QED
  BY <1>1, <1>2, <1>3, <1>4, <1>5, OBegin, OBackup, OInsertRow, OWrite, OFinish,
     OToolFails DEF Next

LEMMA InitOInv == Init => OInv
BY DEF Init, OInv, Seen, Created, Kept, Touched, NoTool

-----------------------------------------------------------------------------
(* The rollback                                                             *)

LEMMA RUndoRow == ASSUME JInv, OInv, Restored, UndoRow PROVE Restored'
<1> DEFINE t == undo.todo
           r == rows[t]
           n == Len(rows)
<1>1. CASE ~ CanUndo(NextRow)
  <2>1. undo'.pc = "failed" BY <1>1 DEF UndoRow, NoUndo
  <2> QED BY <2>1 DEF Restored
<1>2. CASE CanUndo(NextRow)
  <2>1. /\ disk' = Undone(r) /\ raced \subseteq raced'
        /\ undo'.todo = t - 1 /\ undo.pc = "restore" /\ rows' = rows /\ calm' = calm
        /\ orig' = orig /\ left' = left
        /\ n \in Nat /\ t \in 1..n
        /\ r.op # "create" => backup[r.ref] = r.before
    BY <1>2, RowFacts DEF UndoRow, NextRow, CanUndo, JInv, TypeOK, Position, journal
  <2> SUFFICES ASSUME calm, NEW p \in Touched \ raced, NEW i \in 1..n,
                      IsFirst(p, i), i > t - 1
               PROVE  disk'[p] = orig[p]
    BY <2>1 DEF Restored, Touched, IsFirst
  <2>2. p \in Paths BY DEF Touched
  <2>3. CASE i = t
    <3>1. r.path = p /\ r.before = orig[p] BY <2>3 DEF IsFirst, OInv, Kept
    <3>2. r.op = "create" => r.before = Missing BY <2>1, <3>1 DEF OInv, Created
    <3> QED BY <2>1, <2>2, <3>1, <3>2 DEF Undone, JInv, TypeOK
  <2>4. CASE i > t
    <3>1. r.path # p BY <2>1, <2>4 DEF IsFirst
    <3>2. disk'[p] = disk[p] BY <2>1, <2>2, <3>1 DEF Undone, JInv, TypeOK
    <3> QED BY <2>1, <2>4, <3>2 DEF Restored
  <2> QED BY <2>1, <2>3, <2>4
<1> QED BY <1>1, <1>2

LEMMA RInsertRow == ASSUME JInv, WInv, Restored, InsertRow PROVE Restored'
<1>1. UNCHANGED <<disk, undo, orig, left, raced, calm>> BY DEF InsertRow, history
<1> SUFFICES ASSUME calm, undo.pc \in {"restore", "done"}, NEW p \in Touched \ raced,
                    NEW i, IsFirst(p, i)', i > undo.todo
             PROVE  disk[p] = orig[p]
  BY <1>1 DEF Restored, Touched
<1>2. i \in 1..Len(rows) /\ IsFirst(p, i) BY FirstAfterInsert
<1> QED BY <1>2 DEF Restored

LEMMA RFinish == ASSUME JInv, Restored, Finish PROVE Restored'
<1>1. /\ UNCHANGED <<disk, undo, orig, left, raced, calm>>
      /\ Len(rows') = Len(rows)
      /\ \A i \in 1..Len(rows) : rows'[i].path = rows[i].path
  BY FinishFacts DEF JInv, Finish, history
<1> QED BY <1>1 DEF Restored, Touched, IsFirst

\* The steps that leave the rows, the rollback and what it has restored alone,
\* and those that spoil its calm.
LEMMA RFrame ==
  ASSUME Restored, UNCHANGED <<rows, undo>>,
         UNCHANGED <<disk, orig, left, raced, calm>> \/ calm' = FALSE
  PROVE  Restored'
BY DEF Restored, Touched, IsFirst

LEMMA NextRestored == JInv /\ WInv /\ OInv /\ Restored /\ [Next]_vars => Restored'
<1> SUFFICES ASSUME JInv, WInv, OInv, Restored, [Next]_vars PROVE Restored' OBVIOUS
<1> USE DEF journal, history
<1>1. CASE UNCHANGED vars BY <1>1, RFrame DEF vars
<1>2. CASE \E op \in Ops, p \in Paths, new \in File : Begin(op, p, new)
  BY <1>2, RFrame DEF Begin
<1>3. CASE Backup \/ Crash \/ Resume BY <1>3, RFrame DEF Backup, Crash, Resume
<1>4. CASE Write BY <1>4, RFrame DEF Write
<1>5. CASE ToolFails BY <1>5, RFrame DEF ToolFails
<1>6. CASE \E p \in Paths, c \in File : ForeignEdit(p, c)
  BY <1>6, RFrame DEF ForeignEdit
<1>7. CASE UndoRefuse \/ UndoStops \/ UndoAgain
  <2>1. undo'.pc \in {"refused", "failed", "idle"}
    BY <1>7 DEF UndoRefuse, UndoStops, UndoAgain, NoUndo
  <2> QED BY <2>1 DEF Restored
<1>8. CASE UndoCheck
  <2>1. Len(rows) \in Nat BY RowFacts DEF JInv
  <2> QED BY <1>8, <2>1 DEF UndoCheck, Restored
<1>9. CASE UndoDone
  BY <1>9 DEF UndoDone, NoUndo, Restored, Touched, IsFirst
<1> QED
  BY <1>1, <1>2, <1>3, <1>4, <1>5, <1>6, <1>7, <1>8, <1>9, RInsertRow, RFinish, RUndoRow
     DEF Next

-----------------------------------------------------------------------------
(* The theorems                                                             *)

IInv == JInv /\ WInv /\ OInv /\ Restored

LEMMA JournalInvariant == Spec => []IInv
<1>1. Init => IInv
  BY InitJInv, InitWInv, InitOInv DEF IInv, Init, NoUndo, Restored
<1>2. IInv /\ [Next]_vars => IInv'
  BY NextJInv, NextWInv, NextOInv, NextRestored DEF IInv
<1> QED BY <1>1, <1>2, PTL DEF Spec

\* At any moment, in the middle of a tool or after a crash, each file that the
\* session wrote has a row, and a backup of what it held before, unless it
\* changed under the tool.
THEOREM OriginalsAreKept == Spec => []OriginalsKept
<1>1. IInv => OriginalsKept
  <2> SUFFICES ASSUME IInv, NEW p \in Touched
               PROVE  /\ \E i \in 1..Len(rows) : rows[i].path = p
                      /\ p \notin raced =>
                           /\ rows[FirstRow(p)].before = orig[p]
                           /\ orig[p] # Missing =>
                                backup[rows[FirstRow(p)].ref] = orig[p]
    BY DEF OriginalsKept, IInv, JInv
  <2>1. PICK i \in 1..Len(rows) : IsFirst(p, i) BY TouchedHasRow DEF IInv
  <2>2. FirstRow(p) = i /\ rows[i].path = p
    BY <2>1, FirstIsUnique DEF IInv, JInv, IsFirst
  <2>3. ASSUME p \notin raced PROVE rows[i].before = orig[p]
    BY <2>1, <2>3 DEF IInv, OInv, Kept
  <2>4. ASSUME rows[i].before # Missing PROVE backup[rows[i].ref] = rows[i].before
    BY <2>1, <2>4 DEF IInv, JInv, BackupIntegrity
  <2> QED BY <2>1, <2>2, <2>3, <2>4
<1> QED BY <1>1, JournalInvariant, PTL

\* A rollback that ends without an error, and beside which nobody else wrote,
\* has put back what every file held before the session first wrote it.
THEOREM RollbackDoesRestore == Spec => []RollbackRestores
<1>1. IInv => RollbackRestores
  <2> SUFFICES ASSUME IInv, undo.pc = "done", calm, NEW p \in Touched \ raced
               PROVE  disk[p] = orig[p]
    BY DEF RollbackRestores
  <2>1. PICK i \in 1..Len(rows) : IsFirst(p, i) BY TouchedHasRow DEF IInv
  <2>2. undo.todo = 0 /\ i > 0 BY <2>1, RowFacts DEF IInv, JInv, Position
  <2> QED BY <2>1, <2>2 DEF IInv, Restored
<1> QED BY <1>1, JournalInvariant, PTL
=============================================================================
