------------------------------- MODULE Store --------------------------------
(***************************************************************************)
(* The transactions of StateStore: processes that share one database, each *)
(* with one connection, one thread, and a count of the transaction blocks  *)
(* it is inside of. Only the outermost block begins and ends a transaction *)
(* of SQLite; an error leaves all of them, since no caller catches one     *)
(* half way; a connection whose state is unknown is thrown away.           *)
(*                                                                         *)
(* SQLite itself is modelled as its users see it: a transaction is private *)
(* until COMMIT, BEGIN IMMEDIATE admits one writer, a statement that fails *)
(* may end the whole transaction, and a closed connection rolls back.      *)
(*                                                                         *)
(* Operators named Bug_X are wrong versions of X, which no specification   *)
(* uses: with X replaced by Bug_X, a run must find its property violated.  *)
(***************************************************************************)
EXTENDS Integers

CONSTANTS
  Procs,
  Nobody,
  MaxRows,    \* rows that are ever written (a bound)
  MaxDepth,   \* nesting of transaction() (a bound)
  MaxFaults   \* errors and kills (a bound)

ASSUME NobodyAssumption == Nobody \notin Procs
ASSUME StoreBoundsAssumption ==
  /\ MaxRows \in Nat /\ MaxFaults \in Nat
  /\ MaxDepth \in Nat \ {0}

Rows == 1..MaxRows

VARIABLES
  db,        \* the committed rows
  lock,      \* the process whose connection is inside BEGIN IMMEDIATE
  pending,   \* the rows written in that transaction
  connected, \* the processes with an open connection
  depth,     \* _transaction_depth
  raising,   \* the processes where an exception is leaving the blocks
  last,      \* the number of rows written so far
  unit,      \* history: the rows of the outermost block that a process is in
  succeeded, \* history: rows of blocks that ended without an error
  failed,    \* history: rows of blocks that raised
  faults

history == <<unit, succeeded, failed>>
vars == <<db, lock, pending, connected, depth, raising, last, history, faults>>

Init ==
  /\ db = {} /\ pending = {}
  /\ lock = Nobody
  /\ connected = {}
  /\ depth = [p \in Procs |-> 0]
  /\ raising = {}
  /\ last = 0
  /\ unit = [p \in Procs |-> {}]
  /\ succeeded = {} /\ failed = {}
  /\ faults = 0

Fault == faults < MaxFaults /\ faults' = faults + 1

\* BEGIN IMMEDIATE.
\* A deferred BEGIN lets a second writer in; what it writes joins the first's.
Bug_Free == TRUE
Free == lock = Nobody

\* initialize: the schema is made in a transaction of its own. When another
\* process has the lock, the connection is discarded again.
Initialize(p) ==
  /\ p \notin connected
  /\ Free
  /\ connected' = connected \cup {p}
  /\ UNCHANGED <<db, lock, pending, depth, raising, last, history, faults>>

\* close, outside of all blocks.
Close(p) ==
  /\ p \in connected /\ depth[p] = 0
  /\ connected' = connected \ {p}
  /\ UNCHANGED <<db, lock, pending, depth, raising, last, history, faults>>

\* transaction() outside of all blocks, or _write_transaction(); it raises
\* storage_begin_failed when the lock is not free.
Begin(p) ==
  /\ p \in connected /\ depth[p] = 0
  /\ Free
  /\ lock' = p
  /\ depth' = [depth EXCEPT ![p] = 1]
  /\ UNCHANGED <<db, pending, connected, raising, last, history, faults>>

Inside(p) == depth[p] > 0 /\ p \notin raising

\* transaction() inside of a block; _write_transaction() does nothing there.
Nest(p) ==
  /\ Inside(p) /\ depth[p] < MaxDepth
  /\ depth' = [depth EXCEPT ![p] = @ + 1]
  /\ UNCHANGED <<db, lock, pending, connected, raising, last, history, faults>>

\* A statement outside of a transaction would be committed at once.
Write(p) ==
  /\ Inside(p)
  /\ last < MaxRows
  /\ last' = last + 1
  /\ IF lock = p THEN pending' = pending \cup {last'} /\ UNCHANGED db
                 ELSE db' = db \cup {last'} /\ UNCHANGED pending
  /\ unit' = [unit EXCEPT ![p] = @ \cup {last'}]
  /\ UNCHANGED <<lock, connected, depth, raising, succeeded, failed, faults>>

Release(p) ==
  /\ lock' = IF lock = p THEN Nobody ELSE lock
  /\ pending' = IF lock = p THEN {} ELSE pending

\* A statement fails, the code in the block raises, or Ctrl-C is pressed.
\* SQLite may have rolled back already (a full disk, an I/O error).
Raise(p) ==
  /\ Inside(p)
  /\ Fault
  /\ raising' = raising \cup {p}
  /\ UNCHANGED <<lock, pending>> \/ Release(p)
  /\ UNCHANGED <<db, connected, depth, last, history>>

\* Only the outermost block ends the transaction.
Outermost(p) == depth[p] = 1

\* rollback(); when it fails too, _discard_connection() closes the connection.
Ended(p, discarded) ==
  /\ Release(p)
  /\ connected' = IF discarded THEN connected \ {p} ELSE connected

EndUnit(p) == unit' = [unit EXCEPT ![p] = {}]

RollBack(p, discarded) ==
  /\ Ended(p, discarded)
  /\ failed' = failed \cup unit[p]
  /\ depth' = [depth EXCEPT ![p] = @ - 1]
  /\ raising' = raising \ {p}
  /\ EndUnit(p)
  /\ UNCHANGED <<db, last, succeeded>>

\* An inner block ends, with or without an error.
LeaveInner(p) ==
  /\ depth[p] > 0 /\ ~ Outermost(p)
  /\ depth' = [depth EXCEPT ![p] = @ - 1]
  /\ UNCHANGED <<db, lock, pending, connected, raising, last, history, faults>>

Commit(p) ==
  /\ Inside(p) /\ Outermost(p)
  /\ db' = IF lock = p THEN db \cup pending ELSE db
  /\ Release(p)
  /\ succeeded' = succeeded \cup unit[p]
  /\ EndUnit(p)
  /\ depth' = [depth EXCEPT ![p] = @ - 1]
  /\ UNCHANGED <<connected, raising, last, failed, faults>>

\* The transaction fails to commit.
\* It is tried again instead of rolled back.
Bug_CommitFails(p) ==
  /\ Inside(p) /\ Outermost(p)
  /\ Fault
  /\ \E discarded \in BOOLEAN :
       /\ Ended(p, discarded)
       /\ failed' = failed \cup unit[p]
       /\ depth' = [depth EXCEPT ![p] = @ - 1]
  /\ db' = db \cup pending
  /\ EndUnit(p)
  /\ UNCHANGED <<raising, last, succeeded>>
CommitFails(p) ==
  /\ Inside(p) /\ Outermost(p)
  /\ Fault
  /\ \E discarded \in BOOLEAN : RollBack(p, discarded)

\* The exception reaches the outermost block.
Unwind(p) ==
  /\ p \in raising /\ Outermost(p)
  /\ \/ RollBack(p, FALSE) /\ UNCHANGED faults
     \/ RollBack(p, TRUE) /\ Fault

\* The process dies; the caller learns nothing.
Kill(p) ==
  /\ p \in connected
  /\ Fault
  /\ Release(p)
  /\ connected' = connected \ {p}
  /\ depth' = [depth EXCEPT ![p] = 0]
  /\ raising' = raising \ {p}
  /\ EndUnit(p)
  /\ UNCHANGED <<db, last, succeeded, failed>>

Next ==
  \E p \in Procs :
    \/ Initialize(p) \/ Close(p) \/ Begin(p) \/ Nest(p) \/ Write(p) \/ Raise(p)
    \/ LeaveInner(p) \/ Commit(p) \/ CommitFails(p) \/ Unwind(p) \/ Kill(p)

Spec == Init /\ [][Next]_vars

-----------------------------------------------------------------------------
TypeOK ==
  /\ {db, pending, succeeded, failed} \subseteq SUBSET Rows
  /\ lock \in Procs \cup {Nobody}
  /\ connected \subseteq Procs /\ raising \subseteq Procs
  /\ depth \in [Procs -> 0..MaxDepth]
  /\ last \in 0..MaxRows
  /\ unit \in [Procs -> SUBSET Rows]
  /\ faults \in Nat

\* The count of blocks tells the truth about the connection: a block that runs
\* is inside of a transaction, so that nothing it writes is committed by
\* itself, and no transaction is open when the last block has been left,
\* however it was left, so that the next BEGIN is possible.
DepthTruthful ==
  \A p \in Procs :
    /\ Inside(p) => lock = p
    /\ lock = p => depth[p] > 0 /\ p \in connected

\* The caller of a block is told the truth: after an error none of its rows
\* are in the database, at any later time, and without one all of them are.
ToldTruth ==
  /\ TypeOK /\ DepthTruthful
  /\ failed \cap db = {} /\ succeeded \subseteq db

\* The store is atomic, serial and durable.
Atomic == INSTANCE AtomicStore
  WITH store <- db, owner <- lock, unit <- pending
AtomicSpec == Atomic!Spec
=============================================================================
