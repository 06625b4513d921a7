---------------------------- MODULE StoreProofs -----------------------------
(***************************************************************************)
(* Proofs about Store, for any number of processes, rows and faults and    *)
(* any depth of nesting: what a caller is told is the truth, and the store *)
(* implements AtomicStore.                                                 *)
(*                                                                         *)
(* And proofs about Memory, a table of that store whose reads are no       *)
(* transactions: for any projects, entries and limit, what a search can    *)
(* return while other processes change the entries.                        *)
(***************************************************************************)
EXTENDS Store, Memory, FiniteSetTheorems, WellFoundedInduction, TLAPS

-----------------------------------------------------------------------------
(* The inductive invariant                                                  *)

\* The rows of a transaction are those of the outermost block of its owner.
Pending ==
  /\ lock = Nobody => pending = {}
  /\ \A p \in Procs : lock = p => pending = unit[p]

\* Blocks share no rows; those of a block that is not over are in no one's
\* account yet; only a process inside of a block has any or can be raising.
Units ==
  \A p \in Procs :
    /\ unit[p] \cap (db \cup failed) = {}
    /\ depth[p] = 0 => unit[p] = {} /\ p \notin raising
    /\ \A q \in Procs : q # p => unit[p] \cap unit[q] = {}

\* The next row is new.
Fresh ==
  /\ \A r \in db \cup failed : r <= last
  /\ \A p \in Procs : \A r \in unit[p] : r <= last

SInv == ToldTruth /\ Pending /\ Units /\ Fresh

-----------------------------------------------------------------------------
LEMMA InitSInv == Init => SInv
<1> SUFFICES ASSUME Init PROVE SInv
  OBVIOUS
<1> USE NobodyAssumption, StoreBoundsAssumption DEF Init
<1>1. TypeOK
  BY DEF TypeOK
<1>2. DepthTruthful
  <2>1. \A p \in Procs : depth[p] = 0 /\ lock # p
    OBVIOUS
  <2>2. ASSUME NEW p \in Procs PROVE ~ Inside(p)
    <3>1. depth[p] = 0 /\ ~ (0 > 0)
      BY <2>1
    <3> QED
      BY <3>1 DEF Inside
  <2> QED
    BY <2>1, <2>2 DEF DepthTruthful
<1>3. Pending /\ Units /\ Fresh
  BY DEF Pending, Units, Fresh
<1> QED
  BY <1>1, <1>2, <1>3 DEF SInv, ToldTruth

\* Steps that only move the depth of a process, or its connection.
LEMMA InitializeStep ==
  ASSUME SInv, NEW p \in Procs, Initialize(p) PROVE SInv'
BY DEF SInv, ToldTruth, TypeOK, DepthTruthful, Inside, Pending, Units, Fresh,
       Initialize, history

LEMMA CloseStep ==
  ASSUME SInv, NEW p \in Procs, Close(p) PROVE SInv'
BY DEF SInv, ToldTruth, TypeOK, DepthTruthful, Inside, Pending, Units, Fresh,
       Close, history

LEMMA NestStep ==
  ASSUME SInv, NEW p \in Procs, Nest(p) PROVE SInv'
<1> USE StoreBoundsAssumption
<1>1. TypeOK'
  BY DEF SInv, ToldTruth, TypeOK, Nest, Inside, history
<1>2. DepthTruthful'
  BY DEF SInv, ToldTruth, TypeOK, DepthTruthful, Nest, Inside, history
<1>3. (Pending /\ Units /\ Fresh)'
  BY DEF SInv, ToldTruth, TypeOK, Pending, Units, Fresh, Nest, Inside, history
<1> QED
  BY <1>1, <1>2, <1>3 DEF SInv, ToldTruth, Nest, history

LEMMA LeaveInnerStep ==
  ASSUME SInv, NEW p \in Procs, LeaveInner(p) PROVE SInv'
<1> USE StoreBoundsAssumption
<1>1. TypeOK'
  BY DEF SInv, ToldTruth, TypeOK, LeaveInner, Outermost, history
<1>2. DepthTruthful'
  BY DEF SInv, ToldTruth, TypeOK, DepthTruthful, LeaveInner, Outermost, Inside, history
<1>3. (Pending /\ Units /\ Fresh)'
  BY DEF SInv, ToldTruth, TypeOK, Pending, Units, Fresh, LeaveInner, Outermost, history
<1> QED
  BY <1>1, <1>2, <1>3 DEF SInv, ToldTruth, LeaveInner, history

LEMMA BeginStep ==
  ASSUME SInv, NEW p \in Procs, Begin(p) PROVE SInv'
<1> USE NobodyAssumption, StoreBoundsAssumption
<1>1. TypeOK'
  BY DEF SInv, ToldTruth, TypeOK, Begin, history
<1>2. DepthTruthful'
  BY DEF SInv, ToldTruth, TypeOK, DepthTruthful, Begin, Free, Inside, history
<1>3. (Pending /\ Units /\ Fresh)'
  BY DEF SInv, ToldTruth, TypeOK, Pending, Units, Fresh, Begin, Free, history
<1> QED
  BY <1>1, <1>2, <1>3 DEF SInv, ToldTruth, Begin, history

LEMMA WriteStep ==
  ASSUME SInv, NEW p \in Procs, Write(p) PROVE SInv'
<1> USE NobodyAssumption, StoreBoundsAssumption
<1>1. lock = p /\ pending' = pending \cup {last'} /\ UNCHANGED db
  BY DEF SInv, ToldTruth, DepthTruthful, Write
<1>2. last' = last + 1 /\ last' \in Rows /\ last \in Nat
  BY DEF SInv, ToldTruth, TypeOK, Write, Rows
<1>3. unit' = [unit EXCEPT ![p] = @ \cup {last'}] /\ unit \in [Procs -> SUBSET Rows]
  BY DEF SInv, ToldTruth, TypeOK, Write
<1>4. UNCHANGED <<lock, connected, depth, raising, succeeded, failed, faults>>
  BY DEF Write
<1>5. TypeOK'
  BY <1>1, <1>2, <1>3, <1>4 DEF SInv, ToldTruth, TypeOK, Rows
<1>6. DepthTruthful'
  BY <1>4 DEF SInv, ToldTruth, DepthTruthful, Inside
<1>7. Pending'
  BY <1>1, <1>3, <1>4 DEF SInv, Pending
<1>8. last' \notin db \cup failed /\ \A q \in Procs : last' \notin unit[q]
  BY <1>2 DEF SInv, Fresh
<1>9. Units'
  BY <1>1, <1>3, <1>4, <1>8 DEF SInv, ToldTruth, DepthTruthful, Units, Write, Inside
<1>10. Fresh'
  <2>1. Rows \subseteq Nat
    BY DEF Rows
  <2>2. (\A r \in db \cup failed : r \in Nat) /\ (\A q \in Procs : \A r \in unit[q] : r \in Nat)
    BY <2>1 DEF SInv, ToldTruth, TypeOK
  <2>3. \A r \in (db \cup failed)' : r <= last'
    BY <1>1, <1>2, <1>4, <2>2 DEF SInv, Fresh
  <2>4. ASSUME NEW q \in Procs, NEW r \in unit'[q] PROVE r <= last'
    BY <1>2, <1>3, <2>2 DEF SInv, Fresh
  <2> QED
    BY <2>3, <2>4 DEF Fresh
<1> QED
  BY <1>1, <1>4, <1>5, <1>6, <1>7, <1>9, <1>10 DEF SInv, ToldTruth

LEMMA RaiseStep ==
  ASSUME SInv, NEW p \in Procs, Raise(p) PROVE SInv'
<1> USE NobodyAssumption
<1>1. TypeOK'
  BY DEF SInv, ToldTruth, TypeOK, Raise, Release, Fault, history
<1>2. DepthTruthful'
  BY DEF SInv, ToldTruth, TypeOK, DepthTruthful, Raise, Release, Inside, history
<1>3. (Pending /\ Units /\ Fresh)'
  BY DEF SInv, ToldTruth, TypeOK, Pending, Units, Fresh, Raise, Release, Inside, history
<1> QED
  BY <1>1, <1>2, <1>3 DEF SInv, ToldTruth, Raise, history

LEMMA CommitStep ==
  ASSUME SInv, NEW p \in Procs, Commit(p) PROVE SInv'
<1> USE NobodyAssumption, StoreBoundsAssumption
<1>1. lock = p /\ pending = unit[p] /\ db' = db \cup unit[p]
  BY DEF SInv, ToldTruth, DepthTruthful, Pending, Commit
<1>2. lock' = Nobody /\ pending' = {}
  BY <1>1 DEF Commit, Release
<1>3. unit \in [Procs -> SUBSET Rows] /\ unit' = [unit EXCEPT ![p] = {}]
  BY DEF SInv, ToldTruth, TypeOK, Commit, EndUnit
<1>4. /\ depth \in [Procs -> 0..MaxDepth] /\ depth[p] = 1 /\ p \notin raising
      /\ depth' = [depth EXCEPT ![p] = 0]
      /\ succeeded' = succeeded \cup unit[p]
      /\ UNCHANGED <<connected, raising, last, failed, faults>>
  BY DEF SInv, ToldTruth, TypeOK, Commit, Outermost, Inside
<1>5. TypeOK'
  BY <1>1, <1>2, <1>3, <1>4 DEF SInv, ToldTruth, TypeOK
<1>6. DepthTruthful'
  BY <1>1, <1>2, <1>4 DEF SInv, ToldTruth, DepthTruthful, Inside
<1>7. Pending'
  BY <1>2 DEF Pending
<1>8. Units'
  BY <1>1, <1>3, <1>4 DEF SInv, Units
<1>9. Fresh'
  BY <1>1, <1>3, <1>4 DEF SInv, Fresh
<1>10. (failed \cap db = {} /\ succeeded \subseteq db)'
  BY <1>1, <1>4 DEF SInv, ToldTruth, Units
<1> QED
  BY <1>5, <1>6, <1>7, <1>8, <1>9, <1>10 DEF SInv, ToldTruth

\* A block that is given up: by a rollback, or with its process.
LEMMA GivenUp ==
  ASSUME SInv, NEW p \in Procs, Release(p),
         depth' = [depth EXCEPT ![p] = 0], raising' = raising \ {p}, EndUnit(p),
         connected' = connected \/ connected' = connected \ {p},
         failed' = failed \/ failed' = failed \cup unit[p],
         faults' \in Nat, UNCHANGED <<db, last, succeeded>>
  PROVE  SInv'
<1> USE NobodyAssumption, StoreBoundsAssumption
<1>1. unit \in [Procs -> SUBSET Rows] /\ unit' = [unit EXCEPT ![p] = {}]
  BY DEF SInv, ToldTruth, TypeOK, EndUnit
<1>2. TypeOK'
  BY <1>1 DEF SInv, ToldTruth, TypeOK, Release
<1>3. DepthTruthful'
  BY DEF SInv, ToldTruth, TypeOK, DepthTruthful, Inside, Release
<1>4. Pending'
  BY <1>1 DEF SInv, Pending, Release
<1>5. Units'
  BY <1>1 DEF SInv, ToldTruth, TypeOK, Units
<1>6. Fresh'
  BY <1>1 DEF SInv, Fresh
<1>7. (failed \cap db = {} /\ succeeded \subseteq db)'
  BY DEF SInv, ToldTruth, Units
<1> QED
  BY <1>2, <1>3, <1>4, <1>5, <1>6, <1>7 DEF SInv, ToldTruth

LEMMA RolledBackStep ==
  ASSUME SInv, NEW p \in Procs, Outermost(p), NEW discarded \in BOOLEAN,
         RollBack(p, discarded), faults' \in Nat
  PROVE  SInv'
<1>1. depth' = [depth EXCEPT ![p] = 0]
  BY DEF RollBack, Outermost
<1> QED
  BY <1>1, GivenUp DEF RollBack, Ended

LEMMA CommitFailsStep ==
  ASSUME SInv, NEW p \in Procs, CommitFails(p) PROVE SInv'
<1>1. faults' \in Nat
  BY DEF SInv, ToldTruth, TypeOK, CommitFails, Fault
<1> QED
  BY <1>1, RolledBackStep DEF CommitFails

LEMMA UnwindStep ==
  ASSUME SInv, NEW p \in Procs, Unwind(p) PROVE SInv'
<1>1. UNCHANGED faults \/ Fault
  BY DEF Unwind
<1>2. faults' \in Nat
  BY <1>1 DEF SInv, ToldTruth, TypeOK, Fault
<1> QED
  BY <1>2, RolledBackStep DEF Unwind

LEMMA KillStep ==
  ASSUME SInv, NEW p \in Procs, Kill(p) PROVE SInv'
<1>1. faults' \in Nat
  BY DEF SInv, ToldTruth, TypeOK, Kill, Fault
<1> QED
  BY <1>1, GivenUp DEF Kill

LEMMA NextSInv == SInv /\ [Next]_vars => SInv'
<1> SUFFICES ASSUME SInv, [Next]_vars PROVE SInv'
  OBVIOUS
<1>1. CASE UNCHANGED vars
  BY <1>1 DEF SInv, ToldTruth, TypeOK, DepthTruthful, Inside, Pending, Units, Fresh,
              vars, history
<1>2. CASE Next
  BY <1>2, InitializeStep, CloseStep, BeginStep, NestStep, WriteStep, RaiseStep,
     LeaveInnerStep, CommitStep, CommitFailsStep, UnwindStep, KillStep DEF Next
<1> QED
  BY <1>1, <1>2

THEOREM SInvHolds == Spec => []SInv
BY InitSInv, NextSInv, PTL DEF Spec

-----------------------------------------------------------------------------
\* After an error none of the rows of a block are in the database, at any later
\* time, and without one all of them are, however blocks are nested and however
\* bodies, commits and rollbacks fail (transaction, _discard_connection).
THEOREM CallersAreTold == Spec => []ToldTruth
<1>1. SInv => ToldTruth
  BY DEF SInv
<1> QED
  BY <1>1, SInvHolds, PTL

-----------------------------------------------------------------------------
(* The store implements AtomicStore                                         *)

LEMMA GivenUpIsDrop ==
  ASSUME NEW p \in Procs, Release(p), UNCHANGED db
  PROVE  Atomic!Drop(p) \/ UNCHANGED Atomic!vars
BY DEF Release, Atomic!Drop, Atomic!vars

LEMMA StepIsAtomic == SInv /\ [Next]_vars => [Atomic!Next]_(Atomic!vars)
<1> SUFFICES ASSUME SInv, [Next]_vars PROVE Atomic!Next \/ UNCHANGED Atomic!vars
  OBVIOUS
<1>1. CASE UNCHANGED vars
  BY <1>1 DEF vars, Atomic!vars
<1>2. ASSUME NEW p \in Procs,
             Initialize(p) \/ Close(p) \/ Nest(p) \/ LeaveInner(p)
      PROVE  UNCHANGED Atomic!vars
  BY <1>2 DEF Initialize, Close, Nest, LeaveInner, Atomic!vars
<1>3. ASSUME NEW p \in Procs, Begin(p) PROVE Atomic!Open(p)
  BY <1>3 DEF Begin, Free, Atomic!Open
<1>4. ASSUME NEW p \in Procs, Write(p) PROVE \E r \in Rows : Atomic!Put(p, r)
  <2>1. lock = p /\ pending = unit[p]
    BY <1>4 DEF SInv, ToldTruth, DepthTruthful, Pending, Write
  <2>2. last \in Nat /\ last' = last + 1 /\ last' \in Rows
    BY <1>4, StoreBoundsAssumption DEF SInv, ToldTruth, TypeOK, Write, Rows
  <2>3. last' \notin db \cup pending
    BY <2>1, <2>2 DEF SInv, Fresh
  <2>4. Atomic!Put(p, last')
    BY <1>4, <2>1, <2>3 DEF Write, Atomic!Put
  <2> QED
    BY <2>2, <2>4
<1>5. ASSUME NEW p \in Procs, Commit(p) PROVE Atomic!Publish(p)
  BY <1>5 DEF SInv, ToldTruth, DepthTruthful, Commit, Release, Atomic!Publish
<1>6. ASSUME NEW p \in Procs, Raise(p) \/ CommitFails(p) \/ Unwind(p) \/ Kill(p)
      PROVE  Atomic!Drop(p) \/ UNCHANGED Atomic!vars
  <2>1. UNCHANGED db /\ (Release(p) \/ UNCHANGED <<lock, pending>>)
    BY <1>6 DEF Raise, CommitFails, Unwind, Kill, RollBack, Ended
  <2> QED
    BY <2>1, GivenUpIsDrop DEF Atomic!vars
<1>7. CASE Next
  BY <1>7, <1>2, <1>3, <1>4, <1>5, <1>6 DEF Next, Atomic!Next
<1> QED
  BY <1>1, <1>7

\* Seen through its committed rows and the open transaction, the store does what
\* every other module takes for granted: a transaction happens as a whole or not
\* at all, one at a time, and is never lost (transaction, BEGIN IMMEDIATE).
THEOREM StoreIsAtomic == Spec => AtomicSpec
<1>1. Init => Atomic!Init
  BY DEF Init, Atomic!Init
<1> QED
  BY <1>1, SInvHolds, StepIsAtomic, PTL DEF Spec, AtomicSpec, Atomic!Spec

-----------------------------------------------------------------------------
(* Memory: sets of numbers                                                  *)

\* A set of numbers that is not empty has a least one.
LEMMA LeastOf ==
  ASSUME NEW S \in SUBSET Nat, S # {} PROVE \E m \in S : \A n \in S : m <= n
<1>1. PICK m \in S : \A y \in S : ~ (<<y, m>> \in OpToRel(<, Nat))
  BY NatLessThanWellFounded, WFMin
<1>2. \A y \in S : ~ (y < m) BY <1>1 DEF OpToRel
<1> QED BY <1>2

-----------------------------------------------------------------------------
(* Memory: the limit of a search                                            *)

Upto(S, k) == {j \in S : j <= k}

\* Counting the positions up to k decides whether the limit keeps k.
LEMMA UptoFacts ==
  ASSUME NEW n \in Nat, NEW S \in SUBSET (1..n)
  PROVE  /\ MaxReturned \in Nat
         /\ S \subseteq Nat /\ IsFiniteSet(S)
         /\ Bounded(S) \subseteq S /\ IsFiniteSet(Bounded(S))
         /\ Cardinality(Bounded(S)) \in Nat
         /\ \A k \in S : /\ IsFiniteSet(Upto(S, k))
                         /\ Cardinality(Upto(S, k)) \in Nat
                         /\ k \in Bounded(S) <=> Cardinality(Upto(S, k)) <= MaxReturned
<1> DEFINE B == Bounded(S)
<1>1. MaxReturned \in Nat BY ConstantsAssumption
<1>2. IsFiniteSet(1..n) BY FS_Interval
<1>3. S \subseteq Nat /\ IsFiniteSet(S)
  <2>1. S \subseteq 1..n OBVIOUS
  <2>2. IsFiniteSet(S) BY <1>2, <2>1, FS_Subset
  <2> QED BY <2>1, <2>2
<1>4. B = {k \in S : Cardinality(Upto(S, k)) <= MaxReturned}
  BY DEF Bounded, Upto
<1> HIDE DEF B
<1>5. B \subseteq S BY <1>4
<1>6. IsFiniteSet(B) BY <1>3, <1>5, FS_Subset
<1>7. Cardinality(B) \in Nat BY <1>6, FS_CardinalityType
<1>8. ASSUME NEW k \in S
      PROVE  /\ IsFiniteSet(Upto(S, k))
             /\ Cardinality(Upto(S, k)) \in Nat
             /\ k \in B <=> Cardinality(Upto(S, k)) <= MaxReturned
  <2>1. Upto(S, k) \subseteq S BY DEF Upto
  <2>2. IsFiniteSet(Upto(S, k)) BY <1>3, <2>1, FS_Subset
  <2>3. Cardinality(Upto(S, k)) \in Nat BY <2>2, FS_CardinalityType
  <2> QED BY <1>4, <2>2, <2>3
<1> QED BY <1>1, <1>3, <1>5, <1>6, <1>7, <1>8 DEF B

\* A limit keeps at most MaxReturned positions.
LEMMA BoundedFew ==
  ASSUME NEW n \in Nat, NEW S \in SUBSET (1..n)
  PROVE  Cardinality(Bounded(S)) <= MaxReturned
<1> DEFINE B == Bounded(S)
<1>1. /\ MaxReturned \in Nat
      /\ S \subseteq Nat /\ IsFiniteSet(S) /\ B \subseteq S /\ IsFiniteSet(B)
      /\ Cardinality(B) \in Nat
      /\ \A k \in S : /\ IsFiniteSet(Upto(S, k))
                      /\ Cardinality(Upto(S, k)) \in Nat
                      /\ k \in B <=> Cardinality(Upto(S, k)) <= MaxReturned
  BY UptoFacts
<1> SUFFICES Cardinality(B) <= MaxReturned OBVIOUS
<1> HIDE DEF B
<1>2. CASE B = {}
  <2>1. Cardinality(B) = 0 BY <1>2, FS_EmptySet
  <2> QED BY <1>1, <2>1
<1>3. CASE B # {}
  <2> DEFINE Above == {n - k : k \in B}
  <2>1. Above \in SUBSET Nat /\ Above # {}
    <3>1. \A k \in B : k \in Nat /\ k <= n
      <4>1. S \subseteq 1..n OBVIOUS
      <4> QED BY <1>1, <4>1
    <3>2. \A k \in B : n - k \in Nat BY <3>1
    <3> QED BY <1>3, <3>2
  <2>2. PICK a \in Above : \A y \in Above : a <= y BY <2>1, LeastOf
  <2>3. PICK k \in B : a = n - k BY <2>2
  <2>4. \A j \in B : j <= k
    <3> TAKE j \in B
    <3>1. n - j \in Above /\ j \in Nat /\ k \in Nat BY <1>1
    <3>2. n - k <= n - j BY <2>2, <2>3, <3>1
    <3> HIDE DEF Above
    <3> QED BY <3>1, <3>2
  <2>5. B \subseteq Upto(S, k) BY <1>1, <2>4 DEF Upto
  <2>6. k \in S BY <1>1
  <2>7. Cardinality(B) <= Cardinality(Upto(S, k)) BY <1>1, <2>5, <2>6, FS_Subset
  <2>8. Cardinality(Upto(S, k)) \in Nat /\ Cardinality(Upto(S, k)) <= MaxReturned
    BY <1>1, <2>6
  <2> QED BY <1>1, <2>7, <2>8
<1> QED BY <1>2, <1>3

\* What a limit leaves out comes after what it keeps, and then it keeps
\* MaxReturned.
LEMMA BoundedFirst ==
  ASSUME NEW n \in Nat, NEW S \in SUBSET (1..n),
         NEW k \in S, k \notin Bounded(S)
  PROVE  /\ \A j \in Bounded(S) : j < k
         /\ Cardinality(Bounded(S)) = MaxReturned
<1> DEFINE B == Bounded(S)
           Late == S \ B
<1>1. /\ MaxReturned \in Nat
      /\ S \subseteq Nat /\ IsFiniteSet(S) /\ B \subseteq S /\ IsFiniteSet(B)
      /\ Cardinality(B) \in Nat
      /\ \A m \in S : /\ IsFiniteSet(Upto(S, m))
                      /\ Cardinality(Upto(S, m)) \in Nat
                      /\ m \in B <=> Cardinality(Upto(S, m)) <= MaxReturned
  BY UptoFacts
<1>2. Cardinality(B) <= MaxReturned BY BoundedFew
<1>3. k \in Late OBVIOUS
<1> HIDE DEF B
<1>4. ASSUME NEW j \in B PROVE j < k
  <2>1. j \in S /\ j \in Nat /\ k \in Nat BY <1>1
  <2>2. SUFFICES ASSUME k <= j PROVE FALSE BY <2>1
  <2>3. Upto(S, k) \subseteq Upto(S, j)
    <3> SUFFICES ASSUME NEW i \in Upto(S, k) PROVE i \in Upto(S, j) OBVIOUS
    <3>1. i \in S /\ i \in Nat /\ i <= k BY <1>1 DEF Upto
    <3>2. i <= j BY <2>1, <2>2, <3>1
    <3> QED BY <3>1, <3>2 DEF Upto
  <2>4. Cardinality(Upto(S, k)) <= Cardinality(Upto(S, j)) BY <1>1, <2>1, <2>3, FS_Subset
  <2>5. Cardinality(Upto(S, j)) <= MaxReturned /\ ~ (Cardinality(Upto(S, k)) <= MaxReturned)
    BY <1>1, <1>3, <2>1
  <2>6. Cardinality(Upto(S, k)) \in Nat /\ Cardinality(Upto(S, j)) \in Nat BY <1>1, <2>1
  <2> QED BY <1>1, <2>4, <2>5, <2>6
<1>5. PICK m \in Late : \A y \in Late : m <= y
  <2>1. Late \in SUBSET Nat /\ Late # {} BY <1>1, <1>3
  <2> QED BY <2>1, LeastOf
<1> DEFINE Before == Upto(S, m) \ {m}
<1>6. m \in S /\ m \in Nat /\ m \notin B /\ m \in Upto(S, m) BY <1>1, <1>5 DEF Upto
<1>7. Before \subseteq B
  <2> SUFFICES ASSUME NEW j \in Before PROVE j \in B OBVIOUS
  <2>1. j \in S /\ j \in Nat /\ j <= m /\ j # m BY <1>1 DEF Upto
  <2>2. ~ (m <= j) BY <1>6, <2>1
  <2> QED BY <1>5, <2>1, <2>2
<1>8. Cardinality(Before) = Cardinality(Upto(S, m)) - 1
  BY <1>1, <1>6, FS_RemoveElement
<1>9. ~ (Cardinality(Upto(S, m)) <= MaxReturned) /\ Cardinality(Upto(S, m)) \in Nat
  BY <1>1, <1>6
<1>10. Cardinality(Before) <= Cardinality(B) BY <1>1, <1>7, FS_Subset
<1> HIDE DEF Before
<1>11. Cardinality(B) = MaxReturned BY <1>1, <1>2, <1>8, <1>9, <1>10
<1> QED BY <1>4, <1>11 DEF B

\* ORDER BY lists every row, and each once.
LEMMA ListsAll ==
  ASSUME NEW rows \in SUBSET Nat, IsFiniteSet(rows), NEW ids \in NewestFirst(rows)
  PROVE  /\ ids \in Seq(rows)
         /\ \A j, k \in DOMAIN ids : j < k => ids[j] > ids[k]
         /\ \A i \in rows : \E k \in DOMAIN ids : ids[k] = i
<1> DEFINE n == Cardinality(rows)
<1>1. n \in Nat BY FS_CardinalityType
<1>2. /\ ids \in [1..n -> rows]
      /\ \A j, k \in DOMAIN ids : j < k => ids[j] > ids[k]
  BY DEF NewestFirst
<1> HIDE DEF n
<1>3. ids \in Seq(rows) BY <1>1, <1>2
<1>4. IsFiniteSet(1..n) /\ Cardinality(1..n) = n
  <2>1. 1 \in Int /\ n \in Int BY <1>1
  <2>2. /\ IsFiniteSet(1..n)
        /\ Cardinality(1..n) = IF 1 > n THEN 0 ELSE n - 1 + 1
    BY <2>1, FS_Interval
  <2> QED BY <1>1, <2>2
<1>5. \A j, k \in 1..n : ids[j] = ids[k] => j = k
  <2> SUFFICES ASSUME NEW j \in 1..n, NEW k \in 1..n, j # k PROVE ids[j] # ids[k] OBVIOUS
  <2>1. ids[j] \in Nat /\ ids[k] \in Nat BY <1>2
  <2>2. j < k \/ k < j BY <1>1
  <2> QED BY <1>2, <2>1, <2>2
<1>6. ids \in Injection(1..n, rows) BY <1>2, <1>5 DEF Injection, IsInjective
<1>7. ids \in Surjection(1..n, rows)
  BY <1>4, <1>6, FS_Injection DEF n
<1> QED BY <1>2, <1>3, <1>7 DEF Surjection

-----------------------------------------------------------------------------
(* Memory: the inductive invariant                                          *)

\* What is active has been approved.
Remembered ==
  /\ MemoryTypeOK
  /\ \A i \in DOMAIN entries : entries[i].status = "ACTIVE" => i \in approved

SearchType ==
  search \in [pc : {"idle", "reading", "returned"}, project : Projects \cup {"none"},
              keywords : SUBSET Words, ids : Seq(Nat), values : Seq(Entries),
              result : SUBSET Nat]

\* The ids that a search has listed, of approved entries of its project, the
\* newest first: an entry that is deleted in the meantime is still one.
Listed ==
  \A j \in DOMAIN search.ids :
    /\ search.ids[j] \in approved
    /\ entries[search.ids[j]].project = search.project
    /\ \A k \in DOMAIN search.ids : j < k => search.ids[j] > search.ids[k]

\* What was read of an entry still tells what it matches.
ReadSoFar ==
  /\ Len(search.values) <= Len(search.ids)
  /\ \A k \in DOMAIN search.values :
       search.values[k].words = entries[search.ids[k]].words

\* A search that has returned read all that it listed.
Closed ==
  IF search.pc = "returned"
    THEN /\ Len(search.values) = Len(search.ids)
         /\ search.result = Found(DOMAIN search.ids)
    ELSE search.result = {}

MemInv == Remembered /\ SearchType /\ Listed /\ ReadSoFar /\ Closed

LEMMA InitMemInv == MemoryInit => MemInv
<1> SUFFICES ASSUME MemoryInit PROVE MemInv OBVIOUS
<1>1. entries = <<>> /\ approved = {} /\ outcome = "none" BY DEF MemoryInit
<1>2. /\ search.pc = "idle" /\ search.ids = <<>> /\ search.values = <<>>
      /\ search.result = {}
  BY DEF MemoryInit, NoSearch
<1>3. SearchType BY DEF MemoryInit, NoSearch, SearchType
<1> QED BY <1>1, <1>2, <1>3
     DEF MemInv, Remembered, MemoryTypeOK, ToSet, Listed, ReadSoFar, Closed

\* What no change of an entry touches.
Kept ==
  /\ DOMAIN entries \subseteq DOMAIN entries'
  /\ \A i \in DOMAIN entries : /\ entries'[i].project = entries[i].project
                               /\ entries'[i].words = entries[i].words

\* A search that is under way survives each change of the entries.
LEMMA EntriesStep ==
  ASSUME MemInv, Kept, UNCHANGED search, approved \subseteq approved', Remembered'
  PROVE  MemInv'
<1>1. SearchType' BY DEF MemInv, SearchType
<1>2. approved \subseteq DOMAIN entries BY DEF MemInv, Remembered, MemoryTypeOK
<1>3. Listed' BY <1>2 DEF MemInv, Listed, Kept
<1>4. ReadSoFar'
  <2>1. ASSUME NEW k \in DOMAIN search.values
        PROVE  search.values[k].words = entries'[search.ids[k]].words
    <3>1. k \in DOMAIN search.ids BY DEF MemInv, SearchType, ReadSoFar
    <3>2. search.ids[k] \in DOMAIN entries BY <1>2, <3>1 DEF MemInv, Listed
    <3> QED BY <3>2 DEF MemInv, ReadSoFar, Kept
  <2> QED BY <2>1 DEF MemInv, ReadSoFar
<1>5. Closed' BY DEF MemInv, Closed, Found, Bounded, Matching, Matches
<1> QED BY <1>1, <1>3, <1>4, <1>5 DEF MemInv

LEMMA CreateStep ==
  ASSUME MemInv, NEW p \in Projects, NEW words \in SUBSET Words,
         NEW status \in {"CANDIDATE"}, Create(p, words, status),
         UNCHANGED <<search, approved>>,
         outcome' \in {"none", "missing_validation_evidence", "active", "write_failed"}
  PROVE  MemInv'
<1> DEFINE e == [project |-> p, words |-> words, status |-> status]
<1>1. e \in Entries BY DEF Entries
<1>2. entries \in Seq(Entries) /\ entries' = Append(entries, e)
  BY DEF MemInv, Remembered, MemoryTypeOK, Create
<1>3. e.status = "CANDIDATE" OBVIOUS
<1> HIDE DEF e
<1>4. /\ entries' \in Seq(Entries)
      /\ DOMAIN entries' = 1..(Len(entries) + 1)
      /\ \A i \in DOMAIN entries : entries'[i] = entries[i]
      /\ entries'[Len(entries) + 1] = e
  BY <1>1, <1>2
<1>5. DOMAIN entries = 1..Len(entries) /\ Len(entries) \in Nat BY <1>2
<1>6. Kept BY <1>4, <1>5 DEF Kept
<1>7. Remembered' BY <1>3, <1>4, <1>5 DEF MemInv, Remembered, MemoryTypeOK, ToSet
<1> QED BY <1>6, <1>7, EntriesStep

LEMMA TransitionStep ==
  ASSUME MemInv, NEW i \in DOMAIN entries, NEW allowed,
         NEW target \in {"ACTIVE", "REJECTED", "DELETED"},
         Transition(i, allowed, target),
         approved' = IF target = "ACTIVE" THEN approved \cup {i} ELSE approved
  PROVE  MemInv'
<1>1. /\ entries \in Seq(Entries)
      /\ entries' = [entries EXCEPT ![i].status = target]
      /\ UNCHANGED <<search, outcome>>
  BY DEF MemInv, Remembered, MemoryTypeOK, Transition
<1>2. /\ DOMAIN entries' = DOMAIN entries
      /\ \A j \in DOMAIN entries : j # i => entries'[j] = entries[j]
      /\ entries'[i] = [entries[i] EXCEPT !.status = target]
  BY <1>1
<1>3. entries[i] \in Entries BY <1>1
<1>4. /\ entries'[i] \in Entries /\ entries'[i].status = target
      /\ entries'[i].project = entries[i].project
      /\ entries'[i].words = entries[i].words
  BY <1>2, <1>3 DEF Entries
<1>5. entries' \in Seq(Entries) BY <1>1, <1>2, <1>4
<1>6. Kept BY <1>2, <1>4 DEF Kept
<1>7. Remembered' BY <1>1, <1>2, <1>4, <1>5 DEF MemInv, Remembered, MemoryTypeOK, ToSet
<1> QED BY <1>1, <1>6, <1>7, EntriesStep

\* What is to become active by a validation never does.
LEMMA NoVerifiedFix ==
  ASSUME NEW evidence, HasSuccessfulValidation(evidence)
  PROVE  ~ Storable(evidence)
BY ConstantsAssumption DEF HasSuccessfulValidation, Storable

\* The rows that a search lists.
LEMMA ActiveFacts ==
  ASSUME MemInv, NEW p
  PROVE  /\ Active(p) \in SUBSET Nat /\ IsFiniteSet(Active(p))
         /\ Active(p) \subseteq approved
<1>1. entries \in Seq(Entries) BY DEF MemInv, Remembered, MemoryTypeOK
<1>2. DOMAIN entries = 1..Len(entries) /\ Len(entries) \in Nat BY <1>1
<1>3. Active(p) \subseteq 1..Len(entries) BY <1>2 DEF Active
<1>4. IsFiniteSet(1..Len(entries)) BY <1>2, FS_Interval
<1>5. IsFiniteSet(Active(p)) BY <1>3, <1>4, FS_Subset
<1>6. Active(p) \subseteq approved BY DEF MemInv, Remembered, Active
<1> QED BY <1>2, <1>3, <1>5, <1>6

LEMMA SearchIdsStep ==
  ASSUME MemInv, NEW p \in Projects, NEW keywords \in SUBSET Words,
         SearchIds(p, keywords)
  PROVE  MemInv'
<1>1. PICK ids \in NewestFirst(Active(p)) :
        search' = [NoSearch EXCEPT !.pc = "reading", !.project = p,
                                       !.keywords = keywords, !.ids = ids]
  BY DEF SearchIds
<1>2. UNCHANGED <<entries, outcome, approved>> BY DEF SearchIds
<1>3. /\ ids \in Seq(Active(p))
      /\ \A j, k \in DOMAIN ids : j < k => ids[j] > ids[k]
  BY ActiveFacts, ListsAll
<1>4. search' = [pc |-> "reading", project |-> p, keywords |-> keywords, ids |-> ids,
                 values |-> <<>>, result |-> {}]
  BY <1>1 DEF NoSearch
<1>5. \A j \in DOMAIN ids : ids[j] \in Active(p) BY <1>3
<1>6. ids \in Seq(Nat) BY <1>3, ActiveFacts
<1>7. SearchType' BY <1>4, <1>6 DEF SearchType
<1>8. Listed'
  BY <1>2, <1>3, <1>4, <1>5, ActiveFacts DEF Listed, Active
<1>9. ReadSoFar' /\ Closed' BY <1>4, <1>6 DEF ReadSoFar, Closed
<1>10. Remembered' BY <1>2, <1>4 DEF MemInv, Remembered, MemoryTypeOK, ToSet
<1> QED BY <1>7, <1>8, <1>9, <1>10 DEF MemInv

LEMMA SearchReadStep == ASSUME MemInv, SearchRead PROVE MemInv'
<1> DEFINE n == Len(search.values)
           e == entries[search.ids[n + 1]]
<1>1. /\ search.pc = "reading" /\ n < Len(search.ids)
      /\ search' = [search EXCEPT !.values = Append(@, entries[search.ids[Len(@) + 1]])]
      /\ UNCHANGED <<entries, outcome, approved>>
  BY DEF SearchRead
<1>2. /\ search.values \in Seq(Entries) /\ n \in Nat
      /\ search.ids \in Seq(Nat) /\ Len(search.ids) \in Nat
      /\ entries \in Seq(Entries)
  BY DEF MemInv, SearchType, Remembered, MemoryTypeOK
<1>3. e \in Entries
  <2>1. n + 1 \in DOMAIN search.ids BY <1>1, <1>2
  <2>2. search.ids[n + 1] \in DOMAIN entries
    BY <2>1 DEF MemInv, Listed, Remembered, MemoryTypeOK
  <2> QED BY <1>2, <2>2
<1>4. /\ search'.values = Append(search.values, e)
      /\ search'.ids = search.ids /\ search'.pc = "reading" /\ search'.result = search.result
      /\ search'.project = search.project /\ search'.keywords = search.keywords
  BY <1>1 DEF MemInv, SearchType
<1>5. /\ search'.values \in Seq(Entries)
      /\ Len(search'.values) = n + 1
      /\ \A k \in 1..n : search'.values[k] = search.values[k]
      /\ search'.values[n + 1] = e
  BY <1>2, <1>3, <1>4
<1>6. SearchType' BY <1>1, <1>5 DEF MemInv, SearchType
<1>7. Listed' BY <1>1, <1>4 DEF MemInv, Listed
<1>8. ReadSoFar'
  <2>1. ASSUME NEW k \in 1..(n + 1)
        PROVE  search'.values[k].words = entries[search.ids[k]].words
    <3>1. CASE k = n + 1 BY <1>5, <3>1
    <3>2. CASE k # n + 1
      <4>1. DOMAIN search.values = 1..n BY <1>2
      <4>2. n \in Nat /\ k # n + 1 /\ k \in 1..(n + 1) BY <1>2, <2>1, <3>2
      <4> HIDE DEF n
      <4>3. k \in 1..n BY <4>2
      <4> QED BY <1>5, <4>1, <4>3 DEF MemInv, ReadSoFar
    <3> QED BY <3>1, <3>2
  <2>2. DOMAIN search'.values = 1..(n + 1) BY <1>5
  <2>3. Len(search'.values) <= Len(search'.ids) BY <1>1, <1>2, <1>4, <1>5
  <2> QED BY <1>1, <1>4, <2>1, <2>2, <2>3 DEF ReadSoFar
<1>9. Closed' BY <1>1, <1>4 DEF MemInv, Closed
<1>10. Remembered'
  <2>1. ToSet(search'.values) \subseteq Entries BY <1>5 DEF ToSet
  <2> QED BY <1>1, <1>4, <2>1 DEF MemInv, Remembered, MemoryTypeOK
<1> QED BY <1>6, <1>7, <1>8, <1>9, <1>10 DEF MemInv

LEMMA SearchReturnStep == ASSUME MemInv, SearchReturn PROVE MemInv'
<1>1. /\ search.pc = "reading" /\ Len(search.values) = Len(search.ids)
      /\ search' = [search EXCEPT !.pc = "returned", !.result = Found(DOMAIN search.ids)]
      /\ UNCHANGED <<entries, outcome, approved>>
  BY DEF SearchReturn
<1>2. /\ search'.values = search.values /\ search'.ids = search.ids
      /\ search'.pc = "returned" /\ search'.result = Found(DOMAIN search.ids)
      /\ search'.project = search.project /\ search'.keywords = search.keywords
  BY <1>1 DEF MemInv, SearchType
<1>3. Found(DOMAIN search.ids) \subseteq DOMAIN search.ids
  BY DEF Found, Bounded, Matching
<1>4. DOMAIN search.ids \subseteq Nat BY DEF MemInv, SearchType
<1>5. Found(DOMAIN search.ids) \in SUBSET Nat BY <1>3, <1>4
<1>6. SearchType' BY <1>1, <1>5 DEF MemInv, SearchType
<1>7. Listed' /\ ReadSoFar' BY <1>1, <1>2 DEF MemInv, Listed, ReadSoFar
<1>8. Closed'
  BY <1>1, <1>2 DEF Closed, Found, Bounded, Matching, Matches
<1>9. Remembered' BY <1>1, <1>2 DEF MemInv, Remembered, MemoryTypeOK
<1> QED BY <1>6, <1>7, <1>8, <1>9 DEF MemInv

LEMMA NextMemInv == ASSUME MemInv, [MemoryNext]_memory PROVE MemInv'
<1> USE DEF MemoryNext
<1>1. ASSUME NEW p \in Projects, NEW words \in SUBSET Words,
             NEW evidence \in Recorded \cup {NoEvidence}, Propose(p, words, evidence)
      PROVE  MemInv'
  <2>1. outcome \in {"none", "missing_validation_evidence", "active", "write_failed"}
    BY DEF MemInv, Remembered, MemoryTypeOK
  <2> QED BY <1>1, <2>1, CreateStep DEF Propose, Proposed
<1>2. ASSUME NEW p \in Projects, NEW words \in SUBSET Words,
             NEW evidence \in Recorded \cup ValidationIds,
             VerifiedFix(p, words, evidence)
      PROVE  MemInv'
  <2>1. outcome' \in {"missing_validation_evidence", "write_failed"}
    BY <1>2, NoVerifiedFix DEF VerifiedFix
  <2>2. UNCHANGED <<entries, search, approved>> BY <1>2, <2>1 DEF VerifiedFix
  <2>3. Kept BY <2>2 DEF Kept
  <2>4. Remembered' BY <2>1, <2>2 DEF MemInv, Remembered, MemoryTypeOK
  <2> QED BY <2>2, <2>3, <2>4, EntriesStep
<1>3. ASSUME NEW p \in Projects, NEW words \in SUBSET Words, SearchIds(p, words)
      PROVE  MemInv'
  BY <1>3, SearchIdsStep
<1>4. ASSUME NEW i \in DOMAIN entries, Approve(i) \/ Reject(i) \/ Delete(i)
      PROVE  MemInv'
  BY <1>4, TransitionStep DEF Approve, Reject, Delete
<1>5. CASE UNCHANGED memory
  <2>1. UNCHANGED <<entries, search, outcome, approved>> BY <1>5 DEF memory
  <2> QED BY <2>1 DEF MemInv, Remembered, MemoryTypeOK, SearchType, Listed, ReadSoFar, Closed,
            Found, Bounded, Matching, Matches
<1> QED BY <1>1, <1>2, <1>3, <1>4, <1>5, SearchReadStep, SearchReturnStep

-----------------------------------------------------------------------------
(* Memory: the theorems                                                     *)

\* The invariant holds of every behaviour.
THEOREM MemInvHolds == MemorySpec => []MemInv
BY InitMemInv, NextMemInv, PTL DEF MemorySpec

\* What the result of a search consists of.
LEMMA ResultFacts ==
  ASSUME MemInv
  PROVE  /\ search.result \subseteq DOMAIN search.ids
         /\ Returned \subseteq approved
         /\ \A i \in Returned : entries[i].project = search.project
         /\ Cardinality(search.result) <= MaxReturned
<1> DEFINE M == Matching(DOMAIN search.ids)
<1>1. DOMAIN search.ids = 1..Len(search.ids) /\ Len(search.ids) \in Nat
  BY DEF MemInv, SearchType
<1>2. M \in SUBSET (1..Len(search.ids)) BY <1>1 DEF Matching
<1>3. CASE search.pc = "returned"
  <2>1. search.result = Bounded(M) BY <1>3 DEF MemInv, Closed, Found
  <2>2. search.result \subseteq DOMAIN search.ids
    BY <2>1 DEF Bounded, Matching
  <2>3. Cardinality(search.result) <= MaxReturned
    BY <1>1, <1>2, <2>1, BoundedFew
  <2> QED BY <2>2, <2>3 DEF MemInv, Listed, Returned
<1>4. CASE search.pc # "returned"
  <2>1. search.result = {} BY <1>4 DEF MemInv, Closed
  <2>2. Cardinality(search.result) = 0 /\ MaxReturned \in Nat
    BY <2>1, FS_EmptySet, ConstantsAssumption
  <2> QED BY <2>1, <2>2 DEF Returned
<1> QED BY <1>3, <1>4

\* The model is told at most MaxReturned entries, of its project, that the user
\* has approved, whatever changes while they are searched; what was rejected or
\* deleted is never active again, and no validation makes an entry active.
THEOREM SearchTellsOnlyApproved == MemorySpec => OnlyApproved
<1> DEFINE State == /\ MemoryTypeOK
                    /\ Returned \subseteq approved
                    /\ \A i \in Returned : entries[i].project = search.project
                    /\ Cardinality(search.result) <= MaxReturned
           Gone == \A i \in DOMAIN entries :
                     entries[i].status \in {"REJECTED", "DELETED"} =>
                       entries'[i].status \in {entries[i].status, "DELETED"}
<1>1. ASSUME MemInv PROVE State
  BY <1>1, ResultFacts DEF MemInv, Remembered
<1>2. ASSUME MemInv, [MemoryNext]_memory PROVE Gone
  <2> SUFFICES ASSUME NEW i \in DOMAIN entries, entries[i].status \in {"REJECTED", "DELETED"}
               PROVE  entries'[i].status \in {entries[i].status, "DELETED"}
    OBVIOUS
  <2>1. entries \in Seq(Entries) BY <1>2 DEF MemInv, Remembered, MemoryTypeOK
  <2>2. ASSUME NEW p, NEW words, NEW status, Create(p, words, status)
        PROVE  entries'[i] = entries[i]
    <3> DEFINE e == [project |-> p, words |-> words, status |-> status]
    <3>1. entries' = Append(entries, e) BY <2>2 DEF Create
    <3> HIDE DEF e
    <3> QED BY <2>1, <3>1
  <2>3. ASSUME NEW j \in DOMAIN entries, Approve(j) \/ Reject(j) \/ Delete(j)
        PROVE  entries'[i].status \in {entries[i].status, "DELETED"}
    <3>1. CASE i # j
      BY <2>3, <3>1 DEF Approve, Reject, Delete, Transition
    <3>2. CASE i = j
      <4>1. entries[i] \in Entries BY <2>1
      <4>2. Delete(i)
        BY <2>3, <3>2 DEF Approve, Reject, Transition
      <4> QED BY <4>1, <4>2 DEF Delete, Transition, Entries
    <3> QED BY <3>1, <3>2
  <2>4. \/ \E p, words, status : Create(p, words, status)
        \/ UNCHANGED entries
        \/ \E j \in DOMAIN entries : Approve(j) \/ Reject(j) \/ Delete(j)
    BY <1>2 DEF MemoryNext, memory, Propose, VerifiedFix, SearchIds,
         SearchRead, SearchReturn
  <2> QED BY <2>2, <2>3, <2>4
<1>3. MemInv /\ [MemoryNext]_memory => [Gone]_memory BY <1>2
<1> QED BY <1>1, <1>3, MemInvHolds, PTL DEF MemorySpec, OnlyApproved

\* An entry that a search lists and does not return, though it matches, has
\* MaxReturned newer ones before it.
THEOREM SearchMissesNothing == MemorySpec => []NewestMatching
<1>1. ASSUME MemInv PROVE NewestMatching
  <2> SUFFICES ASSUME search.pc = "returned", NEW i \in ToSet(search.ids) \ Returned,
                      Matches(entries[i])
               PROVE  /\ Cardinality(search.result) = MaxReturned
                      /\ \A j \in Returned : j > i
    BY DEF NewestMatching
  <2> DEFINE n == Len(search.ids)
             M == Matching(DOMAIN search.ids)
  <2>1. /\ DOMAIN search.ids = 1..n /\ n \in Nat
        /\ DOMAIN search.values = 1..n
        /\ search.result = Bounded(M)
    BY <1>1 DEF MemInv, SearchType, Closed, Found
  <2>2. M \in SUBSET (1..n) BY <2>1 DEF Matching
  <2>3. PICK k \in 1..n : i = search.ids[k] BY <2>1 DEF ToSet
  <2>4. search.values[k].words = entries[i].words
    BY <1>1, <2>1, <2>3 DEF MemInv, ReadSoFar
  <2>5. k \in M BY <2>1, <2>3, <2>4 DEF Matching, Matches
  <2>6. k \notin search.result BY <2>3 DEF Returned
  <2> HIDE DEF M
  <2>7. /\ \A j \in search.result : j < k
        /\ Cardinality(search.result) = MaxReturned
    BY <2>1, <2>2, <2>5, <2>6, BoundedFirst
  <2>8. ASSUME NEW r \in Returned PROVE r > i
    <3>1. PICK j \in search.result : r = search.ids[j] BY DEF Returned
    <3>2. j \in 1..n BY <1>1, <2>1, <3>1, ResultFacts
    <3>3. j < k BY <2>7, <3>1
    <3> QED BY <1>1, <2>1, <2>3, <3>1, <3>2, <3>3 DEF MemInv, Listed
  <2> QED BY <2>7, <2>8
<1> QED BY <1>1, MemInvHolds, PTL
=============================================================================
