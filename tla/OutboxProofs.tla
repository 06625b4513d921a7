---------------------------- MODULE OutboxProofs ----------------------------
(***************************************************************************)
(* Proofs about AuditOutbox, for any number of processes, events and       *)
(* faults: the file tells the events in order, nobody acts ahead of it,    *)
(* and what goes wrong with it is bounded by what has failed.              *)
(***************************************************************************)
EXTENDS AuditOutbox, FiniteSetTheorems, TLAPS

-----------------------------------------------------------------------------
(* The inductive invariant                                                  *)

Holds(p) == pc[p] \in {"append", "mark"}

\* A process is between BEGIN IMMEDIATE and COMMIT exactly while it is the one
\* that the database admits, and the row in its hand is the oldest unflushed one.
Locked == \A p \in Procs : Holds(p) <=> writer = p
InHand == \A p \in Procs : Holds(p) => IsNext(row[p])

\* The event of the last line is the last one flushed, or the one after it.
Top ==
  /\ flushed \subseteq 1..last
  /\ file = <<>> => flushed = {}
  /\ file # <<>> => /\ 1..(file[Len(file)].event - 1) \subseteq flushed
                    /\ flushed \subseteq 1..file[Len(file)].event

\* Between the append and the commit the last line is that of the row in hand.
Marking ==
  \A p \in Procs : pc[p] = "mark" =>
    /\ file # <<>>
    /\ file[Len(file)].event = row[p]
    /\ file[Len(file)].kind # "torn"

\* The change of a command is committed.
Committed == \A p \in Procs : mine[p] <= last

IInv ==
  /\ FileOrdered /\ ActAfterAudit
  /\ Locked /\ InHand /\ Top /\ Marking /\ Committed

\* A torn line is not marked: the row is tried again. So an event without a
\* line of its own that was marked, or is about to be, has a torn line too.
Torn == {file[i].event : i \in {j \in 1..Len(file) : file[j].kind = "torn"}}

TornTop ==
  file # <<>> /\ file[Len(file)].kind = "torn"
    => file[Len(file)].event \notin flushed

Accounted ==
  /\ \A e \in flushed : Readable(e) \/ e \in Torn
  /\ \A p \in Procs : pc[p] = "mark" => Readable(row[p]) \/ row[p] \in Torn

Marks == {p \in Procs : pc[p] = "mark"}

DInv ==
  /\ Len(file) <= Cardinality(flushed) + faults + Cardinality(Marks)
  /\ Cardinality(Torn) <= faults
  /\ TornTop /\ Accounted

-----------------------------------------------------------------------------
(* One more line                                                            *)

LEMMA LineFacts ==
  ASSUME NEW e \in Events, NEW torn \in BOOLEAN
  PROVE  /\ Line(e, torn) \in [event : Events, kind : Kinds]
         /\ Line(e, torn).event = e
         /\ Line(e, torn).kind = "torn" <=> torn
BY DEF Line, Kinds

LEMMA LineType ==
  ASSUME NEW S, NEW f \in Seq(S), NEW i \in 1..Len(f) PROVE f[i] \in S
OBVIOUS

LEMMA LastLine ==
  ASSUME NEW S, NEW f \in Seq(S), f # <<>>
  PROVE  Len(f) \in Nat \ {0} /\ f[Len(f)] \in S
<1>1. Len(f) \in Nat /\ f \in [1..Len(f) -> S] OBVIOUS
<1>2. Len(f) # 0 OBVIOUS
<1> QED BY <1>1, <1>2

\* The oldest unflushed event is that of the last line or the one after it.
LEMMA NextOnTop ==
  ASSUME TypeOK, Top, NEW e, IsNext(e)
  PROVE  /\ e \in Events /\ e \notin flushed /\ 1..(e - 1) \subseteq flushed
         /\ flushed \subseteq 1..e
         /\ file = <<>> => e = 1
         /\ file # <<>> =>
              e \in {file[Len(file)].event, file[Len(file)].event + 1}
<1>1. last \in Nat /\ MaxEvents \in Nat /\ e \in Nat \ {0} /\ e <= last
      /\ last <= MaxEvents /\ e \notin flushed
  BY BoundsAssumption DEF TypeOK, Events, IsNext, Unflushed
<1>2. 1..(e - 1) \subseteq flushed
  BY <1>1 DEF IsNext, Unflushed
<1>3. CASE file = <<>>
  BY <1>1, <1>2, <1>3 DEF Top, Events
<1>4. CASE file # <<>>
  <2> DEFINE m == file[Len(file)].event
  <2>0. file[Len(file)] \in [event : Events, kind : Kinds]
    BY <1>4, LastLine DEF TypeOK
  <2>1. m \in Nat \ {0} BY <1>1, <2>0 DEF Events
  <2>2. 1..(m - 1) \subseteq flushed /\ flushed \subseteq 1..m BY <1>4 DEF Top
  <2> HIDE DEF m
  <2>3. m <= e BY <1>1, <2>1, <2>2
  <2>4. e <= m + 1 BY <1>1, <1>2, <2>1, <2>2
  <2>5. e \in {m, m + 1} BY <1>1, <2>1, <2>3, <2>4
  <2>6. flushed \subseteq 1..e BY <1>1, <2>1, <2>2, <2>3
  <2> QED BY <1>1, <1>2, <1>4, <2>5, <2>6 DEF m, Events
<1> QED BY <1>3, <1>4

LEMMA InWritten ==
  ASSUME NEW e
  PROVE  e \in Written <=>
           \E i \in 1..Len(file) : file[i].kind # "torn" /\ file[i].event = e
BY DEF Written

LEMMA AppendLemma ==
  ASSUME IInv, NEW e, IsNext(e), NEW torn \in BOOLEAN,
         file' = Append(file, Line(e, torn)), UNCHANGED <<last, flushed>>
  PROVE  /\ file' \in Seq([event : Events, kind : Kinds])
         /\ file' # <<>> /\ file'[Len(file')] = Line(e, torn)
         /\ Top'
         /\ file'[1].event = 1
         /\ \A i \in 1..(Len(file') - 1) :
              file'[i + 1].event \in {file'[i].event, file'[i].event + 1}
         /\ Written \subseteq Written'
         /\ ~torn => e \in Written'
<1> DEFINE l == Line(e, torn)
<1>1. TypeOK /\ Top /\ FileOrdered BY DEF IInv, FileOrdered
<1>2. /\ e \in Events /\ e \notin flushed /\ 1..(e - 1) \subseteq flushed
      /\ flushed \subseteq 1..e
      /\ file = <<>> => e = 1
      /\ file # <<>> =>
              e \in {file[Len(file)].event, file[Len(file)].event + 1}
  BY <1>1, NextOnTop
<1>3. l \in [event : Events, kind : Kinds] /\ l.event = e /\ (l.kind = "torn" <=> torn)
  BY <1>2, LineFacts
<1> HIDE DEF l
<1>4. file \in Seq([event : Events, kind : Kinds]) BY <1>1 DEF TypeOK
<1>5. file' = Append(file, l) BY DEF l
<1>6. /\ file' \in Seq([event : Events, kind : Kinds])
      /\ Len(file') = Len(file) + 1 /\ Len(file) \in Nat
      /\ file'[Len(file) + 1] = l
      /\ \A i \in 1..Len(file) : file'[i] = file[i]
  BY <1>3, <1>4, <1>5
<1>7. file' # <<>> /\ file'[Len(file')] = l BY <1>6
<1>8. Top' BY <1>1, <1>2, <1>3, <1>7 DEF Top
<1>9. file'[1].event = 1
  BY <1>1, <1>2, <1>3, <1>4, <1>6 DEF FileOrdered
<1>10. ASSUME NEW i \in 1..(Len(file') - 1)
       PROVE  file'[i + 1].event \in {file'[i].event, file'[i].event + 1}
  <2>1. CASE i = Len(file) BY <1>2, <1>3, <1>4, <1>6, <2>1
  <2>2. CASE i # Len(file)
    <3>1. i \in 1..(Len(file) - 1) /\ i + 1 \in 1..Len(file) /\ i \in 1..Len(file)
      BY <1>6, <2>2
    <3> QED BY <1>1, <1>6, <3>1 DEF FileOrdered
  <2> QED BY <2>1, <2>2
<1>11. ASSUME NEW f PROVE f \in Written' <=>
           \E i \in 1..Len(file') : file'[i].kind # "torn" /\ file'[i].event = f
  BY DEF Written
<1>12. Written \subseteq Written'
  <2> SUFFICES ASSUME NEW f \in Written PROVE f \in Written' OBVIOUS
  <2>1. PICK i \in 1..Len(file) : file[i].kind # "torn" /\ file[i].event = f
    BY InWritten
  <2>2. i \in 1..Len(file') BY <1>6
  <2> QED BY <1>6, <1>11, <2>1, <2>2
<1>13. ~torn => e \in Written'
  <2>1. Len(file) + 1 \in 1..Len(file') BY <1>6
  <2> QED BY <1>3, <1>6, <1>11, <2>1
<1> QED BY <1>6, <1>7, <1>8, <1>9, <1>10, <1>12, <1>13 DEF l

-----------------------------------------------------------------------------
(* The invariant is inductive                                               *)

LEMMA InitIInv == Init => IInv
<1> SUFFICES ASSUME Init PROVE IInv OBVIOUS
<1> USE NoProcAssumption, BoundsAssumption DEF Init
<1>1. TypeOK BY DEF TypeOK, Pcs
<1>2. FileOrdered BY <1>1 DEF FileOrdered
<1>3. ActAfterAudit /\ Locked /\ InHand /\ Top /\ Marking /\ Committed
  BY DEF ActAfterAudit, Locked, InHand, Holds, Top, Marking, Committed
<1> QED BY <1>2, <1>3 DEF IInv

\* What was flushed and written stays so when the tables and the file do not
\* change, or more is written.
LEMMA StillTop ==
  ASSUME IInv, UNCHANGED <<last, flushed, file>> PROVE Top'
BY DEF IInv, Top

LEMMA StillOrdered ==
  ASSUME IInv, TypeOK', UNCHANGED <<flushed, file>> PROVE FileOrdered' /\ Written' = Written
BY DEF IInv, FileOrdered, Written

\* Raising gives the lock back, and the row with it.
LEMMA RaiseStep ==
  ASSUME IInv, NEW p \in Procs, Raise(p), UNCHANGED <<last, flushed, file, acted>>,
         faults' \in Nat
  PROVE  IInv'
<1> USE DEF IInv, FileOrdered
<1>1. TypeOK' BY DEF Raise, TypeOK, Pcs
<1>2. FileOrdered' /\ Written' = Written BY <1>1, StillOrdered
<1>3. ActAfterAudit' BY <1>2 DEF ActAfterAudit
<1>4. Locked' BY NoProcAssumption DEF Locked, Holds, Raise, TypeOK
<1>5. InHand' BY DEF InHand, Holds, Raise, TypeOK, IsNext, Unflushed
<1>6. Marking' BY DEF Marking, Raise, TypeOK
<1>7. Committed' BY BoundsAssumption DEF Committed, Raise, TypeOK, Events
<1> QED BY <1>2, <1>3, <1>4, <1>5, <1>6, <1>7, StillTop

LEMMA StartStep == ASSUME IInv, NEW p \in Procs, Start(p) PROVE IInv'
<1> USE DEF IInv, FileOrdered, Start, Go
<1>1. TypeOK' BY DEF TypeOK, Pcs
<1>2. FileOrdered' /\ Written' = Written BY <1>1, StillOrdered
<1>3. ActAfterAudit' BY <1>2 DEF ActAfterAudit
<1>4. Locked' /\ InHand'
  BY DEF Locked, InHand, Holds, TypeOK, IsNext, Unflushed
<1>5. Marking' /\ Committed' BY DEF Marking, Committed, TypeOK
<1> QED BY <1>2, <1>3, <1>4, <1>5, StillTop

\* Nobody has a row in hand while the database admits another writer.
LEMMA NobodyHolds ==
  ASSUME IInv, Unlocked PROVE \A q \in Procs : ~ Holds(q)
BY NoProcAssumption DEF IInv, Locked, Unlocked

LEMMA EnqueueStep == ASSUME IInv, NEW p \in Procs, Enqueue(p) PROVE IInv'
<1>1. PICK n \in {1, 3} :
        last + n \in Events /\ last' = last + n /\ mine' = [mine EXCEPT ![p] = last + n]
  BY DEF Enqueue
<1> USE DEF IInv, FileOrdered, Go
<1>2. /\ pc' = [pc EXCEPT ![p] = "flush"] /\ Unlocked
      /\ UNCHANGED <<flushed, file, writer, row, acted, faults>>
  BY DEF Enqueue
<1>3. TypeOK' BY <1>1, <1>2 DEF TypeOK, Pcs
<1>4. FileOrdered' /\ Written' = Written BY <1>2, <1>3, StillOrdered
<1>5. ActAfterAudit' BY <1>2, <1>4 DEF ActAfterAudit
<1>6. \A q \in Procs : ~ Holds(q)' BY <1>2, NobodyHolds DEF Holds, TypeOK
<1>7. Locked' /\ InHand' /\ Marking'
  BY <1>2, <1>6, NoProcAssumption DEF Locked, InHand, Marking, Holds, Unlocked
<1>8. last \in Nat /\ last' \in Nat /\ last <= last'
  BY <1>1, BoundsAssumption DEF TypeOK, Events
<1>9. Top' BY <1>2, <1>8 DEF Top
<1>10. \A q \in Procs : mine[q] \in Nat
  BY BoundsAssumption DEF TypeOK, Events
<1>11. Committed' BY <1>1, <1>8, <1>10 DEF Committed, TypeOK
<1> QED BY <1>4, <1>5, <1>7, <1>9, <1>11

LEMMA BeginRoundStep == ASSUME IInv, NEW p \in Procs, BeginRound(p) PROVE IInv'
<1>1. PICK e \in Unflushed : IsNext(e) /\ row' = [row EXCEPT ![p] = e]
  BY DEF BeginRound
<1> USE DEF IInv, FileOrdered, Go
<1>2. /\ pc' = [pc EXCEPT ![p] = "append"] /\ Unlocked /\ writer' = p
      /\ UNCHANGED <<last, flushed, file, mine, acted, faults>>
  BY DEF BeginRound
<1>3. e \in Events BY <1>1, NextOnTop
<1>4. TypeOK' BY <1>1, <1>2, <1>3 DEF TypeOK, Pcs
<1>5. FileOrdered' /\ Written' = Written BY <1>2, <1>4, StillOrdered
<1>6. ActAfterAudit' BY <1>2, <1>5 DEF ActAfterAudit
<1>7. \A q \in Procs : Holds(q)' <=> q = p
  BY <1>2, NobodyHolds DEF Holds, TypeOK
<1>8. Locked' BY <1>2, <1>7 DEF Locked
<1>9. IsNext(e)' BY <1>1, <1>2 DEF IsNext, Unflushed
<1>10. row'[p] = e BY <1>1 DEF TypeOK
<1>11. InHand' BY <1>7, <1>9, <1>10 DEF InHand, IsNext
<1>12. Marking' BY <1>2, <1>7 DEF Marking, Holds, TypeOK
<1>13. Committed' BY <1>2 DEF Committed
<1> QED BY <1>2, <1>5, <1>6, <1>8, <1>11, <1>12, <1>13, StillTop

LEMMA FlushedOldStep == ASSUME IInv, NEW p \in Procs, FlushedOld(p) PROVE IInv'
<1> USE DEF IInv, FileOrdered, FlushedOld, Go
<1>1. TypeOK' BY DEF TypeOK, Pcs
<1>2. FileOrdered' /\ Written' = Written BY <1>1, StillOrdered
<1>3. ActAfterAudit' BY <1>2 DEF ActAfterAudit
<1>4. Locked' /\ InHand'
  BY DEF Locked, InHand, Holds, TypeOK, IsNext, Unflushed
<1>5. Marking' /\ Committed' BY DEF Marking, Committed, TypeOK
<1> QED BY <1>2, <1>3, <1>4, <1>5, StillTop

\* Nothing is left unflushed, so the events of the command are in the file.
LEMMA FlushedNewStep == ASSUME IInv, NEW p \in Procs, FlushedNew(p) PROVE IInv'
<1> USE DEF IInv, FileOrdered, FlushedNew, Go
<1>1. mine[p] \in Events /\ last \in Nat /\ mine[p] \in Nat /\ mine[p] <= last
  BY BoundsAssumption DEF TypeOK, Committed, Events
<1>2. TypeOK' BY <1>1 DEF TypeOK, Pcs
<1>3. FileOrdered' /\ Written' = Written BY <1>2, StillOrdered
<1>4. 1..mine[p] \subseteq Written BY <1>1 DEF Unflushed
<1>5. ActAfterAudit' BY <1>3, <1>4 DEF ActAfterAudit
<1>6. Locked' /\ InHand'
  BY DEF Locked, InHand, Holds, TypeOK, IsNext, Unflushed
<1>7. Marking' BY DEF Marking, TypeOK
<1>8. Committed' BY <1>1 DEF Committed, TypeOK
<1> QED BY <1>3, <1>5, <1>6, <1>7, <1>8, StillTop

LEMMA AppendLineStep == ASSUME IInv, NEW p \in Procs, AppendLine(p) PROVE IInv'
<1> USE DEF IInv, FileOrdered, Go
<1>1. /\ pc[p] = "append" /\ file' = Append(file, Line(row[p], FALSE))
      /\ pc' = [pc EXCEPT ![p] = "mark"]
      /\ UNCHANGED <<last, flushed, writer, row, mine, acted, faults>>
  BY DEF AppendLine
<1>2. Holds(p) /\ IsNext(row[p]) BY <1>1 DEF Holds, InHand
<1>3. row[p] \in Events BY <1>2, NextOnTop
<1>4. /\ file' \in Seq([event : Events, kind : Kinds])
      /\ file' # <<>> /\ file'[Len(file')] = Line(row[p], FALSE)
      /\ Top'
      /\ file'[1].event = 1
      /\ \A i \in 1..(Len(file') - 1) :
              file'[i + 1].event \in {file'[i].event, file'[i].event + 1}
      /\ Written \subseteq Written' /\ row[p] \in Written'
  BY <1>1, <1>2, AppendLemma
<1>5. TypeOK' BY <1>1, <1>4 DEF TypeOK, Pcs
<1>6. FileOrdered' BY <1>1, <1>4, <1>5
<1>7. ActAfterAudit' BY <1>1, <1>4 DEF ActAfterAudit
<1>8. \A q \in Procs : Holds(q)' <=> Holds(q) BY <1>1, <1>2 DEF Holds, TypeOK
<1>9. Locked' /\ InHand'
  BY <1>1, <1>8 DEF Locked, InHand, IsNext, Unflushed
<1>10. Marking'
  <2> SUFFICES ASSUME NEW q \in Procs, pc'[q] = "mark"
               PROVE  /\ file' # <<>>
                      /\ file'[Len(file')].event = row'[q]
                      /\ file'[Len(file')].kind # "torn"
    BY DEF Marking
  <2>1. q = p BY <1>1, <1>8, <1>2 DEF Holds, Locked
  <2> QED BY <1>1, <1>3, <1>4, <2>1, LineFacts
<1>11. Committed' BY <1>1 DEF Committed
<1> QED BY <1>4, <1>6, <1>7, <1>9, <1>10, <1>11

LEMMA AppendFailsStep == ASSUME IInv, NEW p \in Procs, AppendFails(p) PROVE IInv'
<1>1. /\ pc[p] = "append" /\ Raise(p)
      /\ UNCHANGED <<last, flushed, acted>>
  BY DEF AppendFails
<1>2. faults' \in Nat BY DEF AppendFails, Fault, IInv, FileOrdered, TypeOK
<1>3. CASE UNCHANGED file BY <1>1, <1>2, <1>3, RaiseStep
<1>4. ASSUME NEW torn \in BOOLEAN, file' = Append(file, Line(row[p], torn))
      PROVE  IInv'
  <2> USE DEF IInv, FileOrdered
  <2>1. Holds(p) /\ IsNext(row[p]) /\ writer = p BY <1>1 DEF Holds, InHand, Locked
  <2>2. /\ file' \in Seq([event : Events, kind : Kinds])
        /\ Top'
        /\ file'[1].event = 1
        /\ \A i \in 1..(Len(file') - 1) :
              file'[i + 1].event \in {file'[i].event, file'[i].event + 1}
        /\ Written \subseteq Written'
    BY <1>1, <1>4, <2>1, AppendLemma
  <2>3. TypeOK' BY <1>1, <1>2, <2>2 DEF Raise, TypeOK, Pcs
  <2>4. FileOrdered' BY <1>1, <2>2, <2>3
  <2>5. ActAfterAudit' BY <1>1, <2>2 DEF ActAfterAudit
  <2>6. writer' = NoProc /\ \A q \in Procs : ~ Holds(q)'
    BY <1>1, <2>1 DEF Raise, Locked, Holds, TypeOK
  <2>7. Locked' /\ InHand' /\ Marking'
    BY <2>6, NoProcAssumption DEF Locked, InHand, Marking, Holds
  <2>8. Committed' BY <1>1, BoundsAssumption DEF Committed, Raise, TypeOK, Events
  <2> QED BY <2>2, <2>4, <2>5, <2>7, <2>8
<1> QED BY <1>3, <1>4 DEF AppendFails

\* The row that is marked has its line, and the others did before.
LEMMA MarkStep == ASSUME IInv, NEW p \in Procs, Mark(p) PROVE IInv'
<1> USE DEF IInv, FileOrdered, Go
<1>1. /\ pc[p] = "mark" /\ flushed' = flushed \cup {row[p]}
      /\ row' = [row EXCEPT ![p] = 0] /\ writer' = NoProc
      /\ pc' = [pc EXCEPT ![p] = "flush"]
      /\ UNCHANGED <<last, file, mine, acted, faults>>
  BY DEF Mark
<1>2. Holds(p) /\ IsNext(row[p]) /\ writer = p BY <1>1 DEF Holds, InHand, Locked
<1>3. /\ row[p] \in Events /\ 1..(row[p] - 1) \subseteq flushed
      /\ flushed \subseteq 1..row[p]
  BY <1>2, NextOnTop
<1>4. TypeOK' BY <1>1, <1>3 DEF TypeOK, Pcs
<1>5. /\ file # <<>> /\ file[Len(file)].event = row[p]
      /\ file[Len(file)].kind # "torn"
  BY <1>1 DEF Marking
<1>6. Len(file) \in 1..Len(file) BY <1>5, LastLine DEF TypeOK
<1>7. row[p] \in Written BY <1>5, <1>6, InWritten
<1>8. Written' = Written BY <1>1 DEF Written
<1>9. FileOrdered' BY <1>1, <1>4, <1>7, <1>8
<1>10. ActAfterAudit' BY <1>1, <1>8 DEF ActAfterAudit
<1>11. \A q \in Procs : ~ Holds(q)' BY <1>1, <1>2 DEF Locked, Holds, TypeOK
<1>12. Locked' /\ InHand' /\ Marking'
  BY <1>1, <1>11, NoProcAssumption DEF Locked, InHand, Marking, Holds
<1>13. row[p] \in 1..row[p] /\ row[p] \in 1..last
  BY <1>2, <1>3, BoundsAssumption DEF IsNext, Unflushed, Events
<1>14. Top' BY <1>1, <1>3, <1>5, <1>13 DEF Top
<1>15. Committed' BY <1>1 DEF Committed
<1> QED BY <1>9, <1>10, <1>12, <1>14, <1>15

LEMMA FailStep == ASSUME IInv, NEW p \in Procs, Busy(p) \/ Fail(p) PROVE IInv'
<1>1. Raise(p) /\ UNCHANGED <<last, flushed, file, acted>> BY DEF Busy, Fail
<1>2. faults' \in Nat BY DEF Busy, Fail, Fault, IInv, FileOrdered, TypeOK
<1> QED BY <1>1, <1>2, RaiseStep

LEMMA NextIInv == IInv /\ [Next]_vars => IInv'
<1> SUFFICES ASSUME IInv, [Next]_vars PROVE IInv' OBVIOUS
<1>1. ASSUME NEW p \in Procs,
             Start(p) \/ Step(p) \/ Busy(p) \/ AppendFails(p) \/ Fail(p)
      PROVE  IInv'
  BY <1>1, StartStep, EnqueueStep, BeginRoundStep, FlushedOldStep,
     FlushedNewStep, AppendLineStep, MarkStep, AppendFailsStep, FailStep
  DEF Step
<1>2. CASE UNCHANGED vars
  <2>1. UNCHANGED <<last, flushed, file, writer, pc, row, mine, acted, faults>>
    BY <1>2 DEF vars
  <2>2. TypeOK' BY <2>1 DEF IInv, FileOrdered, TypeOK
  <2>3. FileOrdered' /\ Written' = Written BY <2>1, <2>2, StillOrdered
  <2> QED
    BY <2>1, <2>3
    DEF IInv, ActAfterAudit, Locked, InHand, Holds, IsNext, Unflushed, Top,
        Marking, Committed
<1> QED BY <1>1, <1>2 DEF Next

LEMMA IInvHolds == Spec => []IInv
BY InitIInv, NextIInv, PTL DEF Spec

\* Whoever appends, and wherever a process stops between the append, the commit
\* and the next round: the file tells the events in the order of their sequence
\* without a gap, and a row that is marked as flushed is in it (flush_audit).
THEOREM FileIsOrdered == Spec => []FileOrdered
<1>1. IInv => FileOrdered BY DEF IInv
<1> QED BY <1>1, IInvHolds, PTL

\* No command acts before its events, and all earlier ones, are in the file,
\* whether it flushed them itself or another process did (authorize).
THEOREM NobodyActsAheadOfAudit == Spec => []ActAfterAudit
<1>1. IInv => ActAfterAudit BY DEF IInv
<1> QED BY <1>1, IInvHolds, PTL

-----------------------------------------------------------------------------
(* What went wrong is bounded by what failed                                *)

LEMMA InTorn ==
  ASSUME NEW e
  PROVE  e \in Torn <=>
           \E i \in 1..Len(file) : file[i].kind = "torn" /\ file[i].event = e
BY DEF Torn

\* A line more: what was readable or torn stays so, and a torn line is counted.
LEMMA AppendDamage ==
  ASSUME TypeOK, NEW e \in Events, NEW torn \in BOOLEAN,
         file' = Append(file, Line(e, torn))
  PROVE  /\ Torn' = Torn \cup (IF torn THEN {e} ELSE {})
         /\ \A f : Readable(f) => Readable(f)'
         /\ Line(e, torn).kind = "whole" => Readable(e)'
         /\ Len(file') = Len(file) + 1 /\ file'[Len(file')] = Line(e, torn)
<1> DEFINE l == Line(e, torn)
<1>1. l \in [event : Events, kind : Kinds] /\ l.event = e /\ (l.kind = "torn" <=> torn)
  BY LineFacts
<1> HIDE DEF l
<1>2. file' = Append(file, l) /\ file \in Seq([event : Events, kind : Kinds])
  BY DEF l, TypeOK
<1>3. /\ Len(file') = Len(file) + 1 /\ Len(file) \in Nat
      /\ file'[Len(file) + 1] = l
      /\ \A i \in 1..Len(file) : file'[i] = file[i]
  BY <1>1, <1>2
<1>4. \A f : f \in Torn' <=>
        \E i \in 1..Len(file') : file'[i].kind = "torn" /\ file'[i].event = f
  BY DEF Torn
<1>5. 1..Len(file') = 1..Len(file) \cup {Len(file) + 1} BY <1>3
<1>6. ASSUME NEW f PROVE f \in Torn' <=> f \in Torn \/ (torn /\ f = e)
  BY <1>1, <1>3, <1>4, <1>5, InTorn
<1>7. Torn' = Torn \cup (IF torn THEN {e} ELSE {}) BY <1>6
<1>8. ASSUME NEW f, Readable(f) PROVE Readable(f)'
  BY <1>3, <1>5, <1>8 DEF Readable
<1>9. ASSUME l.kind = "whole" PROVE Readable(e)'
  <2>1. l = [event |-> e, kind |-> "whole"] BY <1>1, <1>9
  <2> QED BY <1>3, <1>5, <2>1 DEF Readable
<1> QED BY <1>3, <1>7, <1>8, <1>9 DEF l

LEMMA FiniteDamage ==
  ASSUME TypeOK
  PROVE  /\ IsFiniteSet(flushed) /\ Cardinality(flushed) \in Nat
         /\ Torn \subseteq Events
         /\ IsFiniteSet(Torn) /\ Cardinality(Torn) \in Nat
<1>1. IsFiniteSet(Events) BY FS_Interval, BoundsAssumption DEF Events
<1>2. ASSUME NEW e \in Torn PROVE e \in Events
  <2>1. PICK i \in 1..Len(file) : file[i].event = e BY InTorn
  <2>2. file[i] \in [event : Events, kind : Kinds]
    BY LineType DEF TypeOK
  <2> QED BY <2>1, <2>2
<1>3. Torn \in SUBSET Events /\ flushed \in SUBSET Events BY <1>2 DEF TypeOK
<1>4. IsFiniteSet(Torn) /\ IsFiniteSet(flushed) BY <1>1, <1>3, FS_Subset
<1> QED BY <1>3, <1>4, FS_CardinalityType

\* At most the holder of the lock is between its append and its commit.
LEMMA AtMostOne ==
  ASSUME NEW S, \A p, q \in S : p = q
  PROVE  Cardinality(S) = IF S = {} THEN 0 ELSE 1
<1>1. CASE S = {} BY <1>1, FS_EmptySet
<1>2. CASE S # {}
  <2>1. PICK p \in S : TRUE BY <1>2
  <2>2. S = {p} BY <2>1
  <2> QED BY <1>2, <2>2, FS_Singleton
<1> QED BY <1>1, <1>2

LEMMA OneMarks == ASSUME IInv PROVE \A p, q \in Marks : p = q
BY DEF Marks, IInv, Locked, Holds

LEMMA InitDInv == Init => DInv
<1> SUFFICES ASSUME Init PROVE DInv OBVIOUS
<1>1. Len(file) = 0 /\ faults = 0 /\ flushed = {} BY DEF Init
<1>2. Marks = {} BY DEF Init, Marks
<1>3. Torn = {} BY <1>1 DEF Torn
<1>4. TornTop /\ Accounted BY DEF Init, TornTop, Accounted
<1> QED BY <1>1, <1>2, <1>3, <1>4, FS_EmptySet DEF DInv

\* A step that leaves the file and the marked rows alone.
LEMMA QuietDamage ==
  ASSUME IInv, IInv', DInv, UNCHANGED <<flushed, file>>, faults' \in Nat,
         \A q \in Procs : pc'[q] = "mark" => pc[q] = "mark" /\ row'[q] = row[q],
         \/ faults' = faults /\ \A q \in Procs : pc[q] = "mark" => pc'[q] = "mark"
         \/ faults' = faults + 1
  PROVE  DInv'
<1>1. Torn' = Torn BY DEF Torn
<1>2. TornTop' BY DEF DInv, TornTop
<1>3. \A e : Readable(e)' <=> Readable(e) BY DEF Readable
<1>4. Accounted' BY <1>1, <1>3 DEF DInv, Accounted
<1>5. /\ Cardinality(Marks') \in Nat /\ Cardinality(Marks) \in Nat
      /\ Cardinality(Marks) + faults <= Cardinality(Marks') + faults'
  <2>1. faults \in Nat BY DEF IInv, FileOrdered, TypeOK
  <2>2. Cardinality(Marks) = IF Marks = {} THEN 0 ELSE 1 BY OneMarks, AtMostOne
  <2>3. \A p, q \in Marks' : p = q BY DEF Marks, IInv, Locked, Holds
  <2>4. Cardinality(Marks') = IF Marks' = {} THEN 0 ELSE 1 BY <2>3, AtMostOne
  <2>5. Marks' \subseteq Marks /\ (faults' = faults => Marks' = Marks)
    BY <2>1 DEF Marks
  <2>6. Cardinality(Marks) \in {0, 1} /\ Cardinality(Marks') \in {0, 1}
    BY <2>2, <2>4
  <2>7. CASE faults' = faults
    <3>1. Marks' = Marks BY <2>5, <2>7
    <3>2. Cardinality(Marks') = Cardinality(Marks) BY <2>2, <2>4, <3>1
    <3> QED BY <2>1, <2>6, <2>7, <3>2
  <2>8. CASE faults' = faults + 1
    <3> HIDE DEF Marks
    <3> QED BY <2>1, <2>6, <2>8
  <2> QED BY <2>7, <2>8
<1>6. /\ Cardinality(flushed) \in Nat /\ Cardinality(Torn) \in Nat
      /\ faults \in Nat /\ Len(file) \in Nat
  BY FiniteDamage DEF IInv, FileOrdered, TypeOK
<1>7. Len(file)' <= Cardinality(flushed)' + faults' + Cardinality(Marks')
  BY <1>5, <1>6 DEF DInv
<1>8. Cardinality(Torn)' <= faults' BY <1>1, <1>6 DEF DInv
<1> QED BY <1>2, <1>4, <1>7, <1>8 DEF DInv

\* The line that is not whole continues a torn one of the same event.
LEMMA AppendLineDamage ==
  ASSUME IInv, IInv', DInv, NEW p \in Procs, AppendLine(p) PROVE DInv'
<1>1. /\ pc[p] = "append" /\ file' = Append(file, Line(row[p], FALSE))
      /\ pc' = [pc EXCEPT ![p] = "mark"]
      /\ UNCHANGED <<last, flushed, writer, row, mine, acted, faults>>
  BY DEF AppendLine, Go
<1>2. TypeOK /\ Top BY DEF IInv, FileOrdered
<1>3. IsNext(row[p]) /\ \A q \in Procs : pc[q] # "mark"
  BY <1>1 DEF IInv, InHand, Locked, Holds
<1>4. /\ row[p] \in Events /\ 1..(row[p] - 1) \subseteq flushed
      /\ file # <<>> =>
           row[p] \in {file[Len(file)].event, file[Len(file)].event + 1}
  BY <1>2, <1>3, NextOnTop
<1>5. /\ Torn' = Torn
      /\ \A f : Readable(f) => Readable(f)'
      /\ Line(row[p], FALSE).kind = "whole" => Readable(row[p])'
      /\ Len(file') = Len(file) + 1 /\ file'[Len(file')] = Line(row[p], FALSE)
  BY <1>1, <1>2, <1>4, AppendDamage
<1>6. Readable(row[p])' \/ row[p] \in Torn
  <2>1. CASE ~(file # <<>> /\ file[Len(file)].kind = "torn")
    BY <1>5, <2>1 DEF Line
  <2>2. CASE file # <<>> /\ file[Len(file)].kind = "torn"
    <3>0. file \in Seq([event : Events, kind : Kinds]) BY <1>2 DEF TypeOK
    <3>1. Len(file) \in 1..Len(file) BY <2>2, <3>0, LastLine
    <3>2. file[Len(file)] \in [event : Events, kind : Kinds]
      BY <3>0, <3>1, LineType
    <3>3. file[Len(file)].event \notin flushed BY <2>2 DEF DInv, TornTop
    <3>4. row[p] = file[Len(file)].event
      BY <1>4, <2>2, <3>2, <3>3, BoundsAssumption DEF Events
    <3> QED BY <2>2, <3>1, <3>4, InTorn
  <2> QED BY <2>1, <2>2
<1>7. Accounted'
  <2>1. \A q \in Procs : pc'[q] = "mark" => q = p
    BY <1>1, <1>3 DEF IInv, FileOrdered, TypeOK
  <2> QED BY <1>1, <1>5, <1>6, <2>1 DEF DInv, Accounted
<1>8. TornTop'
  <2>1. Line(row[p], FALSE).kind # "torn" BY <1>4, LineFacts
  <2> QED BY <1>5, <2>1 DEF TornTop
<1>9. Marks = {} /\ Marks' = {p}
  BY <1>1, <1>3 DEF Marks, IInv, FileOrdered, TypeOK
<1>10. Cardinality(Marks) = 0 /\ Cardinality(Marks') = 1
  BY <1>9, FS_EmptySet, FS_Singleton
<1>11. /\ Cardinality(flushed) \in Nat /\ faults \in Nat /\ Len(file) \in Nat
  BY <1>2, FiniteDamage DEF TypeOK
<1>12. Len(file') <= Cardinality(flushed') + faults' + Cardinality(Marks')
  BY <1>1, <1>5, <1>10, <1>11 DEF DInv
<1> QED BY <1>1, <1>5, <1>7, <1>8, <1>12 DEF DInv

LEMMA AppendFailsDamage ==
  ASSUME IInv, IInv', DInv, NEW p \in Procs, AppendFails(p) PROVE DInv'
<1>1. /\ pc[p] = "append" /\ pc' = [pc EXCEPT ![p] = "idle"]
      /\ row' = [row EXCEPT ![p] = 0] /\ faults' = faults + 1
      /\ UNCHANGED <<last, flushed>>
  BY DEF AppendFails, Raise, Fault
<1>2. TypeOK /\ Top /\ faults \in Nat BY DEF IInv, FileOrdered, TypeOK
<1>3. IsNext(row[p]) /\ \A q \in Procs : pc[q] # "mark"
  BY <1>1 DEF IInv, InHand, Locked, Holds
<1>4. \A q \in Procs : pc'[q] # "mark" BY <1>1, <1>3 DEF IInv, FileOrdered, TypeOK
<1>5. CASE UNCHANGED file BY <1>1, <1>2, <1>4, <1>5, QuietDamage
<1>6. ASSUME NEW torn \in BOOLEAN, file' = Append(file, Line(row[p], torn))
      PROVE  DInv'
  <2>1. row[p] \in Events /\ row[p] \notin flushed BY <1>2, <1>3, NextOnTop
  <2>2. /\ Torn' = Torn \cup (IF torn THEN {row[p]} ELSE {})
        /\ \A f : Readable(f) => Readable(f)'
        /\ Len(file') = Len(file) + 1 /\ file'[Len(file')] = Line(row[p], torn)
    BY <1>2, <1>6, <2>1, AppendDamage
  <2>3. Accounted' BY <1>1, <1>4, <2>2 DEF DInv, Accounted
  <2>4. TornTop' BY <1>1, <2>1, <2>2, LineFacts DEF TornTop
  <2>5. Marks = {} /\ Marks' = {} BY <1>3, <1>4 DEF Marks
  <2>6. Cardinality(Marks) = 0 /\ Cardinality(Marks') = 0 BY <2>5, FS_EmptySet
  <2>7. /\ Cardinality(flushed) \in Nat /\ Len(file) \in Nat
        /\ IsFiniteSet(Torn) /\ Cardinality(Torn) \in Nat
    BY <1>2, FiniteDamage DEF TypeOK
  <2>8. Len(file') <= Cardinality(flushed') + faults' + Cardinality(Marks')
    BY <1>1, <1>2, <2>2, <2>6, <2>7 DEF DInv
  <2>9. Cardinality(Torn') <= faults'
    <3>1. CASE torn
      <4>1. Torn' = Torn \cup {row[p]} BY <2>2, <3>1
      <4>2. Cardinality(Torn') =
              IF row[p] \in Torn THEN Cardinality(Torn) ELSE Cardinality(Torn) + 1
        BY <2>7, <4>1, FS_AddElement
      <4>3. Cardinality(Torn') \in Nat
        BY <2>7, <4>1, FS_AddElement, FS_CardinalityType
      <4> QED BY <1>1, <1>2, <2>7, <4>2, <4>3 DEF DInv
    <3>2. CASE ~torn
      <4>1. Torn' = Torn BY <2>2, <3>2
      <4> QED BY <1>1, <1>2, <2>7, <4>1 DEF DInv
    <3> QED BY <3>1, <3>2
  <2> QED BY <2>3, <2>4, <2>8, <2>9 DEF DInv
<1> QED BY <1>5, <1>6 DEF AppendFails

\* The process in between becomes one more row that is marked.
LEMMA MarkDamage ==
  ASSUME IInv, IInv', DInv, NEW p \in Procs, Mark(p) PROVE DInv'
<1>1. /\ pc[p] = "mark" /\ flushed' = flushed \cup {row[p]}
      /\ pc' = [pc EXCEPT ![p] = "flush"]
      /\ UNCHANGED <<last, file, mine, acted, faults>>
  BY DEF Mark, Go
<1>2. TypeOK /\ Top /\ faults \in Nat /\ Len(file) \in Nat
  BY DEF IInv, FileOrdered, TypeOK
<1>3. IsNext(row[p]) /\ \A q \in Procs : pc[q] = "mark" <=> q = p
  BY <1>1 DEF IInv, InHand, Locked, Holds
<1>4. row[p] \notin flushed BY <1>2, <1>3, NextOnTop
<1>5. \A q \in Procs : pc'[q] # "mark" BY <1>1, <1>3 DEF IInv, FileOrdered, TypeOK
<1>6. Torn' = Torn /\ \A f : Readable(f) <=> Readable(f)'
  BY <1>1 DEF Torn, Readable
<1>7. Accounted' BY <1>1, <1>5, <1>6 DEF DInv, Accounted
<1>8. TornTop' BY <1>1 DEF TornTop, IInv, Marking
<1>9. Marks = {p} /\ Marks' = {} BY <1>3, <1>5 DEF Marks
<1>10. Cardinality(Marks) = 1 /\ Cardinality(Marks') = 0
  BY <1>9, FS_EmptySet, FS_Singleton
<1>11. /\ IsFiniteSet(flushed) /\ Cardinality(flushed) \in Nat
       /\ Cardinality(Torn) \in Nat
  BY <1>2, FiniteDamage
<1>12. Cardinality(flushed') = Cardinality(flushed) + 1
  BY <1>1, <1>4, <1>11, FS_AddElement
<1>13. Len(file') <= Cardinality(flushed') + faults' + Cardinality(Marks')
  BY <1>1, <1>2, <1>10, <1>11, <1>12 DEF DInv
<1> QED BY <1>1, <1>6, <1>7, <1>8, <1>13 DEF DInv

LEMMA NextDInv == IInv /\ IInv' /\ DInv /\ [Next]_vars => DInv'
<1> SUFFICES ASSUME IInv, IInv', DInv, [Next]_vars PROVE DInv' OBVIOUS
<1>0. TypeOK /\ TypeOK' BY DEF IInv, FileOrdered
<1>1. CASE UNCHANGED vars BY <1>0, <1>1, QuietDamage DEF vars, TypeOK
<1>2. ASSUME NEW p \in Procs,
             \/ Start(p) \/ Enqueue(p) \/ BeginRound(p) \/ FlushedOld(p)
             \/ FlushedNew(p) \/ Busy(p)
      PROVE  DInv'
  <2>1. UNCHANGED <<flushed, file, faults>>
    BY <1>2 DEF Start, Enqueue, BeginRound, FlushedOld, FlushedNew, Busy
  <2>2. \E l \in {"idle", "flush", "append", "change"} :
          pc[p] # "mark" /\ pc' = [pc EXCEPT ![p] = l]
    BY <1>2 DEF Start, Enqueue, BeginRound, FlushedOld, FlushedNew, Busy, Raise, Go
  <2>3. \A q \in Procs : q # p => row'[q] = row[q]
    BY <1>0, <1>2 DEF Start, Enqueue, BeginRound, FlushedOld, FlushedNew, Busy,
       Raise, TypeOK
  <2>4. \A q \in Procs : /\ pc'[q] = "mark" => pc[q] = "mark" /\ row'[q] = row[q]
                         /\ pc[q] = "mark" => pc'[q] = "mark"
    BY <1>0, <2>2, <2>3 DEF TypeOK
  <2> QED BY <1>0, <2>1, <2>4, QuietDamage DEF TypeOK
<1>3. ASSUME NEW p \in Procs, Fail(p) PROVE DInv'
  <2>1. /\ UNCHANGED <<flushed, file>> /\ faults' = faults + 1
        /\ \A q \in Procs : pc'[q] = "mark" => pc[q] = "mark" /\ row'[q] = row[q]
    BY <1>0, <1>3 DEF Fail, Fault, Raise, TypeOK
  <2> QED BY <1>0, <2>1, QuietDamage DEF TypeOK
<1>4. ASSUME NEW p \in Procs, AppendLine(p) \/ Mark(p) \/ AppendFails(p)
      PROVE  DInv'
  BY <1>4, AppendLineDamage, MarkDamage, AppendFailsDamage
<1> QED BY <1>1, <1>2, <1>3, <1>4 DEF Next, Step

\* However processes, failures and retries interleave: each line too many, and
\* each event marked without a line of its own, is paid for by one failure, or
\* is that of the flush under way (flush_audit, AuditWriter.append).
THEOREM DamageIsBounded == Spec => []DamageBounded
<1>1. IInv /\ DInv => DamageBounded
  <2> SUFFICES ASSUME IInv, DInv PROVE DamageBounded OBVIOUS
  <2> DEFINE U == {e \in flushed : ~ Readable(e)}
  <2>1. TypeOK /\ faults \in Nat BY DEF IInv, FileOrdered, TypeOK
  <2>2. U \in SUBSET Torn BY DEF DInv, Accounted
  <2>3. IsFiniteSet(Torn) /\ Cardinality(Torn) \in Nat BY <2>1, FiniteDamage
  <2>4. Cardinality(U) <= Cardinality(Torn) /\ Cardinality(U) \in Nat
    BY <2>2, <2>3, FS_Subset, FS_CardinalityType
  <2>5. Cardinality(U) <= faults
    <3> HIDE DEF U
    <3> QED BY <2>1, <2>3, <2>4 DEF DInv
  <2> QED BY <2>5 DEF DInv, DamageBounded, Marks
<1> QED BY <1>1, IInvHolds, InitDInv, NextDInv, PTL DEF Spec
=============================================================================
