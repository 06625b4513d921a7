--------------------------- MODULE LlmCallsProofs ---------------------------
(***************************************************************************)
(* Proofs about LlmCalls, for any number of attempts, calls and faults:    *)
(* when a request is repeated, and when a session pauses for what the      *)
(* model answered.                                                         *)
(***************************************************************************)
EXTENDS LlmCalls, TLAPS

-----------------------------------------------------------------------------
(* The inductive invariant                                                  *)

\* A session that a process runs is RUNNING, and the count of protocol errors
\* is the number of answers in a row that were no action.
Counting ==
  pc # "down" => status = "RUNNING" /\ perr = bad /\ bad < 2

Paused == status = "PAUSED_PROTOCOL_ERROR" => bad = 2

\* The requests of a call are numbered by the loop variable, and each but the
\* first follows a fault that may pass.
Requests ==
  /\ pc = "post" => sent = attempt /\ last \in Transient \cup {"none"}
  /\ pc = "wait" => sent = attempt + 1
  /\ pc = "script" => last = "none"

IInv == TypeOK /\ Counting /\ Paused /\ Requests

LEMMA InitIInv == Init => IInv
<1> SUFFICES ASSUME Init PROVE IInv OBVIOUS
<1>1. TypeOK
  BY AttemptsAssumption, BoundsAssumption DEF Init, TypeOK, Clients
<1> QED BY <1>1 DEF Init, IInv, Counting, Paused, Requests

-----------------------------------------------------------------------------
(* The steps                                                                *)

LEMMA BuildStep ==
  ASSUME IInv, NEW c \in Clients, Build(c),
         UNCHANGED <<calls, attempt, sent, last, faults>>, key' \in BOOLEAN
  PROVE  IInv'
<1>1. TypeOK' BY DEF IInv, Build, TypeOK, SessionStatus
<1>2. Counting' /\ Paused' /\ Requests'
  BY DEF Build, Counting, Paused, Requests
<1> QED BY <1>1, <1>2 DEF IInv

LEMMA LoopStep == ASSUME IInv, Loop PROVE IInv'
<1> USE DEF Loop, Leave
<1>1. TypeOK'
  BY AttemptsAssumption, BoundsAssumption DEF IInv, TypeOK, SessionStatus, Pauses
<1>2. Counting' BY DEF IInv, Counting
<1>3. Paused' BY DEF IInv, Counting, Paused
<1>4. Requests' BY DEF Requests
<1> QED BY <1>1, <1>2, <1>3, <1>4 DEF IInv

LEMMA PostStep == ASSUME IInv, Post PROVE IInv'
<1> USE DEF Post
<1>1. TypeOK' BY DEF IInv, TypeOK, store
<1>2. Counting' /\ Paused' BY DEF IInv, Counting, Paused, store
<1>3. Requests' BY DEF IInv, Requests
<1> QED BY <1>1, <1>2, <1>3 DEF IInv

\* What the engine makes of the end of a call, whichever client made it.
LEMMA ProceedStep ==
  ASSUME IInv, pc # "down", Proceed,
         UNCHANGED <<calls, client, key, attempt, sent, faults>>,
         last' \in Replies \cup {"none"}
  PROVE  IInv'
<1>1. TypeOK'
  BY DEF IInv, Proceed, Leave, AfterAction, TypeOK, SessionStatus
<1>2. Counting' /\ Paused'
  BY DEF IInv, Proceed, Leave, AfterAction, Counting, Paused
<1>3. Requests' BY DEF Proceed, Leave, Requests
<1> QED BY <1>1, <1>2, <1>3 DEF IInv

LEMMA ErrorStep ==
  ASSUME IInv, pc # "down", LlmError, bad' \in {bad, bad + 1},
         UNCHANGED <<calls, client, key, attempt, sent, faults>>,
         last' \in Replies \cup {"none"}
  PROVE  IInv'
<1>1. TypeOK'
  BY DEF IInv, LlmError, Leave, TypeOK, SessionStatus, Pauses
<1>2. Counting' /\ Paused' /\ Requests'
  BY DEF LlmError, Leave, Counting, Paused, Requests
<1> QED BY <1>1, <1>2 DEF IInv

LEMMA ReplyStep == ASSUME IInv, NEW r \in Replies, Reply(r) PROVE IInv'
<1> USE DEF Reply
<1>1. pc = "wait" /\ pc # "down" /\ last' \in Replies \cup {"none"} OBVIOUS
<1>2. CASE /\ Retried(r)
           /\ attempt' = attempt + 1
           /\ pc' = "post"
           /\ UNCHANGED <<status, perr, bad, faults>>
  <2>1. attempt + 1 \in 0..(MaxAttempts - 1)
    BY <1>2, AttemptsAssumption DEF IInv, TypeOK, Retried
  <2>2. TypeOK' BY <1>1, <1>2, <2>1 DEF IInv, TypeOK
  <2>3. Counting' /\ Paused' BY <1>1, <1>2 DEF IInv, Counting, Paused
  <2>4. Requests' BY <1>1, <1>2 DEF IInv, Requests, Retried
  <2> QED BY <2>2, <2>3, <2>4 DEF IInv
<1>3. CASE /\ r = "empty"
           /\ pc' = "down"
           /\ bad' = bad + 1
           /\ Fault
           /\ UNCHANGED <<status, attempt, perr>>
  <2>1. TypeOK' BY <1>1, <1>3, BoundsAssumption DEF IInv, TypeOK, Fault
  <2>2. Counting' /\ Requests' BY <1>3 DEF Counting, Requests
  <2>3. Paused' BY <1>1, <1>3 DEF IInv, Counting, Paused
  <2> QED BY <2>1, <2>2, <2>3 DEF IInv
<1>4. CASE LlmError /\ bad' \in {bad, bad + 1} /\ UNCHANGED <<attempt, faults>>
  BY <1>1, <1>4, ErrorStep
<1>5. CASE r = "action" /\ Proceed /\ UNCHANGED <<attempt, faults>>
  BY <1>1, <1>5, ProceedStep
<1> QED BY <1>2, <1>3, <1>4, <1>5

LEMMA ScriptStep == ASSUME IInv, Script PROVE IInv'
<1> USE DEF Script
<1>1. pc # "down" /\ last' \in Replies \cup {"none"} BY DEF IInv, TypeOK
<1>2. CASE LlmError /\ UNCHANGED bad BY <1>1, <1>2, ErrorStep
<1>3. CASE Proceed BY <1>1, <1>3, ProceedStep
<1>4. CASE ProtocolError /\ bad' = bad + 1
  <2>1. TypeOK'
    BY <1>1, <1>4 DEF IInv, Counting, ProtocolError, Leave, TypeOK, SessionStatus,
                      Pauses
  <2>2. Counting' /\ Paused'
    BY <1>1, <1>4 DEF IInv, Counting, Paused, TypeOK, ProtocolError, Leave
  <2>3. Requests' BY <1>4 DEF ProtocolError, Leave, Requests
  <2> QED BY <2>1, <2>2, <2>3 DEF IInv
<1> QED BY <1>2, <1>3, <1>4

LEMMA KillStep == ASSUME IInv, Kill PROVE IInv'
<1> USE DEF Kill, store, history
<1>1. TypeOK' BY BoundsAssumption DEF IInv, TypeOK, Fault
<1>2. Counting' /\ Paused' /\ Requests'
  BY DEF IInv, Counting, Paused, Requests
<1> QED BY <1>1, <1>2 DEF IInv

LEMMA KeyStep == ASSUME IInv, SetKey \/ ClearKey PROVE IInv'
BY DEF SetKey, ClearKey, store, engine, history, IInv, TypeOK, Counting, Paused,
       Requests

LEMMA NextIInv == IInv /\ [Next]_vars => IInv'
<1> SUFFICES ASSUME IInv, [Next]_vars PROVE IInv' OBVIOUS
<1>1. CASE Run
  <2>1. PICK c \in Clients : Build(c) BY <1>1 DEF Run
  <2> QED BY <1>1, <2>1, BuildStep DEF Run, IInv, TypeOK
<1>2. CASE Resume BY <1>2, BuildStep DEF Resume, Clients, IInv, TypeOK
<1>3. CASE Loop BY <1>3, LoopStep
<1>4. CASE Post BY <1>4, PostStep
<1>5. CASE Script BY <1>5, ScriptStep
<1>6. ASSUME NEW r \in Replies, Reply(r) PROVE IInv' BY <1>6, ReplyStep
<1>7. CASE Kill BY <1>7, KillStep
<1>8. CASE SetKey \/ ClearKey BY <1>8, KeyStep
<1>9. CASE UNCHANGED vars
  BY <1>9 DEF vars, store, engine, history, IInv, TypeOK, Counting, Paused, Requests
<1> QED BY <1>1, <1>2, <1>3, <1>4, <1>5, <1>6, <1>7, <1>8, <1>9 DEF Next, Step

-----------------------------------------------------------------------------
(* The theorems                                                             *)

LEMMA CallsInvariant == Spec => []IInv
BY InitIInv, NextIInv, PTL DEF Spec

\* One answer in a row that is no action is corrected, the second pauses the
\* session, and an action between two of them starts the count again, whatever
\* the answers, the kills and the resumes were before.
THEOREM SecondErrorAlwaysPauses == Spec => []SecondErrorPauses
<1>1. IInv => SecondErrorPauses
  BY DEF IInv, Counting, Paused, SecondErrorPauses
<1> QED BY <1>1, CallsInvariant, PTL

\* The action of RetriesTransient.
Retries ==
  /\ sent' > sent => sent < MaxAttempts /\ last \in Transient \cup {"none"}
  /\ status # status' /\ status' = "PAUSED_INTERNAL_ERROR" /\ last' \in Transient
       => sent = MaxAttempts

LEMMA RetriesStep == IInv /\ [Next]_vars => Retries
<1> SUFFICES ASSUME IInv, [Next]_vars PROVE Retries OBVIOUS
<1>1. ASSUME UNCHANGED <<status, sent>> PROVE Retries
  BY <1>1 DEF Retries, IInv, TypeOK
<1>2. CASE Run \/ Resume
  BY <1>2 DEF Run, Resume, Build, Retries, IInv, TypeOK
<1>3. CASE Loop BY <1>3 DEF Loop, Leave, Retries, IInv, TypeOK
<1>4. CASE Post
  BY <1>4, AttemptsAssumption DEF Post, store, Retries, IInv, TypeOK, Requests
<1>5. CASE Script
  <2>1. sent' = sent /\ last' = "none"
    BY <1>5 DEF Script, IInv, Requests
  <2> QED BY <2>1 DEF Retries, Transient, IInv, TypeOK
<1>6. ASSUME NEW r \in Replies, Reply(r) PROVE Retries
  <2>1. sent' = sent /\ last' = r /\ sent = attempt + 1
    BY <1>6 DEF Reply, IInv, Requests
  <2>2. ASSUME status' # status, r \in Transient PROVE ~ Retried(r)
    BY <1>6, <2>2 DEF Reply, Transient
  <2>3. ASSUME r \in Transient, ~ Retried(r) PROVE attempt + 1 = MaxAttempts
    BY <2>3, AttemptsAssumption DEF Retried, IInv, TypeOK
  <2> QED BY <2>1, <2>2, <2>3 DEF Retries, IInv, TypeOK
<1>7. CASE Kill BY <1>7, <1>1 DEF Kill, store, history
<1>8. CASE SetKey \/ ClearKey
  BY <1>8, <1>1 DEF SetKey, ClearKey, store, history
<1>9. CASE UNCHANGED vars BY <1>9, <1>1 DEF vars, store, history
<1> QED BY <1>2, <1>3, <1>4, <1>5, <1>6, <1>7, <1>8, <1>9 DEF Next, Step

\* A charged call becomes at most MaxAttempts requests, each repeats one that
\* ended in a fault that may pass, and the call is given up for such a fault
\* only after the last of them.
THEOREM OnlyTransientRetried == Spec => RetriesTransient
<1>1. IInv /\ [Next]_vars => [Retries]_vars BY RetriesStep
<1> QED BY <1>1, CallsInvariant, PTL DEF Spec, RetriesTransient, Retries
=============================================================================
