-------------------------- MODULE CommandRunProofs --------------------------
(***************************************************************************)
(* Proofs about CommandRun, for any number of processes that a command     *)
(* starts: what a timeout kills, and what the next session can meet.       *)
(*                                                                         *)
(* And proofs about Settings, which says how long that timeout is: for any *)
(* limits and validators, which of them the engine obeys.                  *)
(***************************************************************************)
EXTENDS CommandRun, Settings, TLAPS

-----------------------------------------------------------------------------
(* The inductive invariant                                                  *)

\* Nothing has happened before the command is started, and the lock is this
\* session's while it runs.
Fresh ==
  pc = "ready" =>
    /\ result = "none"
    /\ started = {}
    /\ above = [p \in Tree |-> {}]

Settled ==
  /\ result # "none" => pc = "ended"
  /\ pc = "ended" => result # "none"
  /\ lock # "this" => pc = "ended"

\* What killpg reaches, and what taskkill does: a process that has not escaped
\* is in the group, or all those above it still exist.
InReach ==
  \A p \in running \ escaped :
    IF platform = "posix" THEN p \in group ELSE above[p] \subseteq running

\* After the kill there are only processes that have escaped.
Killed == pc = "drain" \/ result = "timeout" => running \subseteq escaped

\* A command that was not started has no processes, and one that completed has
\* none that writes.
AtEnd ==
  /\ result = "error" => running = {}
  /\ result = "completed" => writers = {}

IInv == TypeOK /\ Fresh /\ Settled /\ InReach /\ Killed /\ AtEnd

LEMMA InitIInv == Init => IInv
BY DEF Init, IInv, TypeOK, Fresh, Settled, InReach, Killed, AtEnd, Busy

-----------------------------------------------------------------------------
(* The runner                                                               *)

LEMMA SpawnStep == ASSUME IInv, Spawn PROVE IInv'
<1> USE DEF Spawn
<1>1. escaped = {} /\ lock = "this" /\ result = "none" /\ above[Leader] = {}
  BY DEF IInv, TypeOK, Fresh, Settled, Tree
<1>2. TypeOK' BY <1>1 DEF IInv, TypeOK, Busy, Tree
<1>3. Fresh' /\ Settled' /\ Killed' /\ AtEnd'
  BY <1>1 DEF Fresh, Settled, Killed, AtEnd
<1>4. InReach' BY <1>1 DEF InReach
<1> QED BY <1>2, <1>3, <1>4 DEF IInv

\* The steps that change only where the runner is and how the command ended.
LEMMA EndStep ==
  ASSUME IInv, UNCHANGED <<platform, lock, processes>>,
         \/ SpawnFails \/ Complete \/ Timeout \/ Drain \/ Interrupt \/ Kill
  PROVE  IInv'
<1> USE DEF processes
<1>1. TypeOK'
  BY DEF IInv, TypeOK, Busy, SpawnFails, Complete, Timeout, Drain, Interrupt, Kill,
         Outcome
<1>2. Fresh' /\ Settled'
  BY DEF IInv, Fresh, Settled, SpawnFails, Complete, Timeout, Drain, Interrupt, Kill,
         Outcome
<1>3. InReach' BY DEF IInv, InReach
<1>4. Killed'
  BY DEF IInv, Killed, Settled, Fresh, SpawnFails, Complete, Timeout, Drain,
         Interrupt, Kill, Outcome
<1>5. AtEnd'
  BY DEF IInv, TypeOK, AtEnd, Settled, Fresh, SpawnFails, Complete, Timeout, Drain,
         Drained, Interrupt, Kill, Outcome
<1> QED BY <1>1, <1>2, <1>3, <1>4, <1>5 DEF IInv

\* The kill leaves only processes that have escaped.
LEMMA KillTreeStep == ASSUME IInv, KillTree PROVE IInv'
<1> USE DEF KillTree
<1>1. running \ Reached \subseteq escaped
  BY DEF IInv, InReach, Reached
<1>2. TypeOK' BY DEF IInv, TypeOK, Busy
<1>3. Fresh' /\ Settled' /\ AtEnd'
  BY DEF IInv, TypeOK, Fresh, Settled, AtEnd
<1>4. InReach' /\ Killed' BY <1>1 DEF InReach, Killed
<1> QED BY <1>2, <1>3, <1>4 DEF IInv

LEMMA LockStep == ASSUME IInv, Release \/ Acquire PROVE IInv'
<1> USE DEF Release, Acquire, processes
<1>1. TypeOK' BY DEF IInv, TypeOK, Busy
<1>2. Fresh' /\ Settled' BY DEF IInv, Fresh, Settled, Over
<1>3. InReach' /\ Killed' /\ AtEnd' BY DEF IInv, InReach, Killed, AtEnd
<1> QED BY <1>1, <1>2, <1>3 DEF IInv

-----------------------------------------------------------------------------
(* The processes                                                            *)

LEMMA NotReady == IInv /\ running # {} => pc # "ready"
BY DEF IInv, TypeOK, Fresh

\* A new process is where its parent is, and as far up as it.
LEMMA ForkStep == ASSUME IInv, NEW p \in Tree, Fork(p) PROVE IInv'
<1>1. PICK q \in Descendants \ started :
        /\ running' = running \cup {q} /\ started' = started \cup {q}
        /\ above' = [above EXCEPT ![q] = above[p] \cup {p}]
        /\ group' = With(group, q, p)
        /\ writers' = With(writers, q, p)
        /\ escaped' = With(escaped, q, p)
  BY DEF Fork
<1>2. p \in running /\ UNCHANGED <<platform, pc, result, lock>>
  BY DEF Fork, harness
<1>3. /\ p \in Tree /\ q \in Tree /\ p # q /\ q \notin running
      /\ above'[q] = above[p] \cup {p}
      /\ \A r \in Tree \ {q} : above'[r] = above[r]
  BY <1>1, <1>2 DEF IInv, TypeOK, Tree
<1>4. TypeOK' BY <1>1, <1>2, <1>3 DEF IInv, TypeOK, Busy, Tree, With
<1>5. Fresh' /\ Settled' BY <1>2, NotReady DEF IInv, Fresh, Settled
<1>6. InReach'
  <2> SUFFICES ASSUME NEW r \in running' \ escaped'
               PROVE  IF platform' = "posix" THEN r \in group'
                                             ELSE above'[r] \subseteq running'
    BY DEF InReach
  <2>1. CASE r = q
    <3>1. p \notin escaped BY <1>1, <2>1 DEF With
    <3>2. IF platform = "posix" THEN p \in group ELSE above[p] \subseteq running
      BY <1>2, <3>1 DEF IInv, InReach
    <3> QED BY <1>1, <1>2, <1>3, <2>1, <3>2 DEF With
  <2>2. CASE r # q
    <3>1. r \in running \ escaped /\ r \in Tree
      BY <1>1, <2>2 DEF With, IInv, TypeOK
    <3>2. IF platform = "posix" THEN r \in group ELSE above[r] \subseteq running
      BY <3>1 DEF IInv, InReach
    <3> QED BY <1>1, <1>2, <1>3, <2>2, <3>1, <3>2 DEF With
  <2> QED BY <2>1, <2>2
<1>7. Killed' BY <1>1, <1>2 DEF IInv, Killed, With
<1>8. AtEnd' BY <1>1, <1>2 DEF IInv, AtEnd, With
<1> QED BY <1>4, <1>5, <1>6, <1>7, <1>8 DEF IInv

LEMMA LeaveGroupStep == ASSUME IInv, NEW p \in Tree, LeaveGroup(p) PROVE IInv'
<1> USE DEF LeaveGroup, harness
<1>1. TypeOK' BY DEF IInv, TypeOK, Busy
<1>2. Fresh' /\ Settled' BY DEF IInv, Fresh, Settled
<1>3. InReach' BY DEF IInv, InReach
<1>4. Killed' /\ AtEnd' BY DEF IInv, Killed, AtEnd
<1> QED BY <1>1, <1>2, <1>3, <1>4 DEF IInv

LEMMA CloseOutputStep == ASSUME IInv, NEW p \in Tree, CloseOutput(p) PROVE IInv'
<1> USE DEF CloseOutput, harness
<1>1. TypeOK' BY DEF IInv, TypeOK, Busy
<1>2. Fresh' /\ Settled' /\ InReach' BY DEF IInv, Fresh, Settled, InReach
<1>3. Killed' /\ AtEnd' BY DEF IInv, Killed, AtEnd
<1> QED BY <1>1, <1>2, <1>3 DEF IInv

\* On Windows those below a process that ends get out of reach.
LEMMA ExitStep == ASSUME IInv, NEW p \in Tree, Exit(p) PROVE IInv'
<1> USE DEF Exit, harness
<1>1. TypeOK' BY DEF IInv, TypeOK, Busy
<1>2. Fresh' /\ Settled' BY DEF IInv, Fresh, Settled
<1>3. InReach' BY DEF IInv, InReach
<1>4. Killed' /\ AtEnd' BY DEF IInv, Killed, AtEnd
<1> QED BY <1>1, <1>2, <1>3, <1>4 DEF IInv

LEMMA NextIInv == IInv /\ [Next]_vars => IInv'
<1> SUFFICES ASSUME IInv, [Next]_vars PROVE IInv' OBVIOUS
<1>1. CASE Spawn BY <1>1, SpawnStep
<1>2. CASE SpawnFails \/ Complete \/ Timeout \/ Drain \/ Interrupt \/ Kill
  <2>1. UNCHANGED <<platform, lock, processes>>
    BY <1>2 DEF SpawnFails, Complete, Timeout, Drain, Interrupt, Kill
  <2> QED BY <1>2, <2>1, EndStep
<1>3. CASE KillTree BY <1>3, KillTreeStep
<1>4. CASE Release \/ Acquire BY <1>4, LockStep
<1>5. ASSUME NEW p \in Tree, Fork(p) PROVE IInv' BY <1>5, ForkStep
<1>6. ASSUME NEW p \in Tree, LeaveGroup(p) PROVE IInv' BY <1>6, LeaveGroupStep
<1>7. ASSUME NEW p \in Tree, CloseOutput(p) PROVE IInv' BY <1>7, CloseOutputStep
<1>8. ASSUME NEW p \in Tree, Exit(p) PROVE IInv' BY <1>8, ExitStep
<1>9. CASE UNCHANGED vars
  BY <1>9 DEF vars, harness, processes, IInv, TypeOK, Busy, Fresh, Settled, InReach,
              Killed, AtEnd
<1> QED
  BY <1>1, <1>2, <1>3, <1>4, <1>5, <1>6, <1>7, <1>8, <1>9 DEF Next, Runner

-----------------------------------------------------------------------------
(* The theorem                                                              *)

\* A command that ran out of time leaves only processes that had got out of the
\* reach of the kill, and the session that has the workspace next meets no
\* others, unless a command completed while they had closed their output or the
\* user interrupted it.
THEOREM NothingIsLeft == Spec => []NothingLeft
<1>1. Spec => []IInv BY InitIInv, NextIInv, PTL DEF Spec
<1>2. IInv => NothingLeft
  <2> SUFFICES ASSUME IInv PROVE NothingLeft OBVIOUS
  <2>1. TypeOK /\ (result = "timeout" => running \subseteq escaped)
    BY DEF IInv, Killed
  <2>2. ASSUME lock = "next", result # "interrupted", NEW p \in running
        PROVE  p \in escaped \/ (result = "completed" /\ p \notin writers)
    <3>1. result \in {"completed", "timeout", "error"}
      BY <2>2 DEF IInv, TypeOK, Settled
    <3> QED BY <2>2, <3>1 DEF IInv, Killed, AtEnd
  <2> QED BY <2>1, <2>2 DEF NothingLeft
<1> QED BY <1>1, <1>2, PTL

\* Only a process that got out of reach can keep a command waiting: when the
\* second communicate() finds the output still open or the leader there, a
\* process that has escaped exists. Every other wait has a time limit.
THEOREM OnlyEscapedDelay ==
  Spec => [](pc = "drain" /\ ~ Drained => running \cap escaped # {})
<1>1. Spec => []IInv BY InitIInv, NextIInv, PTL DEF Spec
<1>2. IInv => (pc = "drain" /\ ~ Drained => running \cap escaped # {})
  BY DEF IInv, TypeOK, Killed, Drained
<1> QED BY <1>1, <1>2, PTL

-----------------------------------------------------------------------------
(* Settings: what layers hold                                               *)

\* A layer holds natural numbers, and Unset is none.
LEMMA LayerTypes ==
  ASSUME NEW layer \in Layers, NEW f \in Limits
  PROVE  layer[f] = Unset \/ layer[f] \in Nat \ {0}
<1>1. layer \in [Limits ->
                    (UNION {1..(Hard[g] + 1) : g \in Limits}) \cup {Unset}]
  BY DEF Layers
<1>2. \A g \in Limits : Hard[g] \in Nat BY LimitsAssumption
<1>3. layer[f] = Unset \/ \E g \in Limits : layer[f] \in 1..(Hard[g] + 1) BY <1>1
<1> QED BY <1>2, <1>3

\* Silence is a layer.
LEMMA NoLayerIsALayer == NoLayer \in Layers
BY DEF NoLayer, Layers

-----------------------------------------------------------------------------
(* Settings: the inductive invariant                                        *)

\* The engine that runs obeys the stored limits, and no stored limit is above
\* the option that the session was created with.
LimitsInv ==
  /\ SettingsTypeOK
  /\ Running => \A f \in LoopLimits : engine.limits[f] = stored[f]
  /\ stored # NoLayer =>
        \A f \in LoopLimits : options[f] # Unset => stored[f] <= options[f]

\* What the layers resolve to is within the hard bounds, and no option is
\* exceeded.
LEMMA ResolvedTypes ==
  ASSUME NEW cli \in Layers, SettingsTypeOK,
         Valid(user), NEW f \in Limits
  PROVE  /\ Resolved(cli)[f] \in 1..Hard[f]
         /\ UserBudgets[f] \in 1..Hard[f]
         /\ cli[f] # Unset => Resolved(cli)[f] <= cli[f]
<1>1. Hard[f] \in Nat /\ Default[f] \in 1..Hard[f] BY LimitsAssumption
<1>2. user \in Layers /\ project \in Layers BY DEF SettingsTypeOK
<1>3. UserBudgets[f] \in 1..Hard[f]
  BY <1>1, <1>2, LayerTypes DEF UserBudgets, Valid
<1> DEFINE p == Tightened(UserBudgets, project)
<1>4. p[f] \in 1..Hard[f]
  BY <1>1, <1>2, <1>3, LayerTypes DEF Tightened, Smaller
<1>5. Resolved(cli)[f] =
        IF cli[f] = Unset THEN p[f] ELSE Smaller(p[f], cli[f])
  BY DEF Resolved, Tightened
<1> QED BY <1>1, <1>3, <1>4, <1>5, LayerTypes DEF Smaller

-----------------------------------------------------------------------------
(* Settings: the steps                                                      *)

LEMMA InitLimitsInv == ASSUME SettingsInit PROVE LimitsInv
BY NoLayerIsALayer
   DEF SettingsInit, LimitsInv, SettingsTypeOK, Running, Layers

\* Building an engine, for cah run or for a resume.
LEMMA CreateStep ==
  ASSUME LimitsInv, NEW cli \in Layers, Create(cli),
         options' = IF stored = NoLayer THEN cli ELSE options
  PROVE  LimitsInv'
<1> USE DEF Limits
<1>1. \A f \in Limits : Resolved(cli)[f] \in 1..Hard[f]
  BY ResolvedTypes DEF Create, LimitsInv
<1>2. \A f \in Limits : stored'[f] \in 1..Hard[f]
  BY <1>1 DEF Create, LimitsInv, SettingsTypeOK
<1>3. /\ \A f \in Limits : engine'.limits[f] \in 1..Hard[f]
      /\ \A f \in LoopLimits : engine'.limits[f] = stored'[f]
      /\ engine'.validators = declared
  BY <1>1, <1>2 DEF Create, Obeyed
<1>4. SettingsTypeOK'
  BY <1>2, <1>3 DEF Create, LimitsInv, SettingsTypeOK, Running
<1>5. ASSUME NEW f \in LoopLimits, stored' # NoLayer, options'[f] # Unset
      PROVE  stored'[f] <= options'[f]
  BY <1>5, ResolvedTypes DEF Create, LimitsInv
<1> QED BY <1>3, <1>4, <1>5 DEF LimitsInv

LEMMA NextLimitsInv ==
  ASSUME LimitsInv, [SettingsNext]_settings PROVE LimitsInv'
<1>1. CASE Run BY <1>1, CreateStep DEF Run
<1>2. CASE Resume BY <1>2, CreateStep, NoLayerIsALayer DEF Resume
<1>3. CASE Stop \/ EditUser \/ EditProject \/ UNCHANGED settings
  BY <1>3 DEF Stop, EditUser, EditProject, settings, LimitsInv,
       SettingsTypeOK, Running
<1> QED BY <1>1, <1>2, <1>3 DEF SettingsNext

-----------------------------------------------------------------------------
(* Settings: the theorems                                                   *)

\* Whatever the two files become, by the user's hand or the session's own, the
\* limits that the loop of a session obeys are those it was created with, and
\* these are within what the options of its run allowed.
THEOREM LimitsAreFixed ==
  SettingsSpec => LoopLimitsFixed
<1> DEFINE Fixed == stored # NoLayer =>
          /\ stored' = stored
          /\ engine' # NoEngine =>
               \A f \in LoopLimits :
                 /\ engine'.limits[f] = stored[f]
                 /\ options[f] # Unset => stored[f] <= options[f]
<1>1. ASSUME LimitsInv, [SettingsNext]_settings PROVE [Fixed]_settings
  <2>1. LimitsInv' BY <1>1, NextLimitsInv
  <2>2. stored # NoLayer => stored' = stored
    BY <1>1 DEF SettingsNext, settings, Run, Resume, Create,
         Stop, EditUser, EditProject
  <2> QED BY <1>1, <2>1, <2>2 DEF LimitsInv, Running
<1>2. LimitsInv => SettingsTypeOK BY DEF LimitsInv
<1> QED
  BY <1>1, <1>2, InitLimitsInv, NextLimitsInv, PTL DEF SettingsSpec, LoopLimitsFixed

\* The least number of a set.
LEMMA MinIs ==
  ASSUME NEW S \in SUBSET Int, NEW m \in S, \A y \in S : m <= y
  PROVE  Min(S) = m
<1>1. ASSUME NEW x \in S, \A y \in S : x <= y PROVE x = m
  <2>1. x \in Int /\ m \in Int /\ x <= m /\ m <= x BY <1>1
  <2> QED BY <2>1
<1> DEFINE Least(x) == \A y \in S : x <= y
<1>2. Min(S) = CHOOSE x \in S : Least(x) BY DEF Min
<1>3. Least(m) OBVIOUS
<1>4. \A x \in S : Least(x) => x = m BY <1>1
<1> HIDE DEF Least
<1> QED BY <1>2, <1>3, <1>4

\* Each engine gets the tightest limit that any layer asks for, a layer that
\* says nothing counts for nothing, and no validator that the policy refuses
\* gets into an engine.
THEOREM TightestIsObeyed == SettingsSpec => Layered
<1> DEFINE Asked(f, option) == {UserBudgets[f], project[f], option} \ {Unset}
           Built ==
             engine = NoEngine /\ engine' # NoEngine =>
               /\ engine'.validators \subseteq Safe
               /\ \A f \in EngineLimits :
                    LET cli == IF stored = NoLayer THEN options'[f] ELSE Unset
                    IN engine'.limits[f] = Min(Asked(f, cli))
<1>1. ASSUME LimitsInv, [SettingsNext]_settings PROVE Built
  <2> SUFFICES ASSUME engine = NoEngine, engine' # NoEngine PROVE Built
    OBVIOUS
  <2>1. PICK cli \in Layers :
          /\ Create(cli)
          /\ cli = IF stored = NoLayer THEN options' ELSE NoLayer
    BY <1>1, NoLayerIsALayer
       DEF SettingsNext, settings, Run, Resume, Stop,
           EditUser, EditProject
  <2>2. engine'.validators \subseteq Safe BY <2>1 DEF Create, Accepted
  <2>3. ASSUME NEW f \in EngineLimits
        PROVE  engine'.limits[f] = Min(Asked(f, cli[f]))
    <3>1. f \in Limits /\ f \notin LoopLimits BY LimitsAssumption DEF Limits
    <3>2. engine'.limits[f] = Resolved(cli)[f]
      BY <2>1, <3>1 DEF Create, Obeyed
    <3> DEFINE S == Asked(f, cli[f])
               m == Resolved(cli)[f]
    <3>3. Unset \notin Nat BY LimitsAssumption
    <3>4. UserBudgets[f] \in Nat
      BY <1>1, <2>1, <3>1, ResolvedTypes, LimitsAssumption DEF LimitsInv, Create
    <3>5. project[f] = Unset \/ project[f] \in Nat
      BY <1>1, <3>1, LayerTypes DEF LimitsInv, SettingsTypeOK
    <3>6. cli[f] = Unset \/ cli[f] \in Nat BY <3>1, LayerTypes
    <3>7. m = LET p == IF project[f] = Unset THEN UserBudgets[f]
                       ELSE Smaller(UserBudgets[f], project[f])
              IN IF cli[f] = Unset THEN p ELSE Smaller(p, cli[f])
      BY <3>1 DEF Resolved, Tightened
    <3>8. m \in S BY <3>3, <3>4, <3>5, <3>6, <3>7 DEF Smaller
    <3>9. \A y \in S : m <= y BY <3>3, <3>4, <3>5, <3>6, <3>7 DEF Smaller
    <3>10. S \in SUBSET Int BY <3>4, <3>5, <3>6
    <3>11. Min(S) = m BY <3>8, <3>9, <3>10, MinIs
    <3> QED BY <3>2, <3>11
  <2> QED BY <2>1, <2>2, <2>3 DEF NoLayer, Limits
<1> QED BY <1>1, InitLimitsInv, NextLimitsInv, PTL DEF SettingsSpec, Layered
=============================================================================
