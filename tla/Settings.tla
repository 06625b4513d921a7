------------------------------ MODULE Settings ------------------------------
(***************************************************************************)
(* Where the limits and validators of a session come from: the user's      *)
(* config.toml, the project's harness.toml and the options of `cah run`,   *)
(* resolved into one configuration each time that an engine is built, and  *)
(* the copy of the limits that is stored with the session.                 *)
(*                                                                         *)
(* Both files can change at any time: the user edits them, and a session   *)
(* may edit harness.toml once the user has approved it.                    *)
(*                                                                         *)
(* Operators named Bug_X are wrong versions of X, which no specification   *)
(* uses: with X replaced by Bug_X, a run must find its property violated.  *)
(***************************************************************************)
EXTENDS Integers, FiniteSetsExt

CONSTANTS
  LoopLimits,    \* max_steps, max_llm_calls, ...: BudgetTracker stops at them
  EngineLimits,  \* command_timeout_seconds, max_observation_bytes
  Hard,          \* the upper bound of each field of BudgetConfig
  Default,       \* its default
  Unset,         \* a field that a file or the command line does not mention
  Safe, Unsafe   \* validators that the command policy allows, or not

Limits == LoopLimits \cup EngineLimits

ASSUME LimitsAssumption ==
  /\ LoopLimits \cap EngineLimits = {}
  /\ Hard \in [Limits -> Nat \ {0}]
  /\ \A f \in Limits : Default[f] \in 1..Hard[f]
  /\ Unset \notin Nat

ASSUME ValidatorsAssumption == Safe \cap Unsafe = {}

\* What a file may say; one more than Hard stands for all that is too much.
Layers ==
  {L \in [Limits -> (UNION {1..(Hard[f] + 1) : f \in Limits}) \cup {Unset}] :
     \A f \in Limits : L[f] # Unset => L[f] <= Hard[f] + 1}

Validators == Safe \cup Unsafe

NoLayer == [f \in Limits |-> Unset]
NoEngine == [limits |-> NoLayer, validators |-> {}]

VARIABLES
  user,       \* [budgets] of config.toml
  project,    \* [budgets] of harness.toml
  declared,   \* [[validators]] of harness.toml
  stored,     \* the limits in sessions.budget_json; NoLayer: no session yet
  engine,     \* the limits and validators of the engine that runs the session
  options     \* history: the options of `cah run`

settings == <<user, project, declared, stored, engine, options>>

\* BudgetConfig: ge=1 and le=Hard, checked before anything is merged.
Valid(layer) == \A f \in Limits : layer[f] # Unset => layer[f] <= Hard[f]

Smaller(a, b) == IF a < b THEN a ELSE b

\* UserConfig.budgets: a field that is not set has its default.
UserBudgets == [f \in Limits |-> IF user[f] = Unset THEN Default[f] ELSE user[f]]

\* _tighten_explicit_budgets: only model_fields_set counts.
\* tighten_budgets: a field that is not set counts with its default.
Bug_Tightened(trusted, lower) ==
  [f \in Limits |->
     Smaller(trusted[f], IF lower[f] = Unset THEN Default[f] ELSE lower[f])]
Tightened(trusted, lower) ==
  [f \in Limits |->
     IF lower[f] = Unset THEN trusted[f] ELSE Smaller(trusted[f], lower[f])]

\* resolve_config.
Resolved(cli) == Tightened(Tightened(UserBudgets, project), cli)

\* _validate_project_config, on every creation of an engine.
Accepted == declared \subseteq Safe

\* BudgetTracker.from_session: the loop obeys the stored limits.
\* The loop obeys the configuration that was resolved last.
Bug_Obeyed(limits) == limits
Obeyed(limits) ==
  [f \in Limits |-> IF f \in LoopLimits THEN stored'[f] ELSE limits[f]]

SettingsInit ==
  /\ user \in Layers
  /\ project \in Layers
  /\ declared \in SUBSET Validators
  /\ stored = NoLayer
  /\ engine = NoEngine
  /\ options = NoLayer

\* EngineFactory.create: a layer out of range or an unsafe validator raises
\* ConfigError before anything is stored or built.
Create(cli) ==
  /\ engine = NoEngine
  /\ Valid(user) /\ Valid(project) /\ Valid(cli)
  /\ Accepted
  /\ stored' = IF stored = NoLayer THEN Resolved(cli) ELSE stored
  /\ engine' = [limits |-> Obeyed(Resolved(cli)), validators |-> declared]
  /\ UNCHANGED <<user, project, declared>>

\* cah run.
Run ==
  /\ stored = NoLayer
  /\ \E cli \in Layers : Create(cli) /\ options' = cli

\* cah sessions resume: create(session_id=...), with no limits of its own.
Resume ==
  /\ stored # NoLayer
  /\ Create(NoLayer)
  /\ UNCHANGED options

\* The session pauses, or its process ends.
Stop ==
  /\ engine # NoEngine
  /\ engine' = NoEngine
  /\ UNCHANGED <<user, project, declared, stored, options>>

EditUser ==
  /\ user' \in Layers
  /\ UNCHANGED <<project, declared, stored, engine, options>>

EditProject ==
  /\ project' \in Layers
  /\ declared' \in SUBSET Validators
  /\ UNCHANGED <<user, stored, engine, options>>

SettingsNext == Run \/ Resume \/ Stop \/ EditUser \/ EditProject

SettingsSpec == SettingsInit /\ [][SettingsNext]_settings

-----------------------------------------------------------------------------
Running == engine # NoEngine

SettingsTypeOK ==
  /\ {user, project, options} \subseteq Layers
  /\ declared \subseteq Validators
  /\ stored = NoLayer \/ \A f \in Limits : stored[f] \in 1..Hard[f]
  /\ Running => /\ \A f \in Limits : engine.limits[f] \in 1..Hard[f]
                /\ engine.validators \subseteq Validators

\* The limits that govern single commands and prompts are the tightest that
\* any layer asks for when the engine is built, and a field that a layer does
\* not mention is left to the layers that do: silence neither lowers a limit
\* nor raises it. Each engine is built without a validator that the command
\* policy refuses, whatever harness.toml has become since the last one.
Layered ==
  [][engine = NoEngine /\ engine' # NoEngine =>
       /\ engine'.validators \subseteq Safe
       /\ \A f \in EngineLimits :
            LET cli == IF stored = NoLayer THEN options'[f] ELSE Unset
            IN engine'.limits[f] =
                 Min({UserBudgets[f], project[f], cli} \ {Unset})]_settings

\* Whatever becomes of the two files while the session exists, by the user's
\* hand or its own, the limits that its loop obeys are those it was created
\* with, and these never exceed what the options of its run allowed.
LoopLimitsFixed ==
  /\ []SettingsTypeOK
  /\ [][stored # NoLayer =>
          /\ stored' = stored
          /\ engine' # NoEngine =>
               \A f \in LoopLimits :
                 /\ engine'.limits[f] = stored[f]
                 /\ options[f] # Unset => stored[f] <= options[f]]_settings
=============================================================================
