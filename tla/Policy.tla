------------------------------- MODULE Policy -------------------------------
(***************************************************************************)
(* PolicyEngine.evaluate, the pure function that allows, gates or denies   *)
(* an action, and the second opinion of CommandRunner.run, which sees the  *)
(* same command again when it is about to be executed.                     *)
(*                                                                         *)
(* An argument of a command is a word, an option, or an option with a      *)
(* value attached by "=". An option with its value glued to it, like       *)
(* -i../out, is an option of its own, as it is for the code. Letter case   *)
(* is left out: the code compares the casefolded text. Each set of words   *)
(* or options below holds one or two representatives of the text that the  *)
(* corresponding set or regular expression of the code accepts.            *)
(***************************************************************************)
EXTENDS Naturals, SequencesExt

CONSTANTS
  TailArgs,   \* the arguments that may follow the head of a command
  MaxTail,    \* how many of them (a bound)
  Timeouts,   \* values of timeout_seconds
  Contexts,   \* policy contexts: [prefixes, timeout]
  NoAction    \* no action has been proposed

ASSUME PolicyAssumption == MaxTail \in Nat /\ Timeouts \subseteq Nat

VARIABLES
  context,   \* the PolicyContext of the session
  action,    \* the action proposed
  decision,  \* what PolicyEngine.evaluate said of it
  phase      \* how far the action has come

vars == <<context, action, decision, phase>>

-----------------------------------------------------------------------------
(* Commands                                                                 *)

Word(w) == [opt |-> "", val |-> w]
Opt(o) == [opt |-> o, val |-> ""]
OptVal(o, v) == [opt |-> o, val |-> v]

IsWord(a) == a.opt = ""

ASSUME ArgumentsAssumption == \A a \in TailArgs : a = OptVal(a.opt, a.val)

Pytest == <<"python", Opt("-m"), Word("pytest")>>
Ruff == <<"python", Opt("-m"), Word("ruff"), Word("check")>>
Mypy == <<"python", Opt("-m"), Word("mypy")>>
Compileall == <<"python", Opt("-m"), Word("compileall")>>
PipInstall == <<"python", Opt("-m"), Word("pip"), Word("install")>>
GitStatus == <<"git", Word("status")>>
GitDiff == <<"git", Word("diff")>>
GitAdd == <<"git", Word("add")>>
GitCommit == <<"git", Word("commit")>>

Builtin ==
  {Pytest, Ruff, Mypy, Compileall, PipInstall, GitStatus, GitDiff, GitAdd,
   GitCommit}

\* How a command may begin: as the policy knows it, or otherwise.
Heads ==
  Builtin \cup
  {<<"python">>, <<"python", Opt("-m"), Word("pip")>>, <<"git">>,
   <<"git", Word("push")>>, <<"bash">>, <<"curl">>,
   Append(Pytest, Word("a|b")),
   Append(PipInstall, Word("git+url"))}

Commands ==
  {[tool |-> "run_command", line |-> h \o t, timeout |-> n, cwd |-> d] :
     h \in Heads, t \in BoundedSeq(TailArgs, MaxTail), n \in Timeouts,
     d \in {"directory", "missing"}}

\* A path stands for its kind; a glob for whether it can match what is secret.
FileActions ==
  [tool : {"list_files", "read_file", "replace_in_file", "create_file",
           "delete_file"},
   path : {"source", "protected", "directory", "missing", "outside"},
   glob : {"plain", "unsafe"}]

ASSUME NoActionAssumption == NoAction \notin Commands \cup FileActions

\* PolicyContext: a project can only take prefixes away.
ASSUME ContextsAssumption ==
  Contexts \subseteq [prefixes : SUBSET Builtin, timeout : Nat]

Program(c) == c.line[1]
Arguments(c) == {c.line[i] : i \in 2..Len(c.line)}

-----------------------------------------------------------------------------
(* The rules that look at one program or argument                           *)

ShellWrappers == {"bash"}
NetworkTools == {"curl"}
RemoteGit == {"push"}
ShellText == {"a|b"}
NetworkText == {"git+url"}
OutsidePaths == {"../out"}
AtFiles == {"@file"}
ExistingPaths == {"src"}

\* The value an option carries after "=" is searched for shell syntax too;
\* the network patterns are anchored at the start of the argument.
HasShellSyntax(a) == a.val \in ShellText
HasNetworkSource(a) == IsWord(a) /\ a.val \in NetworkText

\* A value that follows an option as an argument of its own is a word. One that
\* is glued to its option, without "=", is not looked at.
\* The value after "=" is not looked at either.
Bug_UnsafeCommandPath(a) == IsWord(a) /\ a.val \in OutsidePaths
UnsafeCommandPath(a) == a.val \in OutsidePaths

\* The first rules of _evaluate_command and the command's working directory,
\* which normalize_action requires to be a directory.
Forbidden(c) ==
  \/ c.cwd # "directory"
  \/ Program(c) \in ShellWrappers \cup NetworkTools
  \/ \E a \in Arguments(c) : HasShellSyntax(a) \/ HasNetworkSource(a)
  \/ Program(c) = "git" /\ Len(c.line) > 1 /\ c.line[2].val \in RemoteGit

-----------------------------------------------------------------------------
(* The options that have no side effect                                     *)

\* Some options are flags and take a value too, but only after "=".
Flags(prefix) ==
  CASE prefix = Pytest -> {"--quiet", "-q"}
    [] prefix = Ruff -> {"--quiet", "-q"}
    [] prefix = Mypy -> {"--strict"}
    [] prefix = GitStatus -> {"--porcelain"}
    [] prefix = GitDiff -> {"--quiet", "--stat"}

Values(prefix) ==
  CASE prefix = Pytest -> {"-m", "-k", "--ignore"}
    [] prefix = Ruff -> {"--ignore", "--exclude"}
    [] prefix = Mypy -> {"-m", "--exclude"}
    [] prefix = GitStatus -> {"--porcelain"}
    [] prefix = GitDiff -> {"--color", "--stat"}

IsFlag(a, prefix) == a.val = "" /\ a.opt \in Flags(prefix)

\* The option's value is attached, or is the next argument.
Attached(a, prefix) == a.val # "" /\ a.opt \in Values(prefix)
Detached(a, prefix) ==
  a.val = "" /\ a.opt \in Values(prefix) \ Flags(prefix)

IsAtFile(a) == IsWord(a) /\ a.val \in AtFiles

\* _options_are_safe walks over the arguments once.
\* The value of a detached option is looked at like an argument.
Bug_OptionsAreSafe(args, prefix) ==
  LET n == Len(args)
      safe[i \in 1..(n + 1)] ==
        \/ i = n + 1
        \/ args[i] = Opt("--")
        \/ /\ ~IsAtFile(args[i])
           /\ \/ IsWord(args[i])
              \/ IsFlag(args[i], prefix)
              \/ Attached(args[i], prefix)
              \/ Detached(args[i], prefix)
           /\ safe[i + 1]
  IN safe[1]
OptionsAreSafe(args, prefix) ==
  LET n == Len(args)
      safe[i \in 1..(n + 1)] ==
        \/ i = n + 1
        \/ args[i] = Opt("--")
        \/ /\ ~IsAtFile(args[i])
           /\ \/ IsWord(args[i])
              \/ IsFlag(args[i], prefix)
              \/ Attached(args[i], prefix)
           /\ safe[i + 1]
        \/ /\ Detached(args[i], prefix)
           /\ i < n
           /\ safe[i + 2]
  IN safe[1]

-----------------------------------------------------------------------------
(* The decision                                                             *)

\* pip installs only what lies in the workspace, and takes no other option.
PipDecision(args) ==
  LET Targets == ToSet(args) \ {Opt("--no-index")} IN
  IF /\ Opt("--no-index") \in ToSet(args)
     /\ Targets # {}
     /\ \A a \in Targets : IsWord(a) /\ a.val \in ExistingPaths
  THEN "REQUIRE_APPROVAL" ELSE "DENY"

\* The options of git add are not looked at, except for the path they carry.
GitAddDecision(args) ==
  LET Targets == {a \in ToSet(args) : IsWord(a)} IN
  IF /\ ~\E a \in ToSet(args) : UnsafeCommandPath(a)
     /\ Targets # {}
     /\ \A a \in Targets : a.val \in ExistingPaths
  THEN "REQUIRE_APPROVAL" ELSE "DENY"

\* The other commands, by the builtin prefix that they match.
OtherDecision(prefix, args) ==
  CASE \E a \in ToSet(args) : UnsafeCommandPath(a) -> "DENY"
    [] OTHER ->
         IF prefix \in {Compileall, GitCommit} THEN "REQUIRE_APPROVAL"
         ELSE IF OptionsAreSafe(args, prefix) THEN "ALLOW" ELSE "DENY"

\* The longest builtin prefix; <<>> if there is none.
MatchingPrefix(line) ==
  LET Matches == {p \in Builtin \cup {<<>>} : IsPrefix(p, line)}
  IN CHOOSE p \in Matches : \A q \in Matches : Len(q) <= Len(p)

\* The project's restrictions are not consulted for an install.
Bug_InContext(prefix, c, ctx) ==
  c.timeout <= ctx.timeout /\ (prefix \in ctx.prefixes \/ prefix = PipInstall)
InContext(prefix, c, ctx) ==
  c.timeout <= ctx.timeout /\ prefix \in ctx.prefixes

\* The order in which the code denies shows in the reason only.
CommandDecision(c, ctx) ==
  LET prefix == MatchingPrefix(c.line)
      args == SubSeq(c.line, Len(prefix) + 1, Len(c.line))
  IN IF Forbidden(c) \/ ~InContext(prefix, c, ctx) THEN "DENY"
     ELSE CASE prefix = PipInstall -> PipDecision(args)
            [] prefix = GitAdd -> GitAddDecision(args)
            [] OTHER -> OtherDecision(prefix, args)

FileDecision(a) ==
  IF \/ a.path = "outside"
     \/ a.path = "missing" /\ a.tool # "create_file"
     \/ a.glob = "unsafe" /\ a.tool = "list_files"
     \/ a.path = "directory" /\ a.tool = "delete_file"
  THEN "DENY"
  ELSE IF \/ a.tool \in {"create_file", "delete_file"}
          \/ a.tool = "replace_in_file" /\ a.path = "protected"
       THEN "REQUIRE_APPROVAL" ELSE "ALLOW"

Evaluate(a, ctx) ==
  IF a.tool = "run_command" THEN CommandDecision(a, ctx) ELSE FileDecision(a)

-----------------------------------------------------------------------------
(* From the decision to the tool                                            *)

\* workspace_fingerprint takes every argument of git add for a path.
Bindable(a) ==
  a.tool = "run_command" /\ IsPrefix(GitAdd, a.line) =>
    \A i \in 3..Len(a.line) : IsWord(a.line[i])

\* CommandRunner.run decides for itself: python only, no pip, and none of
\* the words it takes for another program.
\* It is left to the policy to hold back pip.
Bug_RunnerAccepts(c) ==
  /\ Program(c) = "python"
  /\ \A a \in Arguments(c) : ~(IsWord(a) /\ a.val \in {"push"})
RunnerAccepts(c) ==
  /\ Program(c) = "python"
  /\ ~IsPrefix(<<"python", Opt("-m"), Word("pip")>>, c.line)
  /\ \A a \in Arguments(c) : ~(IsWord(a) /\ a.val \in {"push"})

ToolAccepts(a) == a.tool = "run_command" => RunnerAccepts(a)

Init ==
  /\ context \in Contexts
  /\ action = NoAction
  /\ decision = "none"
  /\ phase = "idle"

\* An approval that cannot be bound to the workspace cannot be requested, and
\* the gateway fails.
PhaseAfter(a, d) ==
  CASE d = "ALLOW" -> "granted"
    [] d = "REQUIRE_APPROVAL" /\ Bindable(a) -> "waiting"
    [] d = "REQUIRE_APPROVAL" /\ ~Bindable(a) -> "failed"
    [] OTHER -> "denied"

\* PolicyGateway.authorize.
Authorize(a) ==
  /\ phase = "idle"
  /\ action' = a
  /\ decision' = Evaluate(a, context)
  /\ phase' = PhaseAfter(a, decision')
  /\ UNCHANGED context

\* The user decides on a gated action.
Consume ==
  /\ phase = "waiting"
  /\ phase' \in {"granted", "denied"}
  /\ UNCHANGED <<context, action, decision>>

Execute ==
  /\ phase = "granted"
  /\ phase' = IF ToolAccepts(action) THEN "executed" ELSE "refused"
  /\ UNCHANGED <<context, action, decision>>

Next ==
  \/ phase = "idle" /\ \E a \in Commands \cup FileActions : Authorize(a)
  \/ Consume
  \/ Execute

Spec == Init /\ [][Next]_vars

-----------------------------------------------------------------------------
(* Properties                                                               *)

Phases ==
  {"idle", "granted", "denied", "waiting", "failed", "executed", "refused"}

\* Every action gets one of the three decisions, whatever branch it takes
\* through PolicyEngine.evaluate.
TypeOK ==
  /\ context \in Contexts
  /\ action = NoAction \/ action.tool \in {"run_command"} \/ action \in FileActions
  /\ decision \in {"none", "ALLOW", "REQUIRE_APPROVAL", "DENY"}
  /\ decision = "none" <=> action = NoAction
  /\ phase \in Phases

\* A parse of the arguments: the first n of them count, and the rest stands
\* after "--"; V are those that are the value of the option before them.
Parses(args, prefix, n, V) ==
  /\ n = Len(args) \/ args[n + 1] = Opt("--")
  /\ \A i \in 1..n :
       i \in V <=> i > 1 /\ (i - 1) \notin V /\ Detached(args[i - 1], prefix)
  /\ n > 0 => n \in V \/ ~Detached(args[n], prefix)
  /\ \A i \in (1..n) \ V :
       \/ IsWord(args[i]) /\ ~IsAtFile(args[i])
       \/ IsFlag(args[i], prefix)
       \/ Attached(args[i], prefix)
       \/ Detached(args[i], prefix)

\* A command runs without approval exactly if its arguments can be parsed into
\* words and options without side effects (_options_are_safe): none is taken
\* for the value of another, or skipped, or read as both.
SilentCommands ==
  action # NoAction /\ action.tool = "run_command" =>
    LET prefix == MatchingPrefix(action.line)
        args == SubSeq(action.line, Len(prefix) + 1, Len(action.line))
    IN decision = "ALLOW" <=>
         /\ prefix \in {Pytest, Ruff, Mypy, GitStatus, GitDiff}
         /\ InContext(prefix, action, context)
         /\ ~Forbidden(action)
         /\ ~\E a \in Arguments(action) : UnsafeCommandPath(a)
         /\ \E n \in 0..Len(args) : \E V \in SUBSET (1..n) :
              Parses(args, prefix, n, V)

\* Fewer prefixes or a shorter timeout, which a project may ask for
\* (harness.toml), turn decisions into DENY and never into anything else, and
\* what they leave out is denied whichever branch of _evaluate_command sees it.
Narrower(c, d) == c.prefixes \subseteq d.prefixes /\ c.timeout <= d.timeout

Covers(c, a) ==
  a.tool = "run_command" =>
    a.timeout <= c.timeout /\ \E p \in c.prefixes : IsPrefix(p, a.line)

RestrictionsHold ==
  action # NoAction =>
    \A c \in Contexts :
      Narrower(c, context) =>
        \/ Evaluate(action, c) = "DENY"
        \/ Evaluate(action, c) = decision /\ Covers(c, action)

\* An option that carries an outside path without "=".
OutsideOptions == {"-i../out"}

\* No command that is permitted names a path outside the workspace, whether the
\* general rule, the one of pip or the one of git add let it through, but for
\* one way to write it: glued to an option of compileall or git commit, where
\* _unsafe_command_path does not look. Such a command waits for the user. In
\* the commands that run without approval the same text is never an option: it
\* is the value of the option before it, or stands after "--", and then it is
\* a name inside of the workspace.
OutsideIsGated ==
  /\ TypeOK
  /\ phase \in {"waiting", "granted", "executed"} =>
       IF action.tool = "run_command"
       THEN LET prefix == MatchingPrefix(action.line)
                args == SubSeq(action.line, Len(prefix) + 1, Len(action.line))
            IN /\ \A a \in Arguments(action) : a.val \notin OutsidePaths
               /\ \/ \A a \in Arguments(action) : a.opt \notin OutsideOptions
                  \/ /\ prefix \in {Compileall, GitCommit}
                     /\ decision = "REQUIRE_APPROVAL"
                  \/ /\ decision = "ALLOW"
                     /\ \E n \in 0..Len(args) : \E V \in SUBSET (1..n) :
                          /\ Parses(args, prefix, n, V)
                          /\ \A i \in (1..n) \ V : args[i].opt \notin OutsideOptions
       ELSE action.path # "outside"

\* The two components that judge a command agree about the Python tools: what
\* the policy lets through, after an approval or without one, the runner
\* executes, unless an argument has the name of a program that it refuses. Git
\* and pip commands are permitted by one and always refused by the other
\* (PolicyEngine.evaluate, CommandRunner.run).
PythonToolsRun ==
  /\ phase = "refused" =>
       /\ action.tool = "run_command"
       /\ \/ MatchingPrefix(action.line) \notin {Pytest, Ruff, Mypy, Compileall}
          \/ \E a \in Arguments(action) : a = Word("push")
  /\ phase = "executed" /\ action.tool = "run_command" =>
       MatchingPrefix(action.line) \in {Pytest, Ruff, Mypy, Compileall}
=============================================================================
