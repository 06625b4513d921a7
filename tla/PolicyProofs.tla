---------------------------- MODULE PolicyProofs ----------------------------
(***************************************************************************)
(* What a project's restrictions do to the decisions of the policy, which  *)
(* commands run without approval, and what reaches a tool: for every       *)
(* context, every argument and every length of a command.                  *)
(***************************************************************************)
EXTENDS Policy, SequenceTheorems, WellFoundedInduction, TLAPS

LEMMA ShortTuples ==
  ASSUME NEW S, NEW p \in S, NEW q \in S, NEW r \in S, NEW s \in S
  PROVE  /\ <<p>> \in Seq(S) /\ <<p, q>> \in Seq(S) /\ <<p, q, r>> \in Seq(S)
         /\ <<p, q, r, s>> \in Seq(S)
OBVIOUS

LEMMA TailIsSequence ==
  ASSUME NEW S, TailArgs \subseteq S, NEW t \in BoundedSeq(TailArgs, MaxTail)
  PROVE  t \in Seq(S)
<1>1. PICK m \in 0..MaxTail : t \in [1..m -> TailArgs]
  BY DEF BoundedSeq, SeqOf
<1>2. t \in Seq(TailArgs) BY <1>1, PolicyAssumption
<1> QED BY <1>2

\* The words that the heads of commands are made of, and the tails.
HeadWords ==
  {"python", "git", "bash", "curl", Opt("-m")} \cup
  {Word(w) : w \in {"pytest", "ruff", "check", "mypy", "compileall", "pip",
                    "install", "status", "diff", "add", "commit", "push",
                    "a|b", "git+url"}}
AllWords == HeadWords \cup TailArgs

LEMMA BuiltinIsSequence == \A p \in Builtin : p \in Seq(AllWords)
<1> DEFINE W == AllWords
<1>1. /\ "python" \in W /\ "git" \in W /\ Opt("-m") \in W
      /\ \A w \in {"pytest", "ruff", "check", "mypy", "compileall", "pip",
                   "install", "status", "diff", "add", "commit"} : Word(w) \in W
  BY DEF AllWords, HeadWords
<1> HIDE DEF W
<1>2. Pytest \in Seq(W) BY <1>1, ShortTuples DEF Pytest
<1>3. Ruff \in Seq(W) BY <1>1, ShortTuples DEF Ruff
<1>4. Mypy \in Seq(W) BY <1>1, ShortTuples DEF Mypy
<1>5. Compileall \in Seq(W) BY <1>1, ShortTuples DEF Compileall
<1>6. PipInstall \in Seq(W) BY <1>1, ShortTuples DEF PipInstall
<1>7. /\ GitStatus \in Seq(W) /\ GitDiff \in Seq(W)
      /\ GitAdd \in Seq(W) /\ GitCommit \in Seq(W)
  BY <1>1, ShortTuples DEF GitStatus, GitDiff, GitAdd, GitCommit
<1> QED BY <1>2, <1>3, <1>4, <1>5, <1>6, <1>7 DEF Builtin, W

LEMMA HeadIsSequence == \A h \in Heads : h \in Seq(AllWords)
<1> DEFINE W == AllWords
<1>1. /\ "python" \in W /\ "git" \in W /\ "bash" \in W /\ "curl" \in W
      /\ Opt("-m") \in W
      /\ \A w \in {"pip", "push", "a|b", "git+url"} : Word(w) \in W
  BY DEF AllWords, HeadWords
<1>2. \A p \in Builtin : p \in Seq(W) BY BuiltinIsSequence
<1> HIDE DEF W
<1>3. /\ <<"python">> \in Seq(W) /\ <<"git">> \in Seq(W)
      /\ <<"bash">> \in Seq(W) /\ <<"curl">> \in Seq(W)
      /\ <<"python", Opt("-m"), Word("pip")>> \in Seq(W)
      /\ <<"git", Word("push")>> \in Seq(W)
  BY <1>1, ShortTuples
<1>4. \A s \in Seq(W), w \in W : Append(s, w) \in Seq(W) OBVIOUS
<1>5. Pytest \in Builtin /\ PipInstall \in Builtin BY DEF Builtin
<1>6. Append(Pytest, Word("a|b")) \in Seq(W) BY <1>1, <1>2, <1>4, <1>5
<1>7. Append(PipInstall, Word("git+url")) \in Seq(W)
  BY <1>1, <1>2, <1>4, <1>5
<1>8. \A h \in Heads : h \in Seq(W) BY <1>2, <1>3, <1>6, <1>7 DEF Heads
<1> QED BY <1>8 DEF W

LEMMA CommandFacts ==
  ASSUME NEW a \in Commands
  PROVE  a.tool = "run_command" /\ a.timeout \in Nat /\ Len(a.line) \in Nat
<1>1. PICK h \in Heads, t \in BoundedSeq(TailArgs, MaxTail), n \in Timeouts,
           d \in {"directory", "missing"} :
        a = [tool |-> "run_command", line |-> h \o t, timeout |-> n, cwd |-> d]
  BY DEF Commands
<1>2. t \in Seq(AllWords) BY TailIsSequence DEF AllWords
<1>3. h \in Seq(AllWords) BY HeadIsSequence
<1>4. Len(h \o t) \in Nat BY <1>2, <1>3
<1> QED BY <1>1, <1>4, PolicyAssumption

\* The builtin prefixes have two, three or four words, so the longest that
\* matches a line is found by looking at each length in turn.
LEMMA BuiltinLengths == \A p \in Builtin \cup {<<>>} : Len(p) \in {0, 2, 3, 4}
BY DEF Builtin, Pytest, Ruff, Mypy, Compileall, PipInstall, GitStatus, GitDiff,
       GitAdd, GitCommit

LEMMA MatchingPrefixMatches ==
  ASSUME NEW line, Len(line) \in Nat PROVE IsPrefix(MatchingPrefix(line), line)
<1> DEFINE M == {p \in Builtin \cup {<<>>} : IsPrefix(p, line)}
           Longest(p) == \A q \in M : Len(q) <= Len(p)
<1>1. ASSUME M # {} PROVE \E p \in M : Longest(p)
  <2>1. \A p \in M : Len(p) \in {0, 2, 3, 4} BY BuiltinLengths
  <2>2. CASE \E p \in M : Len(p) = 4 BY <2>1, <2>2
  <2>3. CASE (\E p \in M : Len(p) = 3) /\ ~\E p \in M : Len(p) = 4
    BY <2>1, <2>3
  <2>4. CASE (\E p \in M : Len(p) = 2) /\ ~\E p \in M : Len(p) \in {3, 4}
    BY <2>1, <2>4
  <2>5. CASE ~\E p \in M : Len(p) \in {2, 3, 4} BY <1>1, <2>1, <2>5
  <2> QED BY <2>2, <2>3, <2>4, <2>5
<1>2. IsPrefix(<<>>, line) BY DEF IsPrefix
<1>3. M # {} BY <1>2
<1>4. MatchingPrefix(line) \in M BY <1>1, <1>3 DEF MatchingPrefix
<1> QED BY <1>4

\* A narrower context denies, or it decides as the wider one and covers the
\* command.
LEMMA Narrowing ==
  ASSUME NEW a \in Commands \cup FileActions, NEW c \in Contexts,
         NEW d \in Contexts, Narrower(c, d)
  PROVE  \/ Evaluate(a, c) = "DENY"
         \/ Evaluate(a, c) = Evaluate(a, d) /\ Covers(c, a)
<1> DEFINE prefix == MatchingPrefix(a.line)
<1>1. c.timeout \in Nat /\ d.timeout \in Nat BY ContextsAssumption
<1>2. CASE a \in FileActions
  <2>1. a.tool # "run_command" BY <1>2 DEF FileActions
  <2> QED BY <2>1 DEF Evaluate, Covers
<1>3. CASE a \in Commands
  <2>1. a.tool = "run_command" /\ a.timeout \in Nat /\ IsPrefix(prefix, a.line)
    BY <1>3, CommandFacts, MatchingPrefixMatches
  <2> HIDE DEF prefix
  <2>2. CASE InContext(prefix, a, c)
    <3>1. InContext(prefix, a, d)
      BY <1>1, <2>1, <2>2 DEF InContext, Narrower
    <3>2. Covers(c, a) BY <2>1, <2>2 DEF InContext, Covers
    <3>3. Evaluate(a, c) = Evaluate(a, d)
      BY <2>1, <2>2, <3>1 DEF Evaluate, CommandDecision, prefix
    <3> QED BY <3>2, <3>3
  <2>3. CASE ~InContext(prefix, a, c)
    BY <2>1, <2>3 DEF Evaluate, CommandDecision, prefix
  <2> QED BY <2>2, <2>3
<1> QED BY <1>2, <1>3

\* The decision in hand is the one for the action in hand.
Decided ==
  /\ context \in Contexts
  /\ action # NoAction =>
       /\ action \in Commands \cup FileActions
       /\ decision = Evaluate(action, context)

LEMMA DecidedInvariant == Spec => []Decided
<1>1. Init => Decided BY DEF Init, Decided
<1>2. Decided /\ [Next]_vars => Decided'
  <2> SUFFICES ASSUME Decided, [Next]_vars PROVE Decided' OBVIOUS
  <2>1. CASE UNCHANGED vars BY <2>1 DEF Decided, vars
  <2>2. CASE Consume \/ Execute BY <2>2 DEF Decided, Consume, Execute
  <2>3. ASSUME NEW a \in Commands \cup FileActions, Authorize(a) PROVE Decided'
    BY <2>3 DEF Decided, Authorize
  <2> QED BY <2>1, <2>2, <2>3 DEF Next
<1> QED BY <1>1, <1>2, PTL DEF Spec

\* Whatever a project takes away turns decisions into denials only, and what is
\* permitted is covered by the prefixes and the timeout that are left.
THEOREM RestrictionsOnlyDeny == Spec => []RestrictionsHold
<1>1. Decided => RestrictionsHold BY Narrowing DEF Decided, RestrictionsHold
<1> QED BY <1>1, DecidedInvariant, PTL

-----------------------------------------------------------------------------
(* Arguments and where they come from                                       *)

LEMMA RestOf ==
  ASSUME NEW S, NEW s \in Seq(S), NEW n \in Nat, n <= Len(s)
  PROVE  ToSet(SubSeq(s, n + 1, Len(s))) = {s[i] : i \in (n + 1)..Len(s)}
<1> DEFINE r == SubSeq(s, n + 1, Len(s))
           m == Len(s) - n
<1>1. Len(s) \in Nat /\ m \in Nat OBVIOUS
<1>2. /\ Len(r) = m
      /\ \A i \in 1..m : r[i] = s[n + i]
      /\ r \in Seq(S)
  <2>1. CASE m = 0
    <3>1. r = <<>> BY <1>1, <2>1
    <3> QED BY <2>1, <3>1
  <2>2. CASE m # 0
    <3>1. n + 1 \in 1..(Len(s) + 1) /\ Len(s) \in n..Len(s) BY <1>1
    <3>2. \A i \in (n + 1)..Len(s) : s[i] \in S BY <1>1
    <3>3. r = [i \in 1..(Len(s) - (n + 1) + 1) |-> s[i + (n + 1) - 1]]
      BY <1>1, <2>2
    <3>4. r = [i \in 1..m |-> s[n + i]] BY <1>1, <3>3
    <3>5. \A i \in 1..m : s[n + i] \in S BY <1>1, <3>2
    <3> HIDE DEF r
    <3>6. r \in Seq(S) /\ Len(r) = m BY <1>1, <3>4, <3>5
    <3> QED BY <3>4, <3>6
  <2> QED BY <2>1, <2>2
<1>3. DOMAIN r = 1..m BY <1>2
<1> HIDE DEF r
<1>4. ToSet(r) = {r[i] : i \in 1..m} BY <1>3 DEF ToSet
<1>5. \A i \in (n + 1)..Len(s) : i - n \in 1..m /\ r[i - n] = s[i] BY <1>1, <1>2
<1>6. \A i \in 1..m : n + i \in (n + 1)..Len(s) /\ r[i] = s[n + i] BY <1>1, <1>2
<1>7. ToSet(r) = {s[i] : i \in (n + 1)..Len(s)} BY <1>4, <1>5, <1>6
<1> QED BY <1>7 DEF r

LEMMA PrefixElements ==
  ASSUME NEW S, NEW p \in Seq(S), NEW s \in Seq(S), IsPrefix(p, s)
  PROVE  Len(p) <= Len(s) /\ \A i \in 1..Len(p) : s[i] = p[i]
<1> DEFINE n == Len(p)
<1>1. n \in Nat /\ Len(s) \in Nat /\ n <= Len(s) BY DEF IsPrefix
<1>2. SubSeq(p, 1, n) = SubSeq(s, 1, n) BY DEF IsPrefix
<1>3. ASSUME NEW i \in 1..n PROVE s[i] = p[i]
  <2>1. SubSeq(p, 1, n)[i] = p[i] BY <1>1
  <2>2. SubSeq(s, 1, n)[i] = s[i] BY <1>1
  <2> QED BY <1>2, <2>1, <2>2
<1> QED BY <1>1, <1>3

\* What may stand after the first word of a line.
IsArgument(a) == a = OptVal(a.opt, a.val)

LEMMA WordsAreArguments == \A w : IsArgument(Word(w)) /\ IsArgument(Opt(w))
BY DEF Word, Opt, IsArgument, OptVal

LEMMA ShortHeads ==
  ASSUME NEW p, NEW q, NEW r, NEW s,
         IsArgument(q), IsArgument(r), IsArgument(s)
  PROVE  \A h \in {<<p>>, <<p, q>>, <<p, q, r>>, <<p, q, r, s>>} :
           Len(h) # 0 /\ \A i \in 2..Len(h) : IsArgument(h[i])
OBVIOUS

LEMMA HeadArguments ==
  \A h \in Heads : Len(h) # 0 /\ \A i \in 2..Len(h) : IsArgument(h[i])
<1> DEFINE Good(h) == Len(h) # 0 /\ \A i \in 2..Len(h) : IsArgument(h[i])
<1>1. \A w : IsArgument(Word(w)) /\ IsArgument(Opt(w)) BY WordsAreArguments
<1> HIDE DEF Good
<1>2. Good(Pytest) /\ Good(Ruff) /\ Good(Mypy) /\ Good(Compileall) /\ Good(PipInstall)
  BY <1>1, ShortHeads DEF Good, Pytest, Ruff, Mypy, Compileall, PipInstall
<1>3. Good(GitStatus) /\ Good(GitDiff) /\ Good(GitAdd) /\ Good(GitCommit)
  BY <1>1, ShortHeads DEF Good, GitStatus, GitDiff, GitAdd, GitCommit
<1>4. /\ Good(<<"python">>) /\ Good(<<"python", Opt("-m"), Word("pip")>>)
      /\ Good(<<"git">>) /\ Good(<<"git", Word("push")>>)
      /\ Good(<<"bash">>) /\ Good(<<"curl">>)
  BY <1>1, ShortHeads DEF Good
<1>5. Good(Append(Pytest, Word("a|b")))
  BY <1>1 DEF Good, Pytest
<1>6. Good(Append(PipInstall, Word("git+url")))
  BY <1>1 DEF Good, PipInstall
<1>7. \A h \in Heads : Good(h)
  BY <1>2, <1>3, <1>4, <1>5, <1>6 DEF Heads, Builtin
<1> QED BY <1>7 DEF Good

LEMMA LineFacts ==
  ASSUME NEW c \in Commands
  PROVE  /\ c.tool = "run_command" /\ c.line \in Seq(AllWords)
         /\ Len(c.line) \in Nat /\ Len(c.line) # 0
         /\ \A a \in Arguments(c) : IsArgument(a)
<1>1. PICK h \in Heads, t \in BoundedSeq(TailArgs, MaxTail), n \in Timeouts,
           d \in {"directory", "missing"} :
        c = [tool |-> "run_command", line |-> h \o t, timeout |-> n, cwd |-> d]
  BY DEF Commands
<1>2. t \in Seq(TailArgs) /\ t \in Seq(AllWords) BY TailIsSequence DEF AllWords
<1>3. h \in Seq(AllWords) /\ Len(h) # 0 /\ \A i \in 2..Len(h) : IsArgument(h[i])
  BY HeadIsSequence, HeadArguments
<1>4. /\ h \o t \in Seq(AllWords) /\ Len(h \o t) = Len(h) + Len(t)
      /\ Len(h) \in Nat /\ Len(t) \in Nat
      /\ \A i \in 1..Len(h) : (h \o t)[i] = h[i]
      /\ \A i \in (Len(h) + 1)..(Len(h) + Len(t)) : (h \o t)[i] = t[i - Len(h)]
  BY <1>2, <1>3
<1>5. \A i \in 1..Len(t) : IsArgument(t[i])
  BY <1>2, ArgumentsAssumption DEF IsArgument
<1>6. ASSUME NEW i \in 2..(Len(h) + Len(t)) PROVE IsArgument((h \o t)[i])
  <2>1. CASE i \in 2..Len(h) BY <1>3, <1>4, <2>1
  <2>2. CASE i \in (Len(h) + 1)..(Len(h) + Len(t))
    <3>1. i - Len(h) \in 1..Len(t) BY <1>4, <2>2
    <3> QED BY <1>4, <1>5, <2>2, <3>1
  <2> QED BY <1>3, <1>4, <2>1, <2>2
<1>7. c.line = h \o t /\ c.tool = "run_command" BY <1>1
<1> QED BY <1>3, <1>4, <1>6, <1>7 DEF Arguments

\* A line that begins with a builtin prefix: its arguments are those of the
\* prefix and those that the rules of the prefix look at.
LEMMA SplitLine ==
  ASSUME NEW c \in Commands, MatchingPrefix(c.line) \in Builtin
  PROVE  LET prefix == MatchingPrefix(c.line)
             args == SubSeq(c.line, Len(prefix) + 1, Len(c.line))
         IN /\ Len(prefix) <= Len(c.line)
            /\ \A i \in 1..Len(prefix) : c.line[i] = prefix[i]
            /\ args \in Seq(AllWords)
            /\ Arguments(c) =
                 {prefix[i] : i \in 2..Len(prefix)} \cup ToSet(args)
<1> DEFINE prefix == MatchingPrefix(c.line)
           n == Len(prefix)
           args == SubSeq(c.line, n + 1, Len(c.line))
<1>1. IsPrefix(prefix, c.line) BY LineFacts, MatchingPrefixMatches
<1>2. prefix \in Seq(AllWords) /\ c.line \in Seq(AllWords) /\ n \in {2, 3, 4}
  <2>1. Len(prefix) \in {0, 2, 3, 4} /\ Len(prefix) # 0
    BY BuiltinLengths, HeadArguments DEF Heads
  <2> QED BY <2>1, BuiltinIsSequence, LineFacts
<1> HIDE DEF prefix
<1>3. n <= Len(c.line) /\ \A i \in 1..n : c.line[i] = prefix[i]
  BY <1>1, <1>2, PrefixElements
<1>4. ToSet(args) = {c.line[i] : i \in (n + 1)..Len(c.line)}
  BY <1>2, <1>3, RestOf
<1>5. args \in Seq(AllWords) BY <1>2, <1>3, SubSeqProperties
<1> HIDE DEF args, n
<1>6. 2..Len(c.line) = (2..n) \cup ((n + 1)..Len(c.line))
  <2>1. Len(c.line) \in Nat BY LineFacts
  <2> QED BY <1>2, <1>3, <2>1
<1>7. Arguments(c) =
        {c.line[i] : i \in 2..n} \cup {c.line[i] : i \in (n + 1)..Len(c.line)}
  BY <1>6 DEF Arguments
<1>8. {c.line[i] : i \in 2..n} = {prefix[i] : i \in 2..n} BY <1>2, <1>3
<1> QED BY <1>3, <1>4, <1>5, <1>7, <1>8 DEF prefix, n, args

\* A command that is not denied begins with a builtin prefix, and the rules of
\* that prefix let it pass.
LEMMA Permitted ==
  ASSUME NEW c \in Commands, NEW ctx \in Contexts, CommandDecision(c, ctx) # "DENY"
  PROVE  LET prefix == MatchingPrefix(c.line)
             args == SubSeq(c.line, Len(prefix) + 1, Len(c.line))
         IN /\ prefix \in Builtin
            /\ Len(prefix) <= Len(c.line)
            /\ \A i \in 1..Len(prefix) : c.line[i] = prefix[i]
            /\ Arguments(c) =
                 {prefix[i] : i \in 2..Len(prefix)} \cup ToSet(args)
            /\ CASE prefix = PipInstall -> PipDecision(args) # "DENY"
                 [] prefix = GitAdd -> GitAddDecision(args) # "DENY"
                 [] OTHER -> OtherDecision(prefix, args) # "DENY"
<1> DEFINE prefix == MatchingPrefix(c.line)
           args == SubSeq(c.line, Len(prefix) + 1, Len(c.line))
<1>1. /\ InContext(prefix, c, ctx)
      /\ CASE prefix = PipInstall -> PipDecision(args) # "DENY"
           [] prefix = GitAdd -> GitAddDecision(args) # "DENY"
           [] OTHER -> OtherDecision(prefix, args) # "DENY"
  BY DEF CommandDecision
<1>2. prefix \in Builtin BY <1>1, ContextsAssumption DEF InContext
<1> QED BY <1>1, <1>2, SplitLine

-----------------------------------------------------------------------------
(* Which commands run without approval                                      *)

\* A set of numbers has a least one, so that a statement about all of them can
\* be refuted at its least counterexample.
LEMMA LeastOf ==
  ASSUME NEW S \in SUBSET Nat, S # {} PROVE \E m \in S : \A n \in S : m <= n
<1>1. PICK m \in S : \A y \in S : ~ (<<y, m>> \in OpToRel(<, Nat))
  BY NatLessThanWellFounded, WFMin
<1>2. \A y \in S : ~ (y < m) BY <1>1 DEF OpToRel
<1> QED BY <1>2

\* The arguments at the positions in P are plain, a value must follow those in
\* D, and the parse may stop before one in E. A parse from position i on, as
\* Parses of Policy is one from the first: up to n, with the values at V.
ParseAt(i, N, P, D, E, n, V) ==
  /\ n = N \/ n + 1 \in E
  /\ \A k \in i..n : k \in V <=> k > i /\ (k - 1) \notin V /\ (k - 1) \in D
  /\ n >= i => n \in V \/ n \notin D
  /\ \A k \in (i..n) \ V : k \in P \/ k \in D

ParseFrom(i, N, P, D, E) ==
  \E n \in (i - 1)..N : \E V \in SUBSET (i..n) : ParseAt(i, N, P, D, E, n, V)

\* The walk of _options_are_safe over the same positions.
WalkStep(f, i, N, P, D, E) ==
  \/ i = N + 1
  \/ i \in E
  \/ i \in P /\ f[i + 1]
  \/ i \in D /\ i < N /\ f[i + 2]

Walks(f, N, P, D, E) == f = [i \in 1..(N + 1) |-> WalkStep(f, i, N, P, D, E)]

\* Whether there is a parse from a position on follows from the next ones, as
\* the walk says.
LEMMA ParseEquation ==
  ASSUME NEW N \in Nat, NEW P \in SUBSET (1..N), NEW D \in SUBSET (1..N),
         NEW E \in SUBSET (1..N), P \cap D = {}, P \cap E = {}, D \cap E = {},
         NEW i \in 1..(N + 1)
  PROVE  ParseFrom(i, N, P, D, E) <=>
           \/ i = N + 1
           \/ i \in E
           \/ i \in P /\ ParseFrom(i + 1, N, P, D, E)
           \/ i \in D /\ i < N /\ ParseFrom(i + 2, N, P, D, E)
<1> DEFINE From(j) == ParseFrom(j, N, P, D, E)
           Is(j, n, V) == ParseAt(j, N, P, D, E, n, V)
<1>1. CASE i = N + 1
  <2>1. Is(i, N, {}) BY <1>1 DEF ParseAt
  <2>2. N \in (i - 1)..N /\ {} \in SUBSET (i..N) BY <1>1
  <2> QED BY <1>1, <2>1, <2>2 DEF ParseFrom
<1>2. CASE i \in E
  <2>1. Is(i, i - 1, {}) BY <1>2 DEF ParseAt
  <2>2. i - 1 \in (i - 1)..N /\ {} \in SUBSET (i..(i - 1)) BY <1>2
  <2> QED BY <1>2, <2>1, <2>2 DEF ParseFrom
<1>3. ASSUME i \notin E, i # N + 1, NEW n \in (i - 1)..N, NEW V \in SUBSET (i..n), Is(i, n, V)
      PROVE  n >= i /\ i \notin V /\ (i \in P \/ i \in D)
  <2>1. n # i - 1 BY <1>3 DEF ParseAt
  <2>2. n >= i BY <2>1
  <2>3. i \notin V BY <1>3, <2>2 DEF ParseAt
  <2> QED BY <1>3, <2>2, <2>3 DEF ParseAt
<1>4. CASE i \in P
  <2>1. i \in 1..N /\ i \notin E /\ i \notin D /\ i # N + 1 BY <1>4
  <2>2. ASSUME NEW n \in (i - 1)..N, NEW V \in SUBSET (i..n), Is(i, n, V)
        PROVE  From(i + 1)
    <3>1. n >= i /\ i \notin V BY <1>3, <2>1, <2>2
    <3>2. n \in ((i + 1) - 1)..N /\ V \in SUBSET ((i + 1)..n) BY <2>1, <3>1
    <3>3. Is(i + 1, n, V) BY <2>1, <2>2, <3>1 DEF ParseAt
    <3> QED BY <3>2, <3>3 DEF ParseFrom
  <2>3. ASSUME NEW n \in i..N, NEW V \in SUBSET ((i + 1)..n), Is(i + 1, n, V)
        PROVE  From(i)
    <3>1. n \in (i - 1)..N /\ V \in SUBSET (i..n) /\ i \notin V BY <2>1
    <3>2. Is(i, n, V) BY <2>1, <2>3, <3>1, <1>4 DEF ParseAt
    <3> QED BY <3>1, <3>2 DEF ParseFrom
  <2>4. From(i) <=> From(i + 1)
    <3>1. (i + 1) - 1 = i BY <2>1
    <3> QED BY <2>2, <2>3, <3>1 DEF ParseFrom
  <2> QED BY <1>4, <2>1, <2>4
<1>5. CASE i \in D
  <2>1. i \in 1..N /\ i \notin E /\ i \notin P /\ i # N + 1 BY <1>5
  <2>2. ASSUME NEW n \in (i - 1)..N, NEW V \in SUBSET (i..n), Is(i, n, V)
        PROVE  i < N /\ From(i + 2)
    <3>1. n >= i /\ i \notin V BY <1>3, <2>1, <2>2
    <3>2. n # i BY <1>5, <2>2, <3>1 DEF ParseAt
    <3>3. n >= i + 1 /\ i < N /\ i + 1 \in i..n BY <2>1, <3>1, <3>2
    <3>4. i + 1 \in V BY <1>5, <2>1, <2>2, <3>1, <3>3 DEF ParseAt
    <3>5. V \ {i + 1} \in SUBSET ((i + 2)..n) BY <2>1, <3>1
    <3>6. Is(i + 2, n, V \ {i + 1}) BY <2>1, <2>2, <3>3, <3>4 DEF ParseAt
    <3>7. n \in ((i + 2) - 1)..N BY <2>1, <3>3
    <3> QED BY <3>3, <3>5, <3>6, <3>7 DEF ParseFrom
  <2>3. ASSUME NEW n \in (i + 1)..N, NEW V \in SUBSET ((i + 2)..n), Is(i + 2, n, V)
        PROVE  From(i)
    <3> DEFINE W == V \cup {i + 1}
    <3>1. n \in (i - 1)..N /\ W \in SUBSET (i..n) /\ i \notin W /\ i + 1 \notin V
      BY <2>1
    <3>2. Is(i, n, W) BY <2>1, <2>3, <3>1, <1>5 DEF ParseAt
    <3> QED BY <3>1, <3>2 DEF ParseFrom
  <2>4. From(i) <=> i < N /\ From(i + 2)
    <3>1. (i + 2) - 1 = i + 1 BY <2>1
    <3> QED BY <2>2, <2>3, <3>1 DEF ParseFrom
  <2> QED BY <1>5, <2>1, <2>4
<1>6. CASE i # N + 1 /\ i \notin E /\ i \notin P /\ i \notin D
  BY <1>3, <1>6 DEF ParseFrom
<1> QED BY <1>1, <1>2, <1>4, <1>5, <1>6

\* The equation of the walk has one solution.
LEMMA WalksAgree ==
  ASSUME NEW N \in Nat, NEW P, NEW D, NEW E, NEW f, NEW g,
         Walks(f, N, P, D, E), Walks(g, N, P, D, E)
  PROVE  f = g
<1> DEFINE S == {k \in 0..N : f[N + 1 - k] # g[N + 1 - k]}
<1>1. \A i \in 1..(N + 1) :
        f[i] = WalkStep(f, i, N, P, D, E) /\ g[i] = WalkStep(g, i, N, P, D, E)
  BY DEF Walks
<1>2. S = {}
  <2> SUFFICES ASSUME S # {} PROVE FALSE OBVIOUS
  <2>1. S \in SUBSET Nat OBVIOUS
  <2>2. PICK m \in S : \A k \in S : m <= k BY <2>1, LeastOf
  <2> DEFINE i == N + 1 - m
  <2>3. m \in 0..N /\ i \in 1..(N + 1) /\ f[i] # g[i] BY <2>2
  <2>4. ASSUME m # 0 PROVE f[i + 1] = g[i + 1]
    <3>1. m - 1 \in 0..N /\ m - 1 \notin S /\ N + 1 - (m - 1) = i + 1
      BY <2>2, <2>3, <2>4
    <3> QED BY <3>1
  <2>5. ASSUME m # 0, i < N PROVE f[i + 2] = g[i + 2]
    <3>1. m - 2 \in 0..N /\ m - 2 \notin S /\ N + 1 - (m - 2) = i + 2
      BY <2>2, <2>3, <2>5
    <3> QED BY <3>1
  <2>6. m = 0 => i = N + 1 BY <2>3
  <2>7. i = N + 1 \/ (m # 0 /\ i < N) \/ (m # 0 /\ ~ (i < N)) BY <2>6
  <2> HIDE DEF S, i
  <2>8. f[i] = WalkStep(f, i, N, P, D, E) /\ g[i] = WalkStep(g, i, N, P, D, E)
    BY <1>1, <2>3
  <2>10. CASE i = N + 1 BY <2>3, <2>8, <2>10 DEF WalkStep
  <2>11. CASE m # 0 /\ i < N
    BY <2>3, <2>4, <2>5, <2>8, <2>11 DEF WalkStep
  <2>12. CASE m # 0 /\ ~ (i < N)
    BY <2>3, <2>4, <2>8, <2>12 DEF WalkStep
  <2> QED BY <2>7, <2>10, <2>11, <2>12
<1>3. \A i \in 1..(N + 1) : f[i] = g[i]
  <2> TAKE i \in 1..(N + 1)
  <2>1. N + 1 - i \in 0..N /\ N + 1 - (N + 1 - i) = i OBVIOUS
  <2> QED BY <1>2, <2>1
<1>4. f \in [1..(N + 1) -> BOOLEAN] /\ g \in [1..(N + 1) -> BOOLEAN]
  BY DEF Walks, WalkStep
<1> QED BY <1>3, <1>4

\* The walk has a solution, and where it ends tells whether there is a parse.
LEMMA WalkIsParse ==
  ASSUME NEW N \in Nat, NEW P \in SUBSET (1..N), NEW D \in SUBSET (1..N),
         NEW E \in SUBSET (1..N), P \cap D = {}, P \cap E = {}, D \cap E = {}
  PROVE  /\ \E f : Walks(f, N, P, D, E)
         /\ \A f : Walks(f, N, P, D, E) => (f[1] <=> ParseFrom(1, N, P, D, E))
<1> DEFINE g == [i \in 1..(N + 1) |-> ParseFrom(i, N, P, D, E)]
<1>1. Walks(g, N, P, D, E)
  <2>1. \A i \in 1..(N + 1) :
          g[i] = (\/ i = N + 1
                  \/ i \in E
                  \/ i \in P /\ ParseFrom(i + 1, N, P, D, E)
                  \/ i \in D /\ i < N /\ ParseFrom(i + 2, N, P, D, E))
    <3> TAKE i \in 1..(N + 1)
    <3>1. g[i] = ParseFrom(i, N, P, D, E) OBVIOUS
    <3>2. ParseFrom(i, N, P, D, E) \in BOOLEAN BY DEF ParseFrom
    <3> QED BY <3>1, <3>2, ParseEquation
  <2>2. \A i \in P : i + 1 \in 1..(N + 1) /\ g[i + 1] = ParseFrom(i + 1, N, P, D, E)
    OBVIOUS
  <2>3. \A i \in D : i < N => i + 2 \in 1..(N + 1) /\ g[i + 2] = ParseFrom(i + 2, N, P, D, E)
    OBVIOUS
  <2>4. \A i \in 1..(N + 1) : g[i] = WalkStep(g, i, N, P, D, E)
    BY <2>1, <2>2, <2>3 DEF WalkStep
  <2>5. DOMAIN g = 1..(N + 1) /\ g = [i \in DOMAIN g |-> g[i]] OBVIOUS
  <2> HIDE DEF g
  <2>6. g = [i \in 1..(N + 1) |-> WalkStep(g, i, N, P, D, E)]
    BY <2>4, <2>5
  <2> QED BY <2>6 DEF Walks
<1> HIDE DEF g
<1>2. g[1] <=> ParseFrom(1, N, P, D, E) BY DEF g
<1>3. \A f : Walks(f, N, P, D, E) => f = g BY <1>1, WalksAgree
<1> QED BY <1>1, <1>2, <1>3

Silent == {Pytest, Ruff, Mypy, GitStatus, GitDiff}

IsPlain(a, prefix) ==
  ~ IsAtFile(a) /\ (IsWord(a) \/ IsFlag(a, prefix) \/ Attached(a, prefix))

LEMMA WordValues == \A w : Word(w).val = w /\ Opt(w).val = ""
BY DEF Word, Opt

LEMMA ShortInside ==
  ASSUME NEW p, NEW q, NEW r, NEW s, q.val \notin OutsidePaths,
         r.val \notin OutsidePaths, s.val \notin OutsidePaths
  PROVE  \A h \in {<<p, q>>, <<p, q, r>>, <<p, q, r, s>>} :
           \A i \in 2..Len(h) : h[i].val \notin OutsidePaths
OBVIOUS

LEMMA BuiltinStaysInside ==
  \A p \in Builtin : \A i \in 2..Len(p) : p[i].val \notin OutsidePaths
<1> DEFINE Inside(p) == \A i \in 2..Len(p) : p[i].val \notin OutsidePaths
<1>1. Opt("-m").val \notin OutsidePaths /\
      \A w \in {"pytest", "ruff", "check", "mypy", "compileall", "pip", "install",
                "status", "diff", "add", "commit"} : Word(w).val \notin OutsidePaths
  BY WordValues DEF OutsidePaths
<1>2. Inside(Pytest) /\ Inside(Mypy) /\ Inside(Compileall)
  BY <1>1, ShortInside DEF Pytest, Mypy, Compileall
<1>3. Inside(Ruff) /\ Inside(PipInstall)
  BY <1>1, ShortInside DEF Ruff, PipInstall
<1>4. Inside(GitStatus) /\ Inside(GitDiff) /\ Inside(GitAdd) /\ Inside(GitCommit)
  BY <1>1, ShortInside DEF GitStatus, GitDiff, GitAdd, GitCommit
<1> HIDE DEF Inside
<1>5. \A p \in Builtin : Inside(p) BY <1>2, <1>3, <1>4 DEF Builtin
<1> QED BY <1>5 DEF Inside

LEMMA PrefixesDiffer ==
  /\ Pytest \notin {Ruff, Mypy, GitStatus, GitDiff}
  /\ Ruff \notin {Mypy, GitStatus, GitDiff}
  /\ Mypy \notin {GitStatus, GitDiff}
  /\ GitStatus # GitDiff
  /\ Silent \cap {PipInstall, GitAdd, Compileall, GitCommit} = {}
<1>1. Len(Ruff) = 4 /\ Len(PipInstall) = 4 /\ Ruff[3] = Word("ruff")
      /\ PipInstall[3] = Word("pip")
  BY DEF Ruff, PipInstall
<1>2. /\ Len(Pytest) = 3 /\ Pytest[3] = Word("pytest")
      /\ Len(Mypy) = 3 /\ Mypy[3] = Word("mypy")
      /\ Len(Compileall) = 3 /\ Compileall[3] = Word("compileall")
  BY DEF Pytest, Mypy, Compileall
<1>3. /\ Len(GitStatus) = 2 /\ GitStatus[2] = Word("status")
      /\ Len(GitDiff) = 2 /\ GitDiff[2] = Word("diff")
      /\ Len(GitAdd) = 2 /\ GitAdd[2] = Word("add")
      /\ Len(GitCommit) = 2 /\ GitCommit[2] = Word("commit")
  BY DEF GitStatus, GitDiff, GitAdd, GitCommit
<1>4. \A v, w : v # w => Word(v) # Word(w)
  <2> TAKE v, w
  <2>1. Word(v).val = v /\ Word(w).val = w BY WordValues
  <2> QED BY <2>1, Zenon
<1>5. /\ \A v \in {"mypy", "compileall"} : Word("pytest") # Word(v)
      /\ Word("mypy") # Word("compileall") /\ Word("ruff") # Word("pip")
  BY <1>4
<1>6. /\ \A v \in {"diff", "add", "commit"} : Word("status") # Word(v)
      /\ \A v \in {"add", "commit"} : Word("diff") # Word(v)
  BY <1>4
<1>7. /\ Pytest \notin {Ruff, Mypy, GitStatus, GitDiff}
      /\ Ruff \notin {Mypy, GitStatus, GitDiff}
      /\ Mypy \notin {GitStatus, GitDiff}
      /\ GitStatus # GitDiff
  BY <1>1, <1>2, <1>3, <1>5, <1>6
<1>8. /\ \A p \in {Pytest, Mypy, Ruff} :
           p \notin {PipInstall, GitAdd, Compileall, GitCommit}
      /\ \A p \in {GitStatus, GitDiff} :
           p \notin {PipInstall, GitAdd, Compileall, GitCommit}
  BY <1>1, <1>2, <1>3, <1>5, <1>6
<1> QED BY <1>7, <1>8 DEF Silent

LEMMA OtherPrefixes == {Compileall, GitCommit} \cap {PipInstall, GitAdd} = {}
<1>1. Len(Compileall) = 3 /\ Len(PipInstall) = 4 BY DEF Compileall, PipInstall
<1>2. /\ Len(GitCommit) = 2 /\ GitCommit[2].val = "commit"
      /\ Len(GitAdd) = 2 /\ GitAdd[2].val = "add"
  BY DEF GitCommit, GitAdd, Word
<1> QED BY <1>1, <1>2

\* Neither the empty name of a word nor "--" is an option without side effect,
\* and none of them is written glued to its value.
LEMMA OptionNames ==
  ASSUME NEW prefix \in Silent
  PROVE  \A o \in {"", "--", "-i../out"} : o \notin Flags(prefix) /\ o \notin Values(prefix)
<1>1. /\ Pytest \notin {Ruff, Mypy, GitStatus, GitDiff}
      /\ Ruff \notin {Mypy, GitStatus, GitDiff}
      /\ Mypy \notin {GitStatus, GitDiff}
      /\ GitStatus # GitDiff
  BY PrefixesDiffer
<1>2. CASE prefix = Pytest BY <1>1, <1>2 DEF Flags, Values
<1>3. CASE prefix = Ruff BY <1>1, <1>3 DEF Flags, Values
<1>4. CASE prefix = Mypy BY <1>1, <1>4 DEF Flags, Values
<1>5. CASE prefix = GitStatus BY <1>1, <1>5 DEF Flags, Values
<1>6. CASE prefix = GitDiff BY <1>1, <1>6 DEF Flags, Values
<1> QED BY <1>2, <1>3, <1>4, <1>5, <1>6 DEF Silent

\* An argument is of one kind at most.
LEMMA OptionKinds ==
  ASSUME NEW prefix \in Silent, NEW a
  PROVE  /\ ~ (IsPlain(a, prefix) /\ Detached(a, prefix))
         /\ a = Opt("--") => ~ IsPlain(a, prefix) /\ ~ Detached(a, prefix)
         /\ IsPlain(a, prefix) <=>
              \/ IsWord(a) /\ ~ IsAtFile(a)
              \/ IsFlag(a, prefix)
              \/ Attached(a, prefix)
<1>1. Opt("--").opt = "--" BY DEF Opt
<1>2. "" \notin Flags(prefix) /\ "--" \notin Flags(prefix) BY OptionNames
<1>3. "" \notin Values(prefix) /\ "--" \notin Values(prefix) BY OptionNames
<1>4. IsWord(a) => ~ IsFlag(a, prefix) /\ ~ Attached(a, prefix) /\ ~ Detached(a, prefix)
  BY <1>2, <1>3 DEF IsWord, IsFlag, Attached, Detached
<1>5. ~ (Detached(a, prefix) /\ (IsFlag(a, prefix) \/ Attached(a, prefix)))
  BY DEF IsFlag, Attached, Detached
<1>6. a = Opt("--") => /\ ~ IsWord(a) /\ ~ IsFlag(a, prefix)
                       /\ ~ Attached(a, prefix) /\ ~ Detached(a, prefix)
  <2>1. "--" # "" OBVIOUS
  <2> QED BY <1>1, <1>2, <1>3, <2>1 DEF IsWord, IsFlag, Attached, Detached
<1>7. IsAtFile(a) => IsWord(a) BY DEF IsAtFile
<1> HIDE DEF IsWord, IsFlag, Attached, Detached, IsAtFile
<1> QED BY <1>4, <1>5, <1>6, <1>7 DEF IsPlain

\* The walk accepts the arguments exactly if they can be parsed.
LEMMA SafeIsParsed ==
  ASSUME NEW S, NEW args \in Seq(S), NEW prefix \in Silent
  PROVE  OptionsAreSafe(args, prefix) <=>
           \E n \in 0..Len(args) : \E V \in SUBSET (1..n) :
             Parses(args, prefix, n, V)
<1> DEFINE N == Len(args)
           P == {i \in 1..N : IsPlain(args[i], prefix)}
           D == {i \in 1..N : Detached(args[i], prefix)}
           E == {i \in 1..N : args[i] = Opt("--")}
           SafeStep(f, i) ==
             \/ i = N + 1
             \/ args[i] = Opt("--")
             \/ /\ ~IsAtFile(args[i])
                /\ \/ IsWord(args[i])
                   \/ IsFlag(args[i], prefix)
                   \/ Attached(args[i], prefix)
                /\ f[i + 1]
             \/ /\ Detached(args[i], prefix)
                /\ i < N
                /\ f[i + 2]
           IsSafe(f) == f = [i \in 1..(N + 1) |-> SafeStep(f, i)]
           safe == CHOOSE f : IsSafe(f)
<1>1. OptionsAreSafe(args, prefix) = safe[1] BY DEF OptionsAreSafe
<1>2. N \in Nat OBVIOUS
<1>3. P \cap D = {} /\ P \cap E = {} /\ D \cap E = {} BY OptionKinds
<1>4. \A f : IsSafe(f) <=> Walks(f, N, P, D, E)
  <2> TAKE f
  <2>1. ASSUME NEW i \in 1..(N + 1)
        PROVE  SafeStep(f, i) = WalkStep(f, i, N, P, D, E)
    <3>1. CASE i = N + 1 BY <3>1 DEF WalkStep
    <3>2. CASE i \in 1..N BY <3>2 DEF WalkStep, IsPlain
    <3>3. i = N + 1 \/ i \in 1..N BY <1>2
    <3> QED BY <3>1, <3>2, <3>3
  <2> HIDE DEF SafeStep, P, D, E, N
  <2> QED BY <2>1 DEF Walks
<1>5. safe[1] <=> ParseFrom(1, N, P, D, E)
  <2>1. P \in SUBSET (1..N) /\ D \in SUBSET (1..N) /\ E \in SUBSET (1..N)
    OBVIOUS
  <2> HIDE DEF N, P, D, E, IsSafe
  <2>2. /\ \E f : Walks(f, N, P, D, E)
        /\ \A f : Walks(f, N, P, D, E) => (f[1] <=> ParseFrom(1, N, P, D, E))
    BY <1>2, <1>3, <2>1, WalkIsParse
  <2>3. \E f : IsSafe(f) BY <1>4, <2>2
  <2>4. IsSafe(safe) BY <2>3
  <2> QED BY <1>4, <2>2, <2>4
<1>6. ASSUME NEW n \in 0..N, NEW V \in SUBSET (1..n)
      PROVE  ParseAt(1, N, P, D, E, n, V) <=> Parses(args, prefix, n, V)
  <2>1. (n = N \/ n + 1 \in E) <=> (n = N \/ args[n + 1] = Opt("--")) BY <1>2
  <2>2. \A i \in 1..n : i \in D <=> Detached(args[i], prefix) BY <1>2
  <2>3. \A i \in 1..n : i > 1 => i - 1 \in 1..n BY <1>2
  <2>4. \A i \in 1..n : i \in P <=> \/ IsWord(args[i]) /\ ~ IsAtFile(args[i])
                                    \/ IsFlag(args[i], prefix)
                                    \/ Attached(args[i], prefix)
    BY <1>2, OptionKinds
  <2>5. n >= 1 => n \in 1..n BY <1>2
  <2>6. n >= 1 <=> n > 0 BY <1>2
  <2>7. Len(args) = N OBVIOUS
  <2> HIDE DEF N, P, D, E
  <2> QED BY <2>1, <2>2, <2>3, <2>4, <2>5, <2>6, <2>7 DEF ParseAt, Parses
<1>7. ParseFrom(1, N, P, D, E) <=>
        \E n \in 0..N : \E V \in SUBSET (1..n) : Parses(args, prefix, n, V)
  <2> HIDE DEF N, P, D, E
  <2>1. (1 - 1)..N = 0..N OBVIOUS
  <2> QED BY <1>6, <2>1 DEF ParseFrom
<1> QED BY <1>1, <1>5, <1>7

\* The rules that decide on a command that is not denied for another reason.
LEMMA SilentDecision ==
  ASSUME NEW c \in Commands, NEW ctx \in Contexts
  PROVE  LET prefix == MatchingPrefix(c.line)
             args == SubSeq(c.line, Len(prefix) + 1, Len(c.line))
         IN CommandDecision(c, ctx) = "ALLOW" <=>
              /\ prefix \in Silent
              /\ InContext(prefix, c, ctx)
              /\ ~ Forbidden(c)
              /\ ~ \E a \in Arguments(c) : UnsafeCommandPath(a)
              /\ \E n \in 0..Len(args) : \E V \in SUBSET (1..n) :
                   Parses(args, prefix, n, V)
<1> DEFINE prefix == MatchingPrefix(c.line)
           args == SubSeq(c.line, Len(prefix) + 1, Len(c.line))
<1>1. CASE ~ InContext(prefix, c, ctx) BY <1>1 DEF CommandDecision
<1>2. CASE InContext(prefix, c, ctx)
  <2>1. prefix \in Builtin BY <1>2, ContextsAssumption DEF InContext
  <2>2. /\ args \in Seq(AllWords)
        /\ Arguments(c) = {prefix[i] : i \in 2..Len(prefix)} \cup ToSet(args)
    BY <2>1, SplitLine
  <2>3. (\E a \in Arguments(c) : UnsafeCommandPath(a)) <=>
          (\E a \in ToSet(args) : UnsafeCommandPath(a))
    BY <2>1, <2>2, BuiltinStaysInside DEF UnsafeCommandPath
  <2>4. PipDecision(args) # "ALLOW" /\ GitAddDecision(args) # "ALLOW"
    BY DEF PipDecision, GitAddDecision
  <2>5. OtherDecision(prefix, args) = "ALLOW" <=>
          /\ ~ \E a \in ToSet(args) : UnsafeCommandPath(a)
          /\ prefix \notin {Compileall, GitCommit}
          /\ OptionsAreSafe(args, prefix)
    BY DEF OtherDecision
  <2>6. prefix \in Silent <=>
          prefix \notin {PipInstall, GitAdd, Compileall, GitCommit}
    BY <2>1, PrefixesDiffer DEF Builtin, Silent
  <2>7. CommandDecision(c, ctx) = "ALLOW" <=>
          /\ ~ Forbidden(c)
          /\ prefix \notin {PipInstall, GitAdd}
          /\ OtherDecision(prefix, args) = "ALLOW"
    BY <1>2, <2>4 DEF CommandDecision
  <2>8. prefix \in Silent =>
          (OptionsAreSafe(args, prefix) <=>
             \E n \in 0..Len(args) : \E V \in SUBSET (1..n) :
               Parses(args, prefix, n, V))
    BY <2>2, SafeIsParsed
  <2> HIDE DEF prefix, args
  <2>9. CommandDecision(c, ctx) = "ALLOW" <=>
          /\ prefix \in Silent
          /\ ~ Forbidden(c)
          /\ ~ \E a \in Arguments(c) : UnsafeCommandPath(a)
          /\ OptionsAreSafe(args, prefix)
    BY <2>3, <2>5, <2>6, <2>7
  <2>10. CommandDecision(c, ctx) = "ALLOW" <=>
           /\ prefix \in Silent
           /\ InContext(prefix, c, ctx)
           /\ ~ Forbidden(c)
           /\ ~ \E a \in Arguments(c) : UnsafeCommandPath(a)
           /\ \E n \in 0..Len(args) : \E V \in SUBSET (1..n) :
                Parses(args, prefix, n, V)
    BY <1>2, <2>8, <2>9, Zenon
  <2> QED BY <2>10 DEF prefix, args
<1> QED BY <1>1, <1>2
-----------------------------------------------------------------------------
(* What reaches a tool                                                      *)

\* No word and no attached value of a permitted command names a path outside the
\* workspace, be it judged by the rule of pip, by that of git add or by the
\* general one.
LEMMA PermittedStaysInside ==
  ASSUME NEW c \in Commands, NEW ctx \in Contexts, CommandDecision(c, ctx) # "DENY",
         NEW a \in Arguments(c)
  PROVE  a.val \notin OutsidePaths
<1> DEFINE prefix == MatchingPrefix(c.line)
           args == SubSeq(c.line, Len(prefix) + 1, Len(c.line))
<1>1. /\ prefix \in Builtin
      /\ a \in {prefix[i] : i \in 2..Len(prefix)} \cup ToSet(args)
      /\ CASE prefix = PipInstall -> PipDecision(args) # "DENY"
           [] prefix = GitAdd -> GitAddDecision(args) # "DENY"
           [] OTHER -> OtherDecision(prefix, args) # "DENY"
  BY Permitted
<1> HIDE DEF prefix, args
<1>2. CASE a \in {prefix[i] : i \in 2..Len(prefix)} BY <1>1, <1>2, BuiltinStaysInside
<1>3. CASE a \in ToSet(args)
  <2>1. CASE prefix = PipInstall
    <3>1. prefix # GitAdd BY <2>1 DEF GitAdd, PipInstall
    <3>2. PipDecision(args) # "DENY" BY <1>1, <2>1, <3>1
    <3>3. a = Opt("--no-index") \/ a.val \in ExistingPaths
      BY <1>3, <3>2 DEF PipDecision
    <3>4. a.val = "" \/ a.val = "src" BY <3>3, WordValues DEF ExistingPaths
    <3> QED BY <3>4 DEF OutsidePaths
  <2>2. CASE prefix = GitAdd
    <3>1. prefix # PipInstall BY <2>2 DEF GitAdd, PipInstall
    <3>2. GitAddDecision(args) # "DENY" BY <1>1, <2>2, <3>1
    <3> QED BY <1>3, <3>2 DEF GitAddDecision, UnsafeCommandPath
  <2>3. CASE prefix # PipInstall /\ prefix # GitAdd
    <3>1. OtherDecision(prefix, args) # "DENY" BY <1>1, <2>3
    <3> QED BY <1>3, <3>1 DEF OtherDecision, UnsafeCommandPath
  <2> QED BY <2>1, <2>2, <2>3
<1> QED BY <1>1, <1>2, <1>3

LEMMA WordOptions == \A w : Word(w).opt = "" /\ Opt(w).opt = w
BY DEF Word, Opt

LEMMA ShortOptions ==
  ASSUME NEW p, NEW q, NEW r, NEW s, q.opt \notin OutsideOptions,
         r.opt \notin OutsideOptions, s.opt \notin OutsideOptions
  PROVE  \A h \in {<<p, q>>, <<p, q, r>>, <<p, q, r, s>>} :
           \A i \in 2..Len(h) : h[i].opt \notin OutsideOptions
OBVIOUS

\* No option of a builtin prefix carries a path.
LEMMA BuiltinOptions ==
  \A p \in Builtin : \A i \in 2..Len(p) : p[i].opt \notin OutsideOptions
<1> DEFINE Short(p) == \A i \in 2..Len(p) : p[i].opt \notin OutsideOptions
<1>1. Opt("-m").opt \notin OutsideOptions /\ \A w : Word(w).opt \notin OutsideOptions
  BY WordOptions DEF OutsideOptions
<1>2. Short(Pytest) /\ Short(Mypy) /\ Short(Compileall)
  BY <1>1, ShortOptions DEF Pytest, Mypy, Compileall
<1>3. Short(Ruff) /\ Short(PipInstall)
  BY <1>1, ShortOptions DEF Ruff, PipInstall
<1>4. Short(GitStatus) /\ Short(GitDiff) /\ Short(GitAdd) /\ Short(GitCommit)
  BY <1>1, ShortOptions DEF GitStatus, GitDiff, GitAdd, GitCommit
<1> HIDE DEF Short
<1>5. \A p \in Builtin : Short(p) BY <1>2, <1>3, <1>4 DEF Builtin
<1> QED BY <1>5 DEF Short

\* A permitted command that carries an outside path glued to an option waits for
\* the user, or has that text where it is no option. A git add with such an
\* option cannot be bound to the workspace.
LEMMA GluedOptions ==
  ASSUME NEW c \in Commands, NEW ctx \in Contexts, CommandDecision(c, ctx) # "DENY",
         Bindable(c) \/ CommandDecision(c, ctx) # "REQUIRE_APPROVAL"
  PROVE  LET prefix == MatchingPrefix(c.line)
             args == SubSeq(c.line, Len(prefix) + 1, Len(c.line))
         IN \/ \A a \in Arguments(c) : a.opt \notin OutsideOptions
            \/ /\ prefix \in {Compileall, GitCommit}
               /\ CommandDecision(c, ctx) = "REQUIRE_APPROVAL"
            \/ /\ CommandDecision(c, ctx) = "ALLOW"
               /\ \E n \in 0..Len(args) : \E V \in SUBSET (1..n) :
                    /\ Parses(args, prefix, n, V)
                    /\ \A i \in (1..n) \ V : args[i].opt \notin OutsideOptions
<1> DEFINE prefix == MatchingPrefix(c.line)
           args == SubSeq(c.line, Len(prefix) + 1, Len(c.line))
           Parse(n, V) ==
             /\ Parses(args, prefix, n, V)
             /\ \A i \in (1..n) \ V : args[i].opt \notin OutsideOptions
<1>1. /\ prefix \in Builtin
      /\ \A i \in 1..Len(prefix) : c.line[i] = prefix[i]
      /\ Arguments(c) = {prefix[i] : i \in 2..Len(prefix)} \cup ToSet(args)
      /\ CASE prefix = PipInstall -> PipDecision(args) # "DENY"
           [] prefix = GitAdd -> GitAddDecision(args) # "DENY"
           [] OTHER -> OtherDecision(prefix, args) # "DENY"
  BY Permitted
<1>2. CommandDecision(c, ctx) =
        CASE prefix = PipInstall -> PipDecision(args)
          [] prefix = GitAdd -> GitAddDecision(args)
          [] OTHER -> OtherDecision(prefix, args)
  BY DEF CommandDecision
<1>3. IsPrefix(prefix, c.line) BY LineFacts, MatchingPrefixMatches
<1>4. CommandDecision(c, ctx) = "ALLOW" =>
        /\ prefix \in Silent
        /\ \E n \in 0..Len(args) : \E V \in SUBSET (1..n) :
             Parses(args, prefix, n, V)
  BY SilentDecision
<1> HIDE DEF prefix, args
<1>5. \A a \in {prefix[i] : i \in 2..Len(prefix)} : a.opt \notin OutsideOptions
  BY <1>1, BuiltinOptions
<1>6. CASE prefix = PipInstall
  <2>1. prefix # GitAdd BY <1>6 DEF GitAdd, PipInstall
  <2>2. PipDecision(args) # "DENY" BY <1>1, <1>6, <2>1
  <2>3. \A a \in ToSet(args) : a = Opt("--no-index") \/ a.opt = ""
    BY <2>2 DEF PipDecision, IsWord
  <2>4. \A a \in ToSet(args) : a.opt \in {"", "--no-index"}
    BY <2>3, WordOptions
  <2> QED BY <1>1, <1>5, <2>4 DEF OutsideOptions
<1>7. CASE prefix = GitAdd
  <2>1. prefix # PipInstall BY <1>7 DEF GitAdd, PipInstall
  <2>2. CommandDecision(c, ctx) = "REQUIRE_APPROVAL"
    BY <1>1, <1>2, <1>7, <2>1 DEF GitAddDecision
  <2>3. \A i \in 3..Len(c.line) : IsWord(c.line[i])
    BY <1>3, <1>7, <2>2, LineFacts DEF Bindable
  <2>4. c.line[2].opt = ""
    <3>1. Len(GitAdd) = 2 /\ GitAdd[2] = Word("add") BY DEF GitAdd
    <3>2. c.line[2] = Word("add") BY <1>1, <1>7, <3>1
    <3> QED BY <3>2, WordOptions
  <2>5. Len(c.line) \in Nat BY LineFacts
  <2>6. ASSUME NEW i \in 2..Len(c.line) PROVE c.line[i].opt = ""
    <3>1. CASE i = 2 BY <2>4, <3>1
    <3>2. CASE i # 2
      <4>1. i \in 3..Len(c.line) BY <2>5, <3>2
      <4> QED BY <2>3, <4>1 DEF IsWord
    <3> QED BY <3>1, <3>2
  <2> QED BY <2>6 DEF Arguments, OutsideOptions
<1>8. CASE prefix \in {Compileall, GitCommit}
  <2>1. prefix # PipInstall /\ prefix # GitAdd
    BY <1>8, OtherPrefixes
  <2>2. CommandDecision(c, ctx) = OtherDecision(prefix, args) BY <1>2, <2>1
  <2>3. CommandDecision(c, ctx) = "REQUIRE_APPROVAL"
    BY <1>8, <2>2 DEF OtherDecision
  <2> QED BY <1>8, <2>3 DEF prefix
<1>9. CASE prefix \notin {PipInstall, GitAdd, Compileall, GitCommit}
  <2>1. CommandDecision(c, ctx) = "ALLOW" BY <1>2, <1>9 DEF OtherDecision
  <2>2. PICK n \in 0..Len(args) : \E V \in SUBSET (1..n) : Parses(args, prefix, n, V)
    BY <1>4, <2>1
  <2>3. PICK V \in SUBSET (1..n) : Parses(args, prefix, n, V) BY <2>2
  <2>4. \A i \in (1..n) \ V :
          args[i].opt = "" \/ args[i].opt \in Flags(prefix) \cup Values(prefix)
    BY <2>3 DEF Parses, IsWord, IsFlag, Attached, Detached
  <2>5. "-i../out" \notin Flags(prefix) /\ "-i../out" \notin Values(prefix)
    BY <1>4, <2>1, OptionNames
  <2>6. \A i \in (1..n) \ V : args[i].opt \notin OutsideOptions
    BY <2>4, <2>5 DEF OutsideOptions
  <2>7. \E m \in 0..Len(args) : \E U \in SUBSET (1..m) : Parse(m, U)
    BY <2>3, <2>6
  <2> QED BY <2>1, <2>7 DEF prefix, args
<1> QED BY <1>6, <1>7, <1>8, <1>9

PythonTools == {Pytest, Ruff, Mypy, Compileall}
Pip == <<"python", Opt("-m"), Word("pip")>>

\* The builtin prefixes that start python are those of the four tools and pip.
LEMMA PrefixKinds ==
  /\ \A p \in PythonTools :
       p[1] = "python" /\ Len(p) >= 3 /\ p[3] # Word("pip")
  /\ \A p \in Builtin \ PythonTools :
       p = PipInstall \/ (Len(p) # 0 /\ p[1] # "python")
<1>1. \A p \in {Pytest, Mypy, Compileall, Ruff} : p[1] = "python" /\ Len(p) >= 3
  BY DEF Pytest, Mypy, Compileall, Ruff
<1>2. /\ Pytest[3] = Word("pytest") /\ Mypy[3] = Word("mypy")
      /\ Compileall[3] = Word("compileall") /\ Ruff[3] = Word("ruff")
  BY DEF Pytest, Mypy, Compileall, Ruff
<1>3. \A w \in {"pytest", "mypy", "compileall", "ruff"} : Word(w) # Word("pip")
  BY WordValues
<1>4. \A p \in {GitStatus, GitDiff, GitAdd, GitCommit} : Len(p) # 0 /\ p[1] # "python"
  BY DEF GitStatus, GitDiff, GitAdd, GitCommit
<1> QED BY <1>1, <1>2, <1>3, <1>4 DEF Builtin, PythonTools

LEMMA PipFacts ==
  /\ Len(PipInstall) = 4 /\ PipInstall \in Builtin
  /\ \A i \in 1..3 : PipInstall[i] = Pip[i]
  /\ Len(Pip) = 3 /\ Pip[3] = Word("pip") /\ Pip \in Heads
BY DEF Pip, PipInstall, Builtin, Heads

LEMMA DecisionValues ==
  ASSUME NEW a \in Commands \cup FileActions, NEW ctx \in Contexts
  PROVE  Evaluate(a, ctx) \in {"ALLOW", "REQUIRE_APPROVAL", "DENY"}
<1>1. FileDecision(a) \in {"ALLOW", "REQUIRE_APPROVAL", "DENY"} BY DEF FileDecision
<1>2. \A p, args : OtherDecision(p, args) \in {"ALLOW", "REQUIRE_APPROVAL", "DENY"}
  BY DEF OtherDecision
<1>3. \A args : PipDecision(args) \in {"ALLOW", "REQUIRE_APPROVAL", "DENY"}
  BY DEF PipDecision
<1>4. \A args : GitAddDecision(args) \in {"ALLOW", "REQUIRE_APPROVAL", "DENY"}
  BY DEF GitAddDecision
<1>5. CommandDecision(a, ctx) \in {"ALLOW", "REQUIRE_APPROVAL", "DENY"}
  BY <1>2, <1>3, <1>4 DEF CommandDecision
<1> QED BY <1>1, <1>5 DEF Evaluate

\* An action that waits for the user or has come further is not denied, and the
\* tool has had its say on one that has come to the end.
Granted ==
  phase \in {"waiting", "granted", "executed", "refused"} =>
    action # NoAction /\ decision # "DENY"

Heard ==
  /\ phase = "executed" => ToolAccepts(action)
  /\ phase = "refused" => ~ ToolAccepts(action)

\* An approval that could be requested is bound to the workspace.
Bound ==
  phase \in {"waiting", "granted", "executed", "refused"} =>
    Bindable(action) \/ decision # "REQUIRE_APPROVAL"

PInv == Decided /\ TypeOK /\ Granted /\ Heard /\ Bound

LEMMA AuthorizeStep ==
  ASSUME PInv, NEW a \in Commands \cup FileActions, Authorize(a)
  PROVE  PInv'
<1>1. /\ action' = a /\ a # NoAction /\ context' = context /\ context \in Contexts
      /\ decision' = Evaluate(a, context)
      /\ phase' = PhaseAfter(a, decision')
  BY NoActionAssumption DEF Authorize, PInv, Decided
<1>2. decision' \in {"ALLOW", "REQUIRE_APPROVAL", "DENY"} BY <1>1, DecisionValues
<1>3. /\ phase' \in {"granted", "waiting", "failed", "denied"}
      /\ phase' \in {"granted", "waiting"} => decision' # "DENY"
  BY <1>1, <1>2 DEF PhaseAfter
<1>4. a.tool = "run_command" \/ a \in FileActions BY LineFacts
<1>5. Decided' BY <1>1 DEF Decided
<1>6. TypeOK' BY <1>1, <1>2, <1>3, <1>4 DEF TypeOK, Phases
<1>7. Granted' /\ Heard' BY <1>1, <1>3 DEF Granted, Heard
<1>8. Bound'
  <2>1. phase' \in {"waiting", "granted"} /\ decision' = "REQUIRE_APPROVAL" =>
          Bindable(a)
    BY <1>1 DEF PhaseAfter
  <2> QED BY <1>1, <1>3, <2>1 DEF Bound, Bindable
<1> QED BY <1>5, <1>6, <1>7, <1>8 DEF PInv

LEMMA PolicyInvariant == Spec => []PInv
<1>1. Init => PInv
  BY DEF Init, PInv, Decided, TypeOK, Granted, Heard, Bound, Phases
<1>2. PInv /\ [Next]_vars => PInv'
  <2> SUFFICES ASSUME PInv, [Next]_vars PROVE PInv' OBVIOUS
  <2>1. CASE UNCHANGED vars
    BY <2>1 DEF vars, PInv, Decided, TypeOK, Granted, Heard, Bound, Bindable
  <2>2. CASE Consume
    BY <2>2
    DEF Consume, PInv, Decided, TypeOK, Granted, Heard, Bound, Bindable, Phases
  <2>3. CASE Execute
    BY <2>3
    DEF Execute, PInv, Decided, TypeOK, Granted, Heard, Bound, Bindable, Phases
  <2>4. ASSUME NEW a \in Commands \cup FileActions, Authorize(a) PROVE PInv'
    BY <2>4, AuthorizeStep
  <2> QED BY <2>1, <2>2, <2>3, <2>4 DEF Next
<1> QED BY <1>1, <1>2, PTL DEF Spec

\* The command in hand, once it has been permitted.
LEMMA PermittedCommand ==
  ASSUME PInv, phase \in {"waiting", "granted", "executed", "refused"},
         action.tool = "run_command"
  PROVE  action \in Commands /\ CommandDecision(action, context) # "DENY"
<1>1. action \in Commands \cup FileActions /\ decision = Evaluate(action, context)
      /\ decision # "DENY"
  BY DEF PInv, Granted, Decided
<1>2. action \notin FileActions BY DEF FileActions
<1> QED BY <1>1, <1>2 DEF Evaluate

\* A command runs without approval exactly if its arguments can be parsed, for
\* every number of arguments.
THEOREM SilentMeansParsed == Spec => []SilentCommands
<1>1. PInv => SilentCommands
  <2> SUFFICES ASSUME PInv, action # NoAction, action.tool = "run_command",
                      NEW prefix, prefix = MatchingPrefix(action.line),
                      NEW args,
                      args = SubSeq(action.line, Len(prefix) + 1, Len(action.line))
               PROVE  decision = "ALLOW" <=>
                        /\ prefix \in {Pytest, Ruff, Mypy, GitStatus, GitDiff}
                        /\ InContext(prefix, action, context)
                        /\ ~Forbidden(action)
                        /\ ~\E a \in Arguments(action) : UnsafeCommandPath(a)
                        /\ \E n \in 0..Len(args) : \E V \in SUBSET (1..n) :
                             Parses(args, prefix, n, V)
    BY DEF SilentCommands
  <2>1. action \in Commands BY DEF PInv, Decided, FileActions
  <2>2. decision = CommandDecision(action, context) /\ context \in Contexts
    BY DEF PInv, Decided, Evaluate
  <2> QED BY <2>1, <2>2, SilentDecision DEF Silent
<1> QED BY <1>1, PolicyInvariant, PTL

\* Whatever the arguments and the restrictions are, a command that names a path
\* outside the workspace is denied; one that carries it glued to an option waits
\* for the user (_evaluate_command, _unsafe_command_path).
THEOREM OutsideNeedsApproval == Spec => []OutsideIsGated
<1>1. PInv => OutsideIsGated
  <2> SUFFICES ASSUME PInv, phase \in {"waiting", "granted", "executed"},
                      NEW prefix, prefix = MatchingPrefix(action.line),
                      NEW args,
                      args = SubSeq(action.line, Len(prefix) + 1, Len(action.line))
               PROVE  IF action.tool = "run_command"
                      THEN /\ \A a \in Arguments(action) : a.val \notin OutsidePaths
                           /\ \/ \A a \in Arguments(action) :
                                   a.opt \notin OutsideOptions
                              \/ /\ prefix \in {Compileall, GitCommit}
                                 /\ decision = "REQUIRE_APPROVAL"
                              \/ /\ decision = "ALLOW"
                                 /\ \E n \in 0..Len(args) : \E V \in SUBSET (1..n) :
                                      /\ Parses(args, prefix, n, V)
                                      /\ \A i \in (1..n) \ V :
                                           args[i].opt \notin OutsideOptions
                      ELSE action.path # "outside"
    BY DEF OutsideIsGated, PInv
  <2>1. CASE action.tool = "run_command"
    <3>1. action \in Commands /\ CommandDecision(action, context) # "DENY"
      BY <2>1, PermittedCommand
    <3>2. decision = CommandDecision(action, context) /\ context \in Contexts
      BY <2>1, <3>1, NoActionAssumption DEF PInv, Decided, Evaluate, Granted
    <3>3. Bindable(action) \/ CommandDecision(action, context) # "REQUIRE_APPROVAL"
      BY <3>2 DEF PInv, Bound
    <3>4. \A a \in Arguments(action) : a.val \notin OutsidePaths
      BY <3>1, <3>2, PermittedStaysInside
    <3> QED BY <2>1, <3>1, <3>2, <3>3, <3>4, GluedOptions
  <2>2. CASE action.tool # "run_command"
    <3>1. FileDecision(action) # "DENY"
      BY <2>2 DEF PInv, Granted, Decided, Evaluate
    <3> QED BY <2>2, <3>1 DEF FileDecision
  <2> QED BY <2>1, <2>2
<1> QED BY <1>1, PolicyInvariant, PTL

\* A permitted command starts one of the Python tools, or the runner refuses it.
LEMMA RunnerAgrees ==
  ASSUME NEW c \in Commands, NEW ctx \in Contexts, CommandDecision(c, ctx) # "DENY"
  PROVE  /\ RunnerAccepts(c) => MatchingPrefix(c.line) \in PythonTools
         /\ ~ RunnerAccepts(c) /\ MatchingPrefix(c.line) \in PythonTools =>
              \E a \in Arguments(c) : a = Word("push")
<1> DEFINE prefix == MatchingPrefix(c.line)
<1>1. /\ prefix \in Builtin /\ Len(prefix) <= Len(c.line)
      /\ \A i \in 1..Len(prefix) : c.line[i] = prefix[i]
  BY Permitted
<1>2. /\ c.line \in Seq(AllWords) /\ Len(c.line) \in Nat
      /\ \A a \in Arguments(c) : IsArgument(a)
  BY LineFacts
<1>3. Len(prefix) \in {0, 2, 3, 4} BY <1>1, BuiltinLengths
<1>4. Pip \in Seq(AllWords) BY PipFacts, HeadIsSequence
<1> HIDE DEF prefix
<1>5. ASSUME RunnerAccepts(c) PROVE prefix \in PythonTools
  <2>1. c.line[1] = "python" /\ ~ IsPrefix(Pip, c.line)
    BY <1>5 DEF RunnerAccepts, Program, Pip
  <2>2. CASE prefix = PipInstall
    <3>1. Len(Pip) <= Len(c.line) /\ \A i \in 1..3 : c.line[i] = Pip[i]
      BY <1>1, <1>2, <2>2, PipFacts
    <3>2. IsPrefix(Pip, c.line)
      BY <1>2, <1>4, <3>1, PipFacts, SubSeqProperties DEF IsPrefix
    <3> QED BY <2>1, <3>2
  <2>3. CASE prefix # PipInstall
    BY <1>1, <1>3, <2>1, <2>3, PrefixKinds
  <2> QED BY <2>2, <2>3
<1>6. ASSUME ~ RunnerAccepts(c), prefix \in PythonTools
      PROVE  \E a \in Arguments(c) : a = Word("push")
  <2>1. c.line[1] = "python" /\ c.line[3] # Word("pip") /\ 3 <= Len(c.line)
    BY <1>1, <1>2, <1>3, <1>6, PrefixKinds
  <2>2. ~ IsPrefix(Pip, c.line)
    <3>1. ASSUME IsPrefix(Pip, c.line) PROVE c.line[3] = Pip[3]
      BY <1>2, <1>4, <3>1, PipFacts, PrefixElements
    <3> QED BY <2>1, <3>1, PipFacts
  <2>3. PICK a \in Arguments(c) : IsWord(a) /\ a.val \in {"push"}
    BY <1>6, <2>1, <2>2 DEF RunnerAccepts, Program, Pip
  <2>4. a = OptVal("", "push") BY <1>2, <2>3 DEF IsWord, IsArgument
  <2>5. a = Word("push") BY <2>4 DEF OptVal, Word
  <2> QED BY <2>5
<1> QED BY <1>5, <1>6 DEF prefix

\* The policy and the runner agree about the four Python tools, whatever their
\* arguments, and about nothing else.
THEOREM PolicyAndRunnerAgree == Spec => []PythonToolsRun
<1>1. PInv => PythonToolsRun
  <2> SUFFICES ASSUME PInv PROVE PythonToolsRun OBVIOUS
  <2>1. ASSUME phase = "refused"
        PROVE  /\ action.tool = "run_command"
               /\ \/ MatchingPrefix(action.line) \notin PythonTools
                  \/ \E a \in Arguments(action) : a = Word("push")
    <3>1. action.tool = "run_command" /\ ~ RunnerAccepts(action)
      BY <2>1 DEF PInv, Heard, ToolAccepts
    <3> QED BY <2>1, <3>1, PermittedCommand, RunnerAgrees DEF PInv, Decided
  <2>2. ASSUME phase = "executed", action.tool = "run_command"
        PROVE  MatchingPrefix(action.line) \in PythonTools
    <3>1. RunnerAccepts(action) BY <2>2 DEF PInv, Heard, ToolAccepts
    <3> QED BY <2>2, <3>1, PermittedCommand, RunnerAgrees DEF PInv, Decided
  <2> QED BY <2>1, <2>2 DEF PythonToolsRun, PythonTools
<1> QED BY <1>1, PolicyInvariant, PTL
=============================================================================
