------------------------------ MODULE MC_Policy ------------------------------
(* Policy for TLC: a few arguments of each kind, and three contexts.         *)
EXTENDS Policy

MCTailArgs ==
  {Opt("-q"), Opt("--ignore"), Opt("--porcelain"), Opt("--no-index"),
   Opt("--fix"), Opt("-i../out"), Opt("--"), OptVal("--ignore", "src"),
   OptVal("--ignore", "../out"), Word("src"), Word("../out"), Word("@file"),
   Word("push")}

MCContexts ==
  {[prefixes |-> Builtin, timeout |-> 2],
   [prefixes |-> {Pytest, Ruff, GitAdd}, timeout |-> 2],
   [prefixes |-> {Pytest}, timeout |-> 1]}
=============================================================================
