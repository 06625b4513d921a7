SPECIFICATION Spec
CHECK_DEADLOCK FALSE
CONSTANTS
  TailArgs <- MCTailArgs
  MaxTail = 3
  Timeouts = {1, 2}
  Contexts <- MCContexts
  NoAction = NoAction
INVARIANTS
  SilentCommands RestrictionsHold  PythonToolsRun
