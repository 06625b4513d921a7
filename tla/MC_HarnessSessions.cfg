SPECIFICATION Spec
CHECK_DEADLOCK FALSE
CONSTANTS
  Procs = {p1, p2}
  NumSessions = 2
  Allowed = {edit}
  Gated = {create}
  Denied = {push}
  Finishing = {finish}
  Edits = {edit, create}
  NoAction = NoAction
  MaxSteps = 1
  MaxLlmCalls = 1
  MaxFailures = 2
  MaxRepeat = 2
  MaxFaults = 1
  MaxEnv = 1
  MaxBoth = 2
SYMMETRY Symmetry
INVARIANTS
  OneActiveSession ConsumedStarts
PROPERTIES
  Governed
