SPECIFICATION LiveSpec
CHECK_DEADLOCK FALSE
CONSTANTS
  Procs = {p1, p2}
  NumSessions = 1
  Allowed = {edit}
  Gated = {create}
  Denied = {push}
  Finishing = {finish}
  Edits = {edit, create}
  NoAction = NoAction
  MaxSteps = 2
  MaxLlmCalls = 2
  MaxFailures = 2
  MaxRepeat = 2
  MaxFaults = 0
  MaxEnv = 2
  MaxBoth = 2
PROPERTIES
  CommandsEnd AnswerTakesEffect
