SPECIFICATION Spec
CHECK_DEADLOCK FALSE
CONSTANTS
  Procs = {p1, p2}
  NumSessions = 1
  Allowed = {edit}
  Gated = {create}
  Denied = {push}
  Finishing = {finish}
  Edits = {edit, create}
  NoAction = NoAction
  MaxSteps = 3
  MaxLlmCalls = 3
  MaxFailures = 2
  MaxRepeat = 2
  MaxFaults = 2
  MaxEnv = 1
  MaxBoth = 2
SYMMETRY Symmetry
INVARIANTS
  TypeOK EffectsGoverned EffectsCharged CallsCharged LogContiguous
  TrackerFresh SuccessValidated RolledBackMeansReverted
PROPERTIES
  EffectsWhileRunning
