SPECIFICATION Spec
CHECK_DEADLOCK FALSE
CONSTANTS
  Configs <- MCConfigs
  MaxSteps = 5
  MaxFailures = 2
  MaxBytes = 8
  ItemCap = 5
  RequiredSizes = {2, 9}
  ItemSizes = {2, 6}
  MemorySizes <- MCMemorySizes
  MaxFaults = 2
INVARIANTS
  GateExact FailuresCounted VerdictReachesModel PromptPacked
