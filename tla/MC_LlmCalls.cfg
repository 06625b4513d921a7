SPECIFICATION Spec
CHECK_DEADLOCK FALSE
CONSTANTS
  MaxAttempts = 3
  MaxCalls = 4
  MaxFaults = 2
INVARIANTS
  SecondErrorPauses
PROPERTIES
  RetriesTransient
