SPECIFICATION Spec
CHECK_DEADLOCK FALSE
CONSTANTS
  Procs = {"p", "q"}
  Nobody = "nobody"
  MaxRows = 4
  MaxDepth = 2
  MaxFaults = 3
INVARIANTS
  ToldTruth
PROPERTIES
  AtomicSpec
