SPECIFICATION MemorySpec
CHECK_DEADLOCK FALSE
CONSTANTS
  Projects = {"p", "q"}
  Words = {"cache"}
  Recorded = {"a"}
  Passed <- MCPassed
  MaxReturned = 1
  MaxEntries = 3
INVARIANTS
  NewestMatching
PROPERTIES
  OnlyApproved
