SPECIFICATION LiveSpec
CHECK_DEADLOCK FALSE
CONSTANTS
  Leader = "leader"
  Descendants = {"d1", "d2"}
INVARIANTS
  NothingLeft
PROPERTIES
  EndsUnlessEscaped
