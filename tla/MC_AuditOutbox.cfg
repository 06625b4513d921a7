SPECIFICATION LiveSpec
CHECK_DEADLOCK FALSE
CONSTANTS
  Procs = {p1, p2}
  NoProc = NoProc
  MaxEvents = 4
  MaxFaults = 2
INVARIANTS
  FileOrdered ActAfterAudit DamageBounded
PROPERTIES
  EventuallyWritten
