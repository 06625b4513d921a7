SPECIFICATION Spec
CHECK_DEADLOCK FALSE
CONSTANTS
  Paths = {f, g}
  Contents = {c1, c2}
  Missing = Missing
  Open = Open
  MaxRows = 3
  MaxFaults = 1
  MaxForeign = 1
SYMMETRY Symmetry
INVARIANTS
  OriginalsKept DriftSeen RollbackRestores
PROPERTIES
  RefusedForReason
