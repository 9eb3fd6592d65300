SPECIFICATION Spec
CONSTANTS
  dim = 3
  restricted_merge = TRUE
  Zones <- MCZones
  Args <- MCArgs
  Restrictions <- MCRestrictions
  Bounds <- MCBounds
  MaxSize = 3
  MaxOperand = 2
  Horizon = 3
INVARIANTS
  SubtractDownIsDown
