SPECIFICATION Spec
CONSTANTS
  dim = 3
  Values <- MCValues
  Grid = 3
  Points <- MCPoints
INVARIANTS
  PassInvariant
  ClosedOnReturn
  SameSolutions
  EmptyIsRight
PROPERTIES
  Termination
  ImplementsClosure
CHECK_DEADLOCK FALSE
