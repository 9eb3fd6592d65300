SPECIFICATION Spec
CONSTANTS
  dim = 3
  Values <- MCValuesLarge
  Grid = 1
  Points <- MCPointsLarge
INVARIANTS
  TypeOK
CHECK_DEADLOCK FALSE
