SPECIFICATION Spec
CONSTANTS
  dim = 26
  IntBits = 32
  Zones <- MCManyBounds
  Others = {}
INVARIANTS
  CountReadsBack
