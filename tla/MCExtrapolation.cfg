SPECIFICATION Spec
CONSTANTS
  dim = 3
  Raws <- MCRaws
  Bounds <- MCBounds
  Grid = 3
INVARIANTS
  TypeOK
  Canonical
  EqualsReference
  Coarser
  Sound
