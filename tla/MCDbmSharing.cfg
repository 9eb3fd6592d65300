SPECIFICATION Spec
CONSTANTS
  Handle = {h1, h2}
  dbm1x1 = dbm1x1
  Address = {a1, a2, a3, a4}
  MaxPoint = 1
  NewDims = {1, 2}
  MaxLost = 1
SYMMETRY Symmetry
INVARIANTS
  RefCounts
  TableConsistent
  MinGraphFresh
PROPERTIES
  ImplementsValues
  CallsMeanValues
