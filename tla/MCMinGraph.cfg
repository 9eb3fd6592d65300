SPECIFICATION Spec
CONSTANTS
  dim = 3
  IntBits = 4
  Zones <- MCZones
  Others <- MCOthers
INVARIANTS
  ReadsBack
  SmallestGraph
  SameBits
  ComparisonsExact
  SizeIsAllocated
