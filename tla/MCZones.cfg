SPECIFICATION HandleSpec
CONSTANTS
  dim = 3
  Raws <- MCRaws
  Pairs <- MCPairs
  Times <- MCTimes
  Others <- MCOthers
  MaxBound = 1
  Grid = 6
  Horizon = 18
  Fine = 1
INVARIANTS
  Canonical
  ConstrainExact
  DelayExact
  FreeExact
  UpdateExact
  ClocksExact
  RelaxExact
  TestsExact
  SameResult
  CopiesOnlyChanges
