CONSTANTS
  N = 3
  Programs <- PairsAndChains
  Word = 65536
  Stale = {1}
SPECIFICATION Spec
INVARIANTS
  EachOnce
  OneLast
  InOrder
  ReductionExact
  CleanBetween
  NeverStuck
