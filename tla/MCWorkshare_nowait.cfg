CONSTANTS
  N = 2
  Programs <- TwoDynamic
  Word = 65536
  Stale = {1}
SPECIFICATION Spec
INVARIANTS
  EachOnce
