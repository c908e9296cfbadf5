SPECIFICATION Spec
CONSTANTS
  Saved = {s1, s2}
  Local = {l1, l2}
  MaxDepth = 2
  Sizes = {1, 5}
  StaticSizes = {0, 1, 2, 5}
  MaxStatics = 2
  SystemSize = 2
  Unit = 2
  Alignment = 4
  Threshold = 2
  TableInitSize = 2
  HeapSize = 18
SYMMETRY Names
CHECK_DEADLOCK FALSE
INVARIANTS
  InStep
  AllocatedIsKept
  LookupIsExact
  HeldForAReason
  NoInternalError
