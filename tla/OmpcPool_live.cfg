CONSTANTS
  N = 2
  Nested = TRUE
  NULL = NULL
  MaxDepth = 2
SPECIFICATION FairSpec
PROPERTIES
  RegionEnds
