CONSTANTS
  N = 3
  Nested = TRUE
  NULL = NULL
  MaxDepth = 1
SPECIFICATION Spec
INVARIANTS
  StartedOnce
  NoUseAfterFree
  JoinComplete
  TeamNumbers
  NoLostWakeup
  PoolRestored
  SerialMeansAlone
