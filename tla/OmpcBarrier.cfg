CONSTANTS
  N = 4
  MaxBarriers = 2
  InitSense = {0, 7}
SPECIFICATION FairSpec
INVARIANTS
  BarrierSafety
PROPERTIES
  ImplementsTeam
