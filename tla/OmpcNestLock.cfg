CONSTANTS
  Threads = {t1, t2, t3}
  Nobody = Nobody
  MaxDepth = 2
SPECIFICATION FairSpec
INVARIANTS
  MutualExclusion
  CountIsDepth
PROPERTIES
  WantedIsTaken
