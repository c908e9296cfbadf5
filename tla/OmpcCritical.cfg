CONSTANTS
  Threads = {t1, t2, t3}
  Nobody = Nobody
  Created = {TRUE, FALSE}
  Fresh = {"free", "locked"}
SPECIFICATION FairSpec
INVARIANTS
  ExclusionOnceReady
PROPERTIES
  EntersAtLast
