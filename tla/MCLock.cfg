SPECIFICATION FairSpec
CONSTANTS
  N = 3
  Shape <- Row
  Locks <- TwoLocks
  Lockers = {0, 1, 2}
  SizeOf = 40
  Chunk = 1
INVARIANTS MutualExclusion NoStaleReply
PROPERTIES ImplementsLock LockGranted
