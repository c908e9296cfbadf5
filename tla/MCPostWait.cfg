SPECIFICATION FairSpec
CONSTANTS
  N = 4
  Shape <- Square
  Tags = {1, 2}
  Posts <- PostDirectives
  Waits <- WaitDirectives
  InitialSize = 2
  Transports = {"gasnet", "mpi"}
  MaxPending = 3
INVARIANTS TableFits
PROPERTIES ImplementsPostWait
CHECK_DEADLOCK FALSE
