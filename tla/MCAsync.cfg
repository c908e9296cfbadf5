SPECIFICATION FairSpec
CONSTANTS
  Ids <- ThreeIds
  TableSize = 2
  MaxComms = 2
  MaxNodes = 2
INVARIANTS
  LookupFindsWork
  NodeSetsHeld
PROPERTIES
  DroppedOnlyWhenDone
  WaitReturns
