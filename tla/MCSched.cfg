CONSTANTS
  Loops <- GoodLoops
  Word = 65536
  Directives <- GoodDirectives
SPECIFICATION HSpec
INVARIANTS
  EachOnce
  LastOwner
  OwnerComputes
  OwnersAgree
