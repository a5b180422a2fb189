SPECIFICATION FairSpec
CONSTANTS
  p1 = p1
  Processes = {p1}
  ReadSize = 2
  PipeCapacity = 2
  MaxPosts = 3
INVARIANTS
  TypeOK
  NothingLost
  BatchesInOrder
  BlockedOnlyWhenFull
PROPERTIES
  Served
CHECK_DEADLOCK FALSE
