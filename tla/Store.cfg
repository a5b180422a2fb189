SPECIFICATION FairSpec
CONSTANTS
  r = r
  a = a
  b = b
  s1 = s1
  s2 = s2
  Objects = {r, a, b}
  SpaceSeq <- TwoSpaces
  NoSpace = NoSpace
  NoFile = NoFile
  Unknown = Unknown
  Fillings <- FewFillings
  FirstRefs <- RefsRA
  FirstSpace <- SpaceRA
  FirstRoots = {r}
  MaxChanges = 2
  MaxDumps = 2
  MaxShorts = 1
INVARIANTS
  TypeOK
  StoreSound
  OldCopyKept
PROPERTIES
  StoreIsAtomic
  DumpEnds

CHECK_DEADLOCK FALSE
