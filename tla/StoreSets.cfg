SPECIFICATION Spec
CONSTANTS
  r = r
  a = a
  b = b
  s1 = s1
  s2 = s2
  Objects = {r, a, b}
  SpaceSeq <- TwoSpaces
  NoSpace = NoSpace
  NoFile = NoFile
  Unknown = Unknown
  Fillings <- MoreFillings
  FirstRefs <- RefsRA
  FirstSpace <- SpaceRA
  FirstRoots = {r}
  MaxChanges = 1
  MaxDumps = 1
  MaxShorts = 0
INVARIANTS
  DumpedStoreLoads
CHECK_DEADLOCK FALSE
