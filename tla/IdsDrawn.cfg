SPECIFICATION Spec
CONSTANTS
  t1 = t1
  t2 = t2
  n1 = n1
  n2 = n2
  Threads <- TwoThreads
  Zones <- FiveZones
  Names <- TwoNames
  Nobody = Nobody
  NoZone = NoZone
  NoName = NoName
  NoId = NoId
  MinLo = 1
  MaxLo = 7
  Width = 5
  MaxCalls = 1
CHECK_DEADLOCK FALSE
INVARIANTS MadeIsFound
