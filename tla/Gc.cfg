SPECIFICATION FairSpec
CONSTANTS
  c = c
  a = a
  b = b
  u = u
  v = v
  p = p
  Objects = {c, a, b}
  Values = {u, v}
  Payloads = {p}
  NoPayload = NoPayload
  Unerasable = {}
  Heaps <- MixedHeaps
  Owners <- SomeOwners
  Roots <- RootC
  FrameZones = {u}
  MaxDepth = 1
  MaxSlots <- SlotsOfA
  MaxCollections = 2
INVARIANTS
  TypeOK
  Precise
  ScanOnce
  ScannedIntact
  SafeWhenPlain
PROPERTIES
  CollectionEnds
  CarefulIsSafe
CHECK_DEADLOCK FALSE
