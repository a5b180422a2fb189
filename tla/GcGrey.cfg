SPECIFICATION Spec
CONSTANTS
  c = c
  a = a
  b = b
  u = u
  v = v
  p = p
  Objects = {c, a, b}
  Values = {u, v}
  Payloads = {}
  NoPayload = NoPayload
  Unerasable = {}
  Heaps <- MixedHeaps
  Owners <- NoOwners
  Roots <- RootC
  FrameZones = {}
  MaxDepth = 3
  MaxSlots <- SlotsOfA
  MaxCollections = 1
INVARIANTS
  NoGreyLeft
CHECK_DEADLOCK FALSE
