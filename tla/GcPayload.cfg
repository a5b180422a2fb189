SPECIFICATION Spec
CONSTANTS
  c = c
  a = a
  b = b
  u = u
  v = v
  p = p
  Objects = {c, a, b}
  Values = {u, v}
  Payloads = {p}
  NoPayload = NoPayload
  Unerasable = {}
  Heaps <- SmallHeap
  Owners <- SomeOwners
  Roots <- RootC
  FrameZones = {}
  MaxDepth = 3
  MaxSlots <- SlotsOfA
  MaxCollections = 1
INVARIANTS
  PayloadKept
CHECK_DEADLOCK FALSE
