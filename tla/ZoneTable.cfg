SPECIFICATION FairSpec
CONSTANTS
  z1 = z1
  z2 = z2
  z3 = z3
  z4 = z4
  Zones <- FourZones
  NoZone = NoZone
  InitialSize = 3
  ProbeAbove = 3
  Tail = 2
  Window = 2
  MaxSize = 7
  MaxScans = 2
INVARIANTS TypeOK RanksRight RanksHeld CountRight NoAssertFails
PROPERTIES ScansTheSet ScanEnds
