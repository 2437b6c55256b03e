CONSTANTS
  Pages <- FourPages
  PAGE_SIZE = 64
  Requests = {0, 1, 15, 24, 48}
  MaxOthers = 2
  AdjacentLooks = {"free", "used"}
SPECIFICATION FairSpec
INVARIANTS
  TypeOK
  ChunksTile
  LiveExact
  ZonesLinked
  ScanComplete
  PanicOnlyFromJunk
PROPERTIES
  LiveUntouched
  AllocReturns
