CONSTANTS
  h0 = h0
  h1 = h1
  Harts = {h0, h1}
  Bottom = 8
  Top = 12
  Frames = 64
  MaxReq = 3
  OverflowChecks = TRUE
  ClientWords <- FirstPage
SPECIFICATION FairSpec
INVARIANTS
  TypeOK
  MutualExclusion
  NoDoubleAlloc
  FreeListExact
  AllocIsZeroed
  SinglePageServed
  FailsOnlyWhenShort
  AllocTakesLowest
PROPERTIES
  HeldPagesUntouched
  CallReturns
  RefinesAllocator
