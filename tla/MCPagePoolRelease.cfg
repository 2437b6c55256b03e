CONSTANTS
  h0 = h0
  h1 = h1
  Harts = {h0}
  Bottom = 8
  Top = 13
  Frames = 64
  MaxReq = 3
  OverflowChecks = FALSE
  ClientWords <- FirstPage
SPECIFICATION Spec
INVARIANT NoDoubleAlloc
