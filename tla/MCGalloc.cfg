CONSTANTS
  Pages <- FivePages
  PAGE_SIZE = 64
  Requests = {}
  MaxOthers = 0
  AdjacentLooks = {"free", "used"}
  Sizes = {0, 9, 24, 48, 49, 64, 65}
  Aligns = {1, 16, 128}
  MaxBlocks = 3
SPECIFICATION GSpec
INVARIANTS
  BlocksApart
  NothingLost
  GrowthFits
PROPERTIES
  GallocReturns
