CONSTANTS
  PAGE_SIZE = 2
  PTE_TOP = 2
  USIZE = 64
  Calls <- MCCalls
  Pools <- MCPools
SPECIFICATION FairSpec
INVARIANTS
  TypeOK
  TablesAreATree
  FailureExplained
PROPERTIES
  PageMapReturns
  RefinesAddressSpace
