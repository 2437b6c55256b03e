CONSTANTS
  PAGE_SIZE = 2
  PTE_TOP = 8
  USIZE = 4096
  Calls = {}
  Pools = {}
  UART_BASE = 40
  DRAM_BASE = 120
  NHART = 2
  Layouts <- MCLayouts
SPECIFICATION KSpec
INVARIANTS
  KernelMapExact
  StacksGuarded
  PoolStaysReachable
  PanicExplained
PROPERTIES
  BootCompletes
