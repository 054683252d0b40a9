SPECIFICATION Spec
CONSTANTS
  TotalBlocks = 10
  NULL = NULL
  NONE = NONE
  KERNEL_STACK = 2
  Machines <- MCMachines
  PAGE = 8
  HEADER = 2
  MIN_ALLOCATION_SIZE = 1
  SIZE_WIDTH = 64
  Sizes <- MCSizes
  Members = {0, 2, 13}
  FANOUT = 2
  ROOT = 51
  KERNEL_PDP = 52
  MMIO_VIRTUAL_BASE = 12
  MMIO_END = 15
  FaultPages = {5, 6}
  Devices = {2, 3}
  WindowSizes = {12}
  NUM_RX_DESC = 1
  NUM_TX_DESC = 1
  BAR0 = 4
  WINDOW = 8
  DMA_WIDTH = 10
INVARIANTS HeapSound PagesAccounted WindowsMapped PagesOwned
PROPERTIES ImplementsAddressSpace
