SPECIFICATION Spec
CONSTANTS
  TotalBlocks = 7
  Regions <- MCRegions
INVARIANTS NoDoubleAllocation CountersExact
PROPERTIES ImplementsPageAllocator RefusalJustified
