SPECIFICATION Spec
CONSTANTS
  Memmap <- HeapMemmap
  hhdm_offset <- HigherHalf
  Sizes <- OneClass
  Requests <- RefillRequests
  MaxLive = 4
INVARIANTS
  LiveDisjoint
  FreeListsComplete
