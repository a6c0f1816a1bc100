SPECIFICATION Spec
CONSTANTS
  Memmap <- HeapMemmap
  hhdm_offset <- HigherHalf
  Sizes <- TwoClasses
  Requests <- HeapRequests
  MaxLive = 2
INVARIANTS
  TypeOK
  LiveDisjoint
  RoomForRequest
  FreeListsComplete
  NoPageLeaked
  CopyInBounds
PROPERTY
  UsesPhysicalMemory
