SPECIFICATION Spec
CONSTANTS
  Memmap <- SmallMemmap
  Counts <- SmallCounts
INVARIANTS
  TypeOK
  BlocksDisjoint
  BitmapAgrees
  Accounting
  OutOfMemoryOnlyAcrossCursor
PROPERTY
  ImplementsPageAllocator
