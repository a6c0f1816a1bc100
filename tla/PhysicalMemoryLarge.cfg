SPECIFICATION Spec
CONSTANTS
  Memmap <- LargeMemmap
  Counts <- LargeCounts
INVARIANT
  OutOfMemoryMeansNoFreePage
