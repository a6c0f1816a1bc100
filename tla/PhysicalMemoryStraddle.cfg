SPECIFICATION Spec
CONSTANTS
  Memmap <- SmallMemmap
  Counts <- SmallCounts
INVARIANT
  OutOfMemoryMeansNoRun
