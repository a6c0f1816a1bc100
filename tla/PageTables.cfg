SPECIFICATION Spec
CONSTANTS
  TopFan = 4
  Fan = 2
  Watched = {0, 1, 2, 4, 16, 17, 20, 21, 30}
  kernel_pagemap = kernel
  Maps = {kernel, m1, m2, m3}
  gib1_pages = FALSE
  none = none
  m1 = m1
  m2 = m2
  m3 = m3
  MaxCalls = 7
  MaxRanges = 1
  Tables <- MCTables
  Above = {4, 6}
  Framebuffer = {6}
  Image = {21}
  CallPages = {1, 30}
  Frames = {3}
  Flags <- MCFlags
  Bases = {4}
  Lengths = {3}
INVARIANTS
  TypeOK
  TablesOwnedOnce
  CachedIsCurrent
PROPERTY
  ImplementsAddressSpaces
SYMMETRY MCSymmetry
CHECK_DEADLOCK FALSE
