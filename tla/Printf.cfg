SPECIFICATION Spec
CONSTANTS
  Alphabet = {"%", "0", "-", "+", "#", "3", "*", ".", "l", "h", "d", "x", "o", "b", "c", "s", "p", "n"}
  MaxFormat = 6
  MaxWidth = 6
  Gadgets <- MCGadgets
  Room <- MCRoom
  Values <- MCValues
  Stars <- MCStars
  Lengths <- MCLengths
  CharBits = 2
  ShortBits = 3
  IntBits = 5
  LongBits = 8
  IntegerBufferSize = 5
  PointerWidth = 4
INVARIANTS
  TypeOK
  BufferHoldsPrefix
  IntegersAsStandard
  StringsAsStandard
PROPERTY
  CallEnds
CHECK_DEADLOCK FALSE
