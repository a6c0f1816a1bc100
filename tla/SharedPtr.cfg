\* Two contexts, every operation but the converting weak_ptr assignment.
CONSTANTS
  Contexts = {main, irq}
  SharedSlots = {s1, s2}
  WeakSlots = {w1, w2}
  Blocks = {b1, b2}
  Operations = {"copy", "watch", "weak_copy", "move"}
  null = null
SPECIFICATION Spec
INVARIANTS
  TypeOK
  CountsExact
  BlockOutlivesPointers
  ObjectOutlivesShared
  NothingLeaked
PROPERTIES
  NoResurrection
  FinishesAlone
