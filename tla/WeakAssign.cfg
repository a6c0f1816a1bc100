\* The converting weak_ptr assignment among the operations.
CONSTANTS
  Contexts = {main}
  SharedSlots = {s1}
  WeakSlots = {w1, w2}
  Blocks = {b1}
  Operations = {"watch", "convert"}
  null = null
SPECIFICATION Spec
INVARIANT
  DeletedByLastWeak
