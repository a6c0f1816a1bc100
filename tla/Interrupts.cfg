SPECIFICATION Spec
CONSTANTS
  Lines = {1, 3, 8}
  DriverVectors = {33}
  Functions = {f, g}
  Arguments = {x}
  none = none
INVARIANTS
  TypeOK
  MasterServesCurrent
  CallsWhatWasRegistered
PROPERTY
  Served
CHECK_DEADLOCK FALSE
