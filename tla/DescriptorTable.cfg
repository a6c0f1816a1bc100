SPECIFICATION Spec
CONSTANT Vectors = 4
INVARIANT GatesLeadToStubs
CHECK_DEADLOCK FALSE
