SPECIFICATION Spec
CONSTANT Calls = {c1, c2}
PROPERTY StartDuringShutdownReturns
CHECK_DEADLOCK FALSE
