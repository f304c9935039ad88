SPECIFICATION Spec
CONSTANT
    MaxCalls = 4
INVARIANT
    IssuedParity
CHECK_DEADLOCK FALSE
