CONSTANTS
    c1 = c1
    c2 = c2
    k1 = k1
    k2 = k2
    k3 = k3
    Call <- MCCalls
    Op <- MCOps
    CallOf <- MCCallOf
    Writes = 2
CHECK_DEADLOCK FALSE
SPECIFICATION Spec
INVARIANT OnlyOwnWritesUndone
