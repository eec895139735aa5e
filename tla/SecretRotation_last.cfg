SPECIFICATION Spec
CONSTANTS
    r1 = r1
    r2 = r2
    k1 = k1
    k2 = k2
    None = None
    Rotators = {r1}
    Revokers = {k1, k2}
    MaxRows = 2
    MaxWrites = 2
PROPERTIES UnforcedLeavesValid
CHECK_DEADLOCK FALSE
