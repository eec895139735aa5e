SPECIFICATION Spec
CONSTANTS
    r1 = r1
    r2 = r2
    k1 = k1
    k2 = k2
    None = None
    Rotators = {r1, r2}
    Revokers = {k1}
    MaxRows = 3
    MaxWrites = 3
INVARIANTS NewestDecides VersionsOrdered ActiveReadable NobodyStuck
CHECK_DEADLOCK FALSE
SYMMETRY RotatorSymmetry
