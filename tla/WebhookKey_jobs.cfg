CONSTANTS
    k1 = k1  k2 = k2  old = old  new = new
    s1 = s1  s2 = s2  p1 = p1  p2 = p2  j1 = j1  j2 = j2
    NoKey = NoKey  NoMode = NoMode  NoRequest = NoRequest
    NoRotation = NoRotation  NoSecret = NoSecret  NoCall = NoCall
    KeyIds = {k1, k2}
    Materials = {old, new}
    Canonical = {new}
    MaterialOf <- KeyMaterial
    Secrets = {s1}
    Replicas = {p1}
    Jobs = {j1, j2}
    Requests = {"a", "r", "b", "f"}
    Rotations = {"t1", "t2"}
    Calls <- CycleCalls
    Asks <- CycleAndRetry
    MaxNow = 1
SPECIFICATION Spec
CHECK_DEADLOCK FALSE
INVARIANTS
    RowsReadable
    LatestRequestReplayable
PROPERTIES
    OneTransformPerRequest
    RecoveryRetained
