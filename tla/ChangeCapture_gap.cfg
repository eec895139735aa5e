SPECIFICATION Spec
CONSTANTS
    Wal <- OverlappingWal
    Streams = {s1, s2}
    NoStream = NoStream
    MaxDrops = 2
    MaxCrashes = 1
    MaxRequests = 2
INVARIANT NoGap
CHECK_DEADLOCK FALSE
