SPECIFICATION Spec
CONSTANTS
    Wal <- SerialWal
    Streams = {s1, s2, s3}
    NoStream = NoStream
    MaxDrops = 2
    MaxCrashes = 0
    MaxRequests = 0
INVARIANT NoGap
CHECK_DEADLOCK FALSE
