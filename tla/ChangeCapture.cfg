SPECIFICATION FairSpec
CONSTANTS
    Wal <- MixedWal
    Streams = {s1, s2}
    NoStream = NoStream
    MaxDrops = 2
    MaxCrashes = 1
    MaxRequests = 1
INVARIANTS InOrderAfterCursor
PROPERTIES GapsExplained CursorCatchesUp
CHECK_DEADLOCK FALSE
