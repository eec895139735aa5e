CONSTANTS
    o1 = o1
    h1 = h1
    h2 = h2
    NoOp = NoOp
    Ops <- OneOp
    Handlers <- OneHandler
    MaxRetries <- OneRetry
    ProfileMaxRetries = 1
    CancellingTimeout = 1
    OrphanThreshold = 1
    Timeout = 1
    MaxCrashes = 0
SPECIFICATION Spec
INVARIANTS
    OverrideAvailable
