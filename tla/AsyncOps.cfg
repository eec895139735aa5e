CONSTANTS
    o1 = o1  h1 = h1  h2 = h2
    NoOp = NoOp
    Ops <- OneOp
    Handlers <- TwoHandlers
    MaxRetries <- OneRetry
    ProfileMaxRetries = 1
    CancellingTimeout = 1
    OrphanThreshold = 2
    Timeout = 3
    MaxCrashes = 1
SPECIFICATION FairSpec
INVARIANTS
    TypeOK
    AttemptsRecorded
    AttemptBudget
    SnapshotsUsable
    AuditTrail
PROPERTIES
    TerminalOnlyRestarted
    RunningIsSwept
    CancellingIsForced
