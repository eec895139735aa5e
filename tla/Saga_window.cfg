CONSTANTS
    r1 = r1  r2 = r2  n1 = n1  n2 = n2
    NoRun = NoRun
    Runs <- TwoRuns
    Replicas <- TwoReplicas
    NSteps = 2
    Compensable <- ProvisionDatabaseSteps
    SlowSagas = FALSE
    MaxFaults = 1
SPECIFICATION Spec
CHECK_DEADLOCK FALSE
SYMMETRY Symmetry
INVARIANTS TypeOK NewestFirst CompletedKeepsEffects RolledBackIsSettled
