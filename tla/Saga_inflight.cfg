CONSTANTS
    r1 = r1  r2 = r2  n1 = n1  n2 = n2
    NoRun = NoRun
    Runs <- OneRun
    Replicas <- TwoReplicas
    NSteps = 2
    Compensable <- ProvisionDatabaseSteps
    SlowSagas = TRUE
    MaxFaults = 1
SPECIFICATION Spec
CHECK_DEADLOCK FALSE
INVARIANTS CompletedKeepsEffects
