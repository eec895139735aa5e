CONSTANTS
    r1 = r1  r2 = r2  n1 = n1  n2 = n2
    NoRun = NoRun
    Runs <- OneRun
    Replicas <- TwoReplicas
    NSteps = 3
    Compensable <- CreateTenantSteps
    SlowSagas = TRUE
    MaxFaults = 3
SPECIFICATION FairSpec
CHECK_DEADLOCK FALSE
INVARIANTS CompensatedAtMostOnce
PROPERTIES SagaEnds
