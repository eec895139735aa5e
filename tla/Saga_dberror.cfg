CONSTANTS
    r1 = r1  r2 = r2  n1 = n1  n2 = n2
    NoRun = NoRun
    Runs <- OneRun
    Replicas <- OneReplica
    NSteps = 2
    Compensable <- ProvisionDatabaseSteps
    SlowSagas = FALSE
    MaxFaults = 1
SPECIFICATION FairSpec
CHECK_DEADLOCK FALSE
PROPERTIES CutRollbackResumes
