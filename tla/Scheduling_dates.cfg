CONSTANTS
    j1 = j1  t1 = t1  t2 = t2  w1 = w1  h1 = h1
    NoJob = NoJob
    Jobs <- OneJob
    InitialJobs <- OneJob
    Triggers <- OneTrigger
    Runners <- OneRunner
    Handlers <- NoHandler
    Crons <- EverySlot
    Limits <- LimitOne
    MaxFailures <- ThirdFailure
    Counts = {0, 1}
    MissedCap = 2
    DateColumns = TRUE
    MaxTime = 3
    Horizon = 4
    MaxRequests = 0
    MaxFaults = 0
SPECIFICATION FairSpec
CHECK_DEADLOCK FALSE
PROPERTIES DueJobAdvances
