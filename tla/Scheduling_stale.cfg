CONSTANTS
    j1 = j1  t1 = t1  t2 = t2  w1 = w1  h1 = h1
    NoJob = NoJob
    Jobs <- OneJob
    InitialJobs <- OneJob
    Triggers <- OneTrigger
    Runners <- OneRunner
    Handlers <- OneHandler
    Crons <- EverySlot
    Limits <- LimitOne
    MaxFailures <- ThirdFailure
    Counts = {0, 1}
    MissedCap = 2
    DateColumns = FALSE
    MaxTime = 2
    Horizon = 3
    MaxRequests = 2
    MaxFaults = 0
SPECIFICATION FairSpec
CHECK_DEADLOCK FALSE
PROPERTIES DueJobAdvances
