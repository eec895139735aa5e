CONSTANTS
    j1 = j1  t1 = t1  t2 = t2  w1 = w1  h1 = h1
    NoJob = NoJob
    Jobs <- OneJob
    InitialJobs <- OneJob
    Triggers <- OneTrigger
    Runners <- OneRunner
    Handlers <- OneHandler
    Crons <- EverySlot
    Limits <- LimitOne
    MaxFailures <- SecondFailure
    Counts = {0, 1}
    MissedCap = 2
    DateColumns = FALSE
    MaxTime = 1
    Horizon = 2
    MaxRequests = 2
    MaxFaults = 0
SPECIFICATION FairSpec
CHECK_DEADLOCK FALSE
PROPERTIES OnlyResumeActivates
