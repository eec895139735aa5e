CONSTANTS
    j1 = j1  t1 = t1  t2 = t2  w1 = w1  h1 = h1
    NoJob = NoJob
    Jobs <- OneJob
    InitialJobs <- NoJobs
    Triggers <- TwoTriggers
    Runners <- OneRunner
    Handlers <- OneHandler
    Crons <- EverySlot
    Limits <- LimitOne
    MaxFailures <- SecondFailure
    Counts = {1}
    MissedCap = 1
    DateColumns = TRUE
    MaxTime = 2
    Horizon = 3
    MaxRequests = 2
    MaxFaults = 1
SPECIFICATION FairSpec
CHECK_DEADLOCK FALSE
INVARIANTS TypeOK ActedAtMostOnce NeverEarly
PROPERTIES ResultsFinal DueSlotRecorded
