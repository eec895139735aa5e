SPECIFICATION FairSpec
CONSTANTS
    s1 = s1
    e1 = e1
    e2 = e2
    p1 = p1
    p2 = p2
    m1 = m1
    NoSub = NoSub
    NoEvent = NoEvent
    Subs = {s1}
    Events = {e1, e2}
    Dispatchers = {p1, p2}
    Managers = {m1}
    MaxAttempts = 2
    Threshold = 2
INVARIANTS AttemptBudget OneRequestAfterStop DisabledByFailures
PROPERTIES DeliveriesSettle
CHECK_DEADLOCK FALSE
