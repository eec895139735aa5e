CONSTANTS
    k1 = k1  k2 = k2  c1 = c1  c2 = c2  c3 = c3
    NoCall = NoCall
    Keys <- TwoKeys
    Calls <- ThreeCalls
    Types = {"t1", "t2"}
SPECIFICATION FairSpec
CHECK_DEADLOCK FALSE
INVARIANTS
    RecordsLeadToOperations
    LockProtects
    OneOperationPerWindow
PROPERTIES
    ContractSpec
    EveryCallAnswered
