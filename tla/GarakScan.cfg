SPECIFICATION FairSpec
CONSTANTS
    Tasks = {p1, p2, p3}
    MaxPermits = 1
    Workers = 2
    PoolThreads = 2
    MaxCalls = 2
INVARIANTS
    OneCallPerTemplate
    EveryProbeTells
PROPERTIES
    ScanEnds
CHECK_DEADLOCK FALSE
