SPECIFICATION FairSpec
CONSTANTS
    r1 = r1
    r2 = r2
    Requests = {r1, r2}
INVARIANTS
    PoolOutlivesItsUsers
    MetricsDieLast
    SendNeverBlocks
    CleanExitIsComplete
PROPERTIES
    ShutdownEnds
CHECK_DEADLOCK FALSE
