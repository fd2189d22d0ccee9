SPECIFICATION FairSpec
CONSTANTS
    w1 = w1
    s1 = s1
    s2 = s2
    Workers = {w1}
    Orders = {1, 2}
    Sessions = {s1, s2}
    BatchSize = 1
    FaultKinds = {"shutdown", "timeout", "crash", "panic"}
    MaxFaults = 2
PROPERTIES
    ShutdownCompletes
    PendingSettles
