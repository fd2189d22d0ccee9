SPECIFICATION Spec
CONSTANTS
    w1 = w1
    w2 = w2
    s1 = s1
    s2 = s2
    Workers = {w1, w2}
    Orders = {1, 2}
    Sessions = {s1, s2}
    BatchSize = 2
    FaultKinds = {"dberror", "connloss", "panic", "timeout", "shutdown", "crash"}
    MaxFaults = 2
SYMMETRY Symmetry
INVARIANTS
    ExclusiveCustody
    NeverConflict
    ChargedAtMostOnce
    SettledAsCharged
    NeverOvercounted
    HeartbeatUnbroken
