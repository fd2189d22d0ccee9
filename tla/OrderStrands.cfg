SPECIFICATION Spec
CONSTANTS
    w1 = w1
    s1 = s1
    Workers = {w1}
    Orders = {1}
    Sessions = {s1}
    BatchSize = 1
    FaultKinds = {"shutdown"}
    MaxFaults = 1
INVARIANTS
    ShutdownStrandsNothing
