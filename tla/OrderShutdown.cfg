SPECIFICATION Spec
CONSTANTS
    w1 = w1
    w2 = w2
    s1 = s1
    s2 = s2
    Workers = {w1, w2}
    Orders = {1, 2, 3}
    Sessions = {s1, s2}
    BatchSize = 2
    FaultKinds = {"shutdown", "disconnect"}
    MaxFaults = 1
SYMMETRY Symmetry
INVARIANTS
    DeliveredNeverStranded
    LedgerExact
PROPERTIES
    ImplementsLifecycle
