SPECIFICATION MCSpec
CONSTANTS
    o1 = o1
    o2 = o2
    Orders = {o1, o2}
    Interval = 1
    Timeout = 2
    MaxTime = 4
SYMMETRY Symmetry
INVARIANTS
    TimestampNeverAhead
    FrozenIsNotSilent
    GaugesExactAtRest
    NoPendingOrderHidden
CHECK_DEADLOCK FALSE
