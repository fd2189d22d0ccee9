SPECIFICATION Spec
CONSTANTS
    o1 = o1
    Orders = {o1}
    Interval = 1
    Timeout = 1
    MaxTime = 3
INVARIANTS
    StrandedOrderIsSeen
CHECK_DEADLOCK FALSE
