SPECIFICATION MCSpec
CONSTANTS
    w1 = w1
    w2 = w2
    Clients = {w1, w2}
    Rate = 1
    Mix = {"create", "get"}
    RingCap = 2
    MaxTicks = 5
    n1 = n1
    n2 = n2
    Notes = {n1, n2}
    NamesOf <- MCNamesOf
    HistoryMax = 2
    MaxPosts = 3
    MaxClock = 1
    MaxInt32 = 3
    Numbers <- MCNumbers
    MaxSet = 2
    Unset = Unset
    Empty = Empty
    Garbage = Garbage
    NaN = NaN
    q1 = q1
    q2 = q2
    q3 = q3
    Replicas = {q1, q2, q3}
    N = 2
    MaxFaults = 2
    r1 = r1
    r2 = r2
    Requests = {r1, r2}
    Methods = {"GET", "HEAD", "POST", "DELETE"}
    Paths = {"/orders", "/orders/42", "/healthz", "/readyz", "/debug/slow", "/nowhere"}
    Inputs <- MCInputs
    EnableDebugRoutes = TRUE
    None = None
INVARIANTS
    TicksAccounted
    RingHoldsLatest
    DeliveredIsListed
    ConfigIsRunnable
    AppliedExactlyOnce
    MigratedInOrder
    PillarsAgree
    CorrelationHolds
    InFlightExact
    PanicsCounted
PROPERTIES
    LoadEnds
    AllServe
