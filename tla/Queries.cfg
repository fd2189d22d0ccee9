SPECIFICATION MCSpec
CONSTANTS
    c1 = c1
    c2 = c2
    Calls = {c1, c2}
    Statements <- MCStatements
    QueryNames <- MCQueryNames
    MaxConns = 1
    SlowThreshold = 1
    MaxTime = 2
INVARIANTS
    QueryPillarsAgree
    WaitAttributed
    ScrapeIsTrue
PROPERTIES
    EveryCallReturns
CHECK_DEADLOCK FALSE
