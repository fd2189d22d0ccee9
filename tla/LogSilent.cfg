SPECIFICATION Spec
CONSTANTS
    Loggers = {p1}
    Admins = {a1, a2}
    Msgs = {m1}
    Levels = {"INFO"}
    SetLevels = {"DEBUG", "WARN", "ERROR"}
    PerInterval = 1
    Interval = 2
    MaxKeys = 1
    MaxTime = 1
    MaxRecords = 2
INVARIANTS
    EveryChangeAudited
