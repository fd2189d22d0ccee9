SPECIFICATION Spec
CONSTANTS
    Loggers = {p1, p2}
    Admins = {a1, a2}
    Msgs = {m1, m2, m3}
    Levels = {"INFO"}
    SetLevels = {"DEBUG", "WARN", "ERROR"}
    PerInterval = 1
    Interval = 2
    MaxKeys = 1
    MaxTime = 3
    MaxRecords = 4
SYMMETRY Symmetry
INVARIANTS
    VolumeAccounted
    RateIsCapped
    DropsReported
    TrailNamesLevel
