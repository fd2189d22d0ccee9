SPECIFICATION FairSpec
CONSTANTS
    r1 = r1
    r2 = r2
    Requests = {r1}
PROPERTIES
    FlushedMeansExported
CHECK_DEADLOCK FALSE
