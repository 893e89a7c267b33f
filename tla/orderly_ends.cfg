SPECIFICATION FairSystem
CONSTANTS
    Locations = {l1, l2}
    ClientStatuses <- OperatorStatuses
    Requests <- StartOnly
    Empty = {}
    HasDeadline = TRUE
    TestEnds = FALSE
    FreshCache = FALSE
    Timely = FALSE
    MaxFaults = 1
PROPERTY EveryRunEnds
CHECK_DEADLOCK FALSE
