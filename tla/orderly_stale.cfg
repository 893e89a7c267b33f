SPECIFICATION System
CONSTANTS
    Locations = {l1}
    ClientStatuses <- OperatorStatuses
    Requests <- StartOnly
    Empty = {}
    HasDeadline = FALSE
    TestEnds = TRUE
    FreshCache = FALSE
    Timely = TRUE
    MaxFaults = 0
PROPERTY FailureIsReal
CHECK_DEADLOCK FALSE
