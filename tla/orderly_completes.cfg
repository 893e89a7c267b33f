SPECIFICATION FairSystem
CONSTANTS
    Locations = {l1, l2, l3}
    ClientStatuses <- OperatorStatuses
    Requests <- StartOnly
    Empty = {l3}
    HasDeadline = FALSE
    TestEnds = TRUE
    FreshCache = TRUE
    Timely = TRUE
    MaxFaults = 0
PROPERTY RunCompletes
CHECK_DEADLOCK FALSE
