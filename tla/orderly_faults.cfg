SPECIFICATION FairSystem
CONSTANTS
    Locations = {l1}
    ClientStatuses <- OperatorStatuses
    Requests <- AllUsers
    Empty = {}
    HasDeadline = FALSE
    TestEnds = FALSE
    FreshCache = FALSE
    Timely = FALSE
    MaxFaults = 3
PROPERTIES CancelStopsLoad DeletedRunLeavesNoJob
CHECK_DEADLOCK FALSE
