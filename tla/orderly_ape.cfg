SPECIFICATION System
CONSTANTS
    Locations = {l1, l2}
    ClientStatuses <- OperatorStatuses
    Requests <- AllUsers
    Empty = {}
    HasDeadline = TRUE
    TestEnds = TRUE
    FreshCache = FALSE
    Timely = FALSE
    MaxFaults = 1
SYMMETRY Symmetry
INVARIANTS SystemTypeOK NoLoadBeforeBarrier FailureStopsRun BarrierHeld EndIsFinal ShownCompletedMeansIdle
PROPERTIES CompletedMeansSucceeded ShownNeverGoesBack
CHECK_DEADLOCK FALSE
