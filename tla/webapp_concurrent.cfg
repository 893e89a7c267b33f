SPECIFICATION FairSpec
CONSTANTS
    Locations = {l1, l2}
    Workers = {w1, w2, w3}
    ClientStatuses <- OperatorStatuses
    Requests <- Users
    StartDelay = 2
    MaxTime = 1
    MaxDeaths = 1
    Never = Never
    Minute = 4
    Margin = 20
    Hour = 240
    Deadline = 60
    Admin = Admin
INVARIANTS TypeOK AllReadyHasStart AllCompletedHasEnd StartMeansBarrier  WindowShowsTest
PROPERTY BarrierOpens
CHECK_DEADLOCK FALSE
