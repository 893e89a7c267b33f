SPECIFICATION Spec
CONSTANTS
    Locations = {l1, l2}
    Workers = {w1, w2}
    ClientStatuses <- OperatorStatuses
    Requests <- Users
    StartDelay = 2
    MaxTime = 1
    MaxDeaths = 0
    Never = Never
    Minute = 4
    Margin = 20
    Hour = 240
    Deadline = 60
    Admin = Admin
PROPERTY StartTimeStable
CHECK_DEADLOCK FALSE
