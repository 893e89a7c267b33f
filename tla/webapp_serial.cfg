SPECIFICATION Spec
CONSTANTS
    Locations = {l1, l2}
    Workers = {w1}
    ClientStatuses <- AllStatuses
    Requests <- AllUsers
    StartDelay = 2
    MaxTime = 2
    MaxDeaths = 0
    Never = Never
    Minute = 4
    Margin = 20
    Hour = 240
    Deadline = 60
    Admin = Admin
PROPERTIES StartTimeStable CanceledStaysDead ImplementsPromise
CHECK_DEADLOCK FALSE
