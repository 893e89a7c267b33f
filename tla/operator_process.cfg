SPECIFICATION Spec
CONSTANTS
    Jobs = {j1, bad}
    Malformed = {bad}
    Grace = 1
    BootTime = 2
    MaxRestarts = 2
    OnlineFor = 10
    HandlerTime = 1
    MaxMissed = 1
    Never = Never
INVARIANTS TypeOK LiveShownOnline
PROPERTIES DeadShownOffline ActiveJobsArrive
CHECK_DEADLOCK FALSE
