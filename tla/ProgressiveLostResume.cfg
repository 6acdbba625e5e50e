SPECIFICATION Spec
CONSTANTS
    u1 = u1
    Users = {u1}
    Qualities = 2
    Duration = 3
    MaxTime = 2
    MaxSeeks = 2
INVARIANTS
    ResumeReachesTranscode
CHECK_DEADLOCK FALSE
