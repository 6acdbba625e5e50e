SPECIFICATION FairSpec
CONSTANTS
    u1 = u1
    Users = {u1}
    Qualities = 2
    Duration = 3
    MaxTime = 1
    MaxSeeks = 2
INVARIANTS
    SegmentFollowsSession
PROPERTIES
    ResumeKeepsPosition
    RequestsTakeEffect
CHECK_DEADLOCK FALSE
