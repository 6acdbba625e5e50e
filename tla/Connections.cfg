SPECIFICATION SumSpec
CONSTANTS
    MaxConns = 3
    MaxUpdates = 3
    Overlaps = FALSE
    u1 = u1
    Users = {u1}
    MaxEpochs = 3
    MaxTransitions = 2
    MaxAcks = 2
    EventCap = 2
    MaxJoins = 2
    MaxStreams = 2
    MaxKicks = 1
INVARIANTS
    ConnectionIsWhole
    OnlyStopCrashes
    OnlyFailedIsOrphaned
    AnswerIsNotLost
PROPERTIES
    StopReturns
    LostIsReplaced
    LeaveIsGenuine
    KeysFollowTransitions
CHECK_DEADLOCK FALSE
