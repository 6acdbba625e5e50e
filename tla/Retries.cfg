SPECIFICATION SumSpec
CONSTANTS
    MaxRetries = 5
    FallbackAfter = 3
    CounterCap = 6
    c1 = c1
    c2 = c2
    Callers = {c1, c2}
    MaxStreams = 2
    N = 4
    MaxDownloadRetries = 2
    MaxSeeks = 2
    MaxGateways = 3
    MaxPackets = 4
INVARIANTS
    LiveEndsOnlyWhenCancelled
    WatchedIsNotReplayed
    BodyIsAtOffset
    ReplacedIsClosed
    OverlapLeaksNoSlot
PROPERTIES
    BackupIsEarned
    FailingProviderIsLeft
    ReadReturns
    SilentIsReplaced
    OverlapRequestsEnd
CHECK_DEADLOCK FALSE
