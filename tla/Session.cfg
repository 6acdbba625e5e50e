SPECIFICATION SumSpec
CONSTANTS
    c1 = c1
    Callers = {c1}
    MaxStreams = 3
    OverlapStarts = FALSE
    SlowTeardown = FALSE
    ChannelCap = 1
    MaxPackets = 2
    MaxPauses = 1
    MaxPause = 1
    MaxCards = 2
    MaxSegments = 2
INVARIANTS
    SessionIsExclusive
    SwapKeepsVoice
    DebtsAreKept
    CardUsesLiveHandle
PROPERTIES
    ImplementsSlot
    SenderThreadsEnd
CHECK_DEADLOCK FALSE
