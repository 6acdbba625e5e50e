SPECIFICATION SumSpec
CONSTANTS
    s1 = s1
    s2 = s2
    g1 = g1
    Subs = {s1, s2}
    Guilds = {g1}
    MaxMatch = 2
    Concurrency = 1
    Fixtures <- Followed
    AnnounceFails = FALSE
    Crashes = 1
    Readers = {"q1", "q2"}
    Ids = {"i1", "i2"}
    TTL = 1
    Early = 1
    Recent = 1
    MaxTime = 3
    MaxStart = 2
    Countries = {"uk", "us"}
    Keys = {"a", "b"}
    Listings <- ListedAs
    Known <- Entries
    MaxFetches = 2
    Variants = 2
    Paths = {1, 2}
    Kinds = {1, 4}
    FilmKinds <- AgainstListing
    c1 = c1
    c2 = c2
    Commands = {c1, c2}
    MaxStreams = 3
    MaxFiles = 2
    Records <- Intros
    Duration = 4
    MinIntro = 2
    MaxSegments = 2
INVARIANTS
    LiveIsNotLost
    SettledIsEnriched
    BestSourceIsTaken
    SubtitlesBelong
    OverlaysAreInTime
PROPERTIES
    RunningMatchIsNotRestarted
    RecordedMatchIsNotStarted
    PollsGoOn
    RefreshIsReset
CHECK_DEADLOCK FALSE
