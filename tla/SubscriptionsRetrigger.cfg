SPECIFICATION Spec
CONSTANTS
    s1 = s1
    g1 = g1
    Subs = {s1}
    Guilds = {g1}
    MaxMatch = 2
    Concurrency = 1
    AnnounceFails = TRUE
    Crashes = 0
PROPERTIES
    RunningMatchIsNotRestarted
CHECK_DEADLOCK FALSE
