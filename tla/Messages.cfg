SPECIFICATION SumSpec
CONSTANTS
    MaxStreams = 3
    MaxPrompts = 2
    MaxClicks = 1
    h1 = h1
    h2 = h2
    m1 = m1
    m2 = m2
    Handlers = {h1, h2}
    Messages = {m1, m2}
INVARIANTS
    CountdownIsCurrent
PROPERTIES
    PromptsAreResolved
    SwappedInKeepsItsCard
    CommandIsAnswered
CHECK_DEADLOCK FALSE
