SPECIFICATION Spec
CONSTANTS
    c1 = c1
    c2 = c2
    Callers = {c1, c2}
    MaxStreams = 3
    OverlapStarts = TRUE
    SlowTeardown = FALSE
INVARIANTS
    SwapTearsDown
