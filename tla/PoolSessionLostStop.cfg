SPECIFICATION Spec
CONSTANTS
    c1 = c1
    Callers = {c1}
    MaxStreams = 2
    OverlapStarts = FALSE
    SlowTeardown = FALSE
INVARIANTS
    StoppedIsStopped
