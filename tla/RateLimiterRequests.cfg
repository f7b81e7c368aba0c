CONSTANTS
    Requests = {r1, r2, r3, r4, r5}
    Limit = 1
    Window = 2
    MaxInFlight = 2
    MaxLatency = 2
    MaxTime = 5
    RedisFaults = TRUE
SYMMETRY Symmetry
SPECIFICATION Spec
INVARIANTS
    RejectionJustified
    LogBounded
    WindowOverrun
CHECK_DEADLOCK FALSE
