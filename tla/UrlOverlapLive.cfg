\* Three requests at a time, Redis may fail, with the history of who overlapped whom. No symmetry: liveness.
CONSTANTS
    Requests = {r1, r2, r3}
    Codes = {a}
    NoRow = none
    Kinds = {"generate", "details", "redirect", "delete"}
    MaxAttempts = 2
    MaxInFlight = 3
    RedisFaults = TRUE
    Aborts = FALSE
SPECIFICATION FairOverlapSpec
INVARIANTS
    ServerErrorExplained
    StaleCopyHasCause
PROPERTIES
    EveryRequestAnswered
CHECK_DEADLOCK FALSE
