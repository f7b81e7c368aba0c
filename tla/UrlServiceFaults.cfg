\* Everything may interleave and fail: three requests at a time, one code.
CONSTANTS
    Requests = {r1, r2, r3, r4}
    Codes = {a}
    NoRow = none
    Kinds = {"custom", "generate", "details", "redirect", "delete"}
    MaxAttempts = 2
    MaxInFlight = 3
    RedisFaults = TRUE
    Aborts = TRUE
SYMMETRY Symmetry
CONSTRAINTS
    OneWayOfCreating
SPECIFICATION Spec
INVARIANTS
    DetailsFresh
    ExpiredNeverServed
    AcknowledgedUrlIsDurable
    ServedUrlWasRegistered
    NoClickLost
PROPERTIES
    ImplementsRegistry
    StaleCopyNotRenewed
    LiveUrlsAreLeftAlone
CHECK_DEADLOCK FALSE
