\* Two requests at a time: the expiry cleanup deletes by code.
CONSTANTS
    Requests = {r1, r2, r3, r4}
    Codes = {a}
    NoRow = none
    Kinds = {"custom", "redirect", "delete"}
    MaxAttempts = 2
    MaxInFlight = 2
    RedisFaults = FALSE
    Aborts = FALSE
SPECIFICATION Spec
PROPERTIES
    OnlyDeletedOrExpiredVanish
CHECK_DEADLOCK FALSE
