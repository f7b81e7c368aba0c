\* A click is counted by the handler and by the worker.
CONSTANTS
    Events = {e1}
    Codes = {a}
    MaxUrls = 1
    QueueSize = 1
    BatchSize = 1
    Deletes = FALSE
    DbFaults = FALSE
    Crashes = FALSE
    Shutdown = FALSE
SPECIFICATION Spec
INVARIANTS
    ClickCountIsClicks
CHECK_DEADLOCK FALSE
