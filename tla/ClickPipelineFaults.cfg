\* Deletions, failing transactions, crashes and shutdown, all at once. Liveness: the symmetry is in the initial states.
CONSTANTS
    Events = {e1, e2, e3}
    Codes = {a, b}
    MaxUrls = 2
    QueueSize = 2
    BatchSize = 2
    Deletes = TRUE
    DbFaults = TRUE
    Crashes = TRUE
    Shutdown = TRUE
SPECIFICATION FairSpecTwoAlike
INVARIANTS
    Fifo
    EventLedger
    CountsMatchRows
    AtMostOneBatchCancelled
PROPERTIES
    EveryEventSettled
    ShutdownCompletes
CHECK_DEADLOCK FALSE
