\* Two workers' flushes, a redirect and a delete on two URLs. No symmetry: liveness is checked.
CONSTANTS
    Flushes = {f1, f2}
    Redirects = {r1}
    Deletes = {d1}
    Urls = {a, b}
    MaxBatch = 2
    MaxCount = 3
SPECIFICATION FairSpec
INVARIANTS
    RollbackExplained
    CountsAgree
PROPERTIES
    EveryTransactionEnds
CHECK_DEADLOCK FALSE
