\* One reader at a time, listing or asking for analytics, while rows come and go.
CONSTANTS
    Urls = {u1, u2, u3, u4}
    Codes = {a, b, c}
    Referrers = {s, t}
    Agents = {m, n}
    Readers = {q}
    Limits <- SomeLimits
    MaxPage = 2
    TopGroups = 1
    MaxTime = 2
    MaxRead = 2
    MaxClicks = 2
SYMMETRY Symmetry
CONSTRAINTS
    ReadersBusy
    FewClicks
SPECIFICATION Spec
INVARIANTS
    TypeOK
    WalkFaultsExplained
    ReportConsistent
CHECK_DEADLOCK FALSE
