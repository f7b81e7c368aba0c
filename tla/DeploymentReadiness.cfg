\* One replica that is probed while PostgreSQL and Redis come and go.
CONSTANTS
    Replicas = {x}
SPECIFICATION FairSpec
INVARIANTS
    UnreadyIfAnythingIsDown
