\* Two replicas that start, crash and stop during outages and migrations. No symmetry: liveness is checked.
CONSTANTS
    Replicas = {x, y}
SPECIFICATION FairSpec
INVARIANTS
    SchemaComplete
    RecordNeverAhead
    CleanShutdown
PROPERTIES
    LifespanCompletes
