\* Three tasks for one connection to PostgreSQL and one to Redis. No symmetry: liveness is checked.
CONSTANTS
    Tasks = {t1, t2, t3}
    DbMax = 1
    RedisMax = 1
SPECIFICATION FairSpec
INVARIANTS
    HoldsOnlyWhatItUses
PROPERTIES
    EveryTaskEnds
