--------------------------- MODULE ConnectionPools ---------------------------
(***************************************************************************)
(* The two connection pools of a replica and the requests that share them. *)
(* A session (get_db of app/db/database.py) takes a connection with its    *)
(* first statement and keeps it until it commits or is closed, whatever    *)
(* else the request does meanwhile; if none is free it waits, at most      *)
(* pool_timeout.  The pool of Redis (app/cache/redis_client.py) raises at  *)
(* once.  Requests, the worker's flushes and readiness probes are all      *)
(* tasks here; of what they compute only the order of their calls counts.  *)
(***************************************************************************)
EXTENDS Naturals, FiniteSets

CONSTANTS
    Tasks,      \* places for requests, flushes and probes under way
    DbMax,      \* pool_size + max_overflow
    RedisMax    \* max_connections

ASSUME PoolsAssumption ==
    /\ IsFiniteSet(Tasks)
    /\ DbMax \in Nat \ {0} /\ RedisMax \in Nat

VARIABLES
    op,         \* op[t]: what t is, "none" if there is no such task
    at,         \* at[t]: the call t makes, "close" when it is over
    db,         \* the tasks that hold a connection to PostgreSQL
    redis       \* the tasks that hold a connection to Redis

vars == <<op, at, db, redis>>

Ops == {"redirect", "details", "create", "delete", "read", "probe", "flush"}
RedisCalls == {"count", "record", "get", "fill", "drop", "ping"}
SqlCalls == {"lookup", "exists", "insert", "refresh", "increment", "purge", "select", "write"}
Commits == {"insert", "increment", "purge", "write"}

TypeOK ==
    /\ op \in [Tasks -> Ops \cup {"none"}]
    /\ at \in [Tasks -> RedisCalls \cup SqlCalls \cup {"close", "idle"}]
    /\ {db, redis} \subseteq SUBSET Tasks

Init ==
    /\ op = [t \in Tasks |-> "none"]
    /\ at = [t \in Tasks |-> "idle"]
    /\ db = {} /\ redis = {}

-----------------------------------------------------------------------------
(* The order of the calls of each operation                                *)

(* The routes that depend on enforce_rate_limit; "read" is the listing or  *)
(* the analytics of a URL.                                                 *)
Limited == {"details", "create", "read"}

(* The first call of the handler itself.                                   *)
Handler(o) ==
    CASE o \in {"redirect", "details"} -> "get"
      [] o = "create" -> "exists"
      [] o = "delete" -> "purge"
      [] o \in {"read", "probe"} -> "select"
      [] o = "flush" -> "write"

First(o) == IF o \in Limited THEN "count" ELSE Handler(o)

(* A create reads its row back, a delete invalidates, others are done.     *)
AfterCommit(o, c) ==
    {CASE o = "create" -> "refresh"
       [] o = "delete" -> "drop"
       [] OTHER -> "close"}

(* What may follow call c when it is answered: for instance, a redirect    *)
(* finds a live copy, an expired one, or none.  The SELECTs that generate  *)
(* a code count as one call, and so do those of an analytics summary.      *)
Then(o, c) ==
    CASE c = "count" -> {"record", "close"}
      [] c = "record" -> {Handler(o)}
      [] c = "get" -> IF o = "redirect" THEN {"increment", "drop", "lookup"} ELSE {"drop", "lookup"}
      [] c = "lookup" -> {"fill", "drop"}
      [] c = "fill" -> {IF o = "redirect" THEN "increment" ELSE "close"}
      [] c = "drop" -> {IF o = "redirect" THEN "purge" ELSE "close"}
      [] c = "exists" -> {"insert"}
      [] c = "refresh" -> {"fill"}
      [] c = "select" -> {IF o = "probe" THEN "ping" ELSE "close"}
      [] c \in Commits -> AfterCommit(o, c)
      [] OTHER -> {"close"}

(* What follows when Redis fails: the limiter lets the request pass, the   *)
(* cache has nothing, and a write to it is given up.                       *)
Otherwise(o, c) ==
    CASE c \in {"count", "record"} -> {Handler(o)}
      [] c = "get" -> {"lookup"}
      [] OTHER -> Then(o, c)

(* The session gives its connection back after a commit; the probe's block *)
(* ends before it pings Redis.                                             *)
Releases(o, c) == c \in Commits \/ (o = "probe" /\ c = "select")

-----------------------------------------------------------------------------
(* A request arrives, the worker has a batch, or a probe comes.            *)
Begin(t) ==
    /\ at[t] = "idle"
    /\ \E o \in Ops : op' = [op EXCEPT ![t] = o] /\ at' = [at EXCEPT ![t] = First(o)]
    /\ UNCHANGED <<db, redis>>

GoOn(t, next) == \E c \in next : at' = [at EXCEPT ![t] = c]

(* A Redis call takes a connection of its own ...                          *)
CallRedis(t) ==
    /\ at[t] \in RedisCalls /\ t \notin redis
    /\ Cardinality(redis) < RedisMax
    /\ redis' = redis \cup {t}
    /\ UNCHANGED <<op, at, db>>

(* ... or raises because all are in use.                                   *)
RedisRefuses(t) ==
    /\ at[t] \in RedisCalls /\ t \notin redis
    /\ Cardinality(redis) = RedisMax
    /\ GoOn(t, Otherwise(op[t], at[t]))
    /\ UNCHANGED <<op, db, redis>>

(* Redis answers, or the socket timeout ends the call.                     *)
RedisAnswers(t) ==
    /\ t \in redis
    /\ redis' = redis \ {t}
    /\ GoOn(t, Then(op[t], at[t]) \cup Otherwise(op[t], at[t]))
    /\ UNCHANGED <<op, db>>

(* A task whose session needs a connection and has none                    *)
Waiting(t) == at[t] \in SqlCalls /\ t \notin db

(* The pool is not a fair queue: any of those that wait gets what is free. *)
Connect(t) ==
    /\ Waiting(t)
    /\ Cardinality(db) < DbMax
    /\ db' = db \cup {t}
    /\ UNCHANGED <<op, at, redis>>

(* Variant: no pool_timeout.                                               *)
PoolTimeout_Never(t) == FALSE

(* pool_timeout has passed: the exception ends the request.                *)
PoolTimeout(t) ==
    /\ Waiting(t)
    /\ Cardinality(db) = DbMax
    /\ at' = [at EXCEPT ![t] = "close"]
    /\ UNCHANGED <<op, db, redis>>

SqlAnswers(t) ==
    /\ at[t] \in SqlCalls /\ t \in db
    /\ GoOn(t, Then(op[t], at[t]))
    /\ db' = IF Releases(op[t], at[t]) THEN db \ {t} ELSE db
    /\ UNCHANGED <<op, redis>>

(* The statement fails, or there is nothing more to do: code taken, no row,*)
(* an empty batch.                                                         *)
SqlEnds(t) ==
    /\ at[t] \in SqlCalls /\ t \in db
    /\ at' = [at EXCEPT ![t] = "close"]
    /\ UNCHANGED <<op, db, redis>>

(* The end of get_db's block, or of the worker's or the probe's            *)
Close(t) ==
    /\ at[t] = "close"
    /\ op' = [op EXCEPT ![t] = "none"]
    /\ at' = [at EXCEPT ![t] = "idle"]
    /\ db' = db \ {t}
    /\ UNCHANGED redis

(* Variant: get_db has no block around its yield.                          *)
Cancel_NoClose(t) ==
    /\ at[t] \notin {"idle", "close"}
    /\ op' = [op EXCEPT ![t] = "none"]
    /\ at' = [at EXCEPT ![t] = "idle"]
    /\ redis' = redis \ {t}
    /\ UNCHANGED db

(* The task is cancelled: the block closes its session all the same.       *)
Cancel(t) ==
    /\ at[t] \notin {"idle", "close"}
    /\ at' = [at EXCEPT ![t] = "close"]
    /\ redis' = redis \ {t}
    /\ UNCHANGED <<op, db>>

Proceed(t) ==
    \/ CallRedis(t) \/ RedisRefuses(t) \/ RedisAnswers(t)
    \/ Connect(t) \/ PoolTimeout(t) \/ SqlAnswers(t) \/ SqlEnds(t) \/ Close(t)

Next == \E t \in Tasks : Begin(t) \/ Proceed(t) \/ Cancel(t)

Spec == Init /\ [][Next]_vars

(* Each call of a task ends: Redis and the pool have their timeouts, and   *)
(* PostgreSQL answers or the connection breaks.                            *)
FairSpec == Spec /\ \A t \in Tasks : WF_vars(Proceed(t))

-----------------------------------------------------------------------------
(* No pool is overdrawn.                                                   *)
WithinLimits == Cardinality(db) <= DbMax /\ Cardinality(redis) <= RedisMax

(* A task that is over has left no connection behind, one that holds a     *)
(* connection to PostgreSQL while it talks to Redis is filling the cache,  *)
(* or dropping an entry of it, after a read of its own, and no one waits   *)
(* for PostgreSQL with a connection to Redis in hand: a slow database does *)
(* not use up the pool of Redis, and no two tasks wait for each other.     *)
HoldsOnlyWhatItUses ==
    /\ WithinLimits
    /\ \A t \in Tasks :
        /\ at[t] = "idle" => t \notin db \cup redis
        /\ t \in db /\ at[t] \in RedisCalls =>
               at[t] \in {"fill", "drop"} /\ op[t] \in {"redirect", "details", "create"}
        /\ t \in redis => at[t] \in RedisCalls

(* Every request, flush and probe ends, however full the pools are.        *)
EveryTaskEnds == \A t \in Tasks : at[t] # "idle" ~> at[t] = "idle"

=============================================================================
