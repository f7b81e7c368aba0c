# A TLA+ model of the URL shortener

The specifications in this directory model the FastAPI URL shortener under
`src/app`: the handlers and their cache, the pipeline that counts clicks and the
row locks under it, the listing and the analytics, the rate limiter, the circuit
breaker, the connection pools, and the life of the replicas with their schema.
TLC checks them on small instances; TLAPS proves every safety property the passing
runs check, and the refinement of an abstract registry of links, for all values of the
constants. `PROJECT.json` lists components, runs, variants, the mapping from
definitions to source lines, findings, hazards and theorems.

## 1. Inventory

| Component | State | Operations | Interacts with |
|---|---|---|---|
| `services/url_service.py` URLService | none of its own; locals of each request | create, get, redirect, delete, list | repository and cache, one `await` at a time |
| `repositories/url_repository.py` | the `urls` table (`db/models.py`) | one statement and commit per method | PostgreSQL, shared by all replicas |
| `cache/url_cache.py` | Redis keys `url:{code}`, TTL 24 h | get, set, delete, all swallow errors | Redis, shared by all replicas |
| `routes/url.py` | none | five endpoints, exceptions to statuses | limiter, service, event bus |
| `events/event_bus.py` EventBus | bounded queue in memory | publish, get_batch | redirect handlers, worker |
| `workers/analytics_worker.py` | `_running`, the task, the batch in hand | start, loop, flush, stop | bus, `clicks` and `urls` tables |
| `main.py` lifespan | tables, worker, pools | startup, shutdown | all of the above |
| `middleware/rate_limiter.py`, `dependencies.py` | Redis sorted set per client | is_allowed | Redis |
| `middleware/circuit_breaker.py` | state, two counters, a time | call | nothing: it is tested, but not wired in |
| `db/database.py`, `cache/redis_client.py` | connection pools | a session per request, a Redis client | PostgreSQL, Redis |
| `services/analytics_service.py` | none | four reads | both tables |
| `routes/health.py` | none | liveness, readiness | PostgreSQL, Redis |
| `middleware/auth.py`, `core/*`, `schemas/*`, logging | none | pure functions, formatting | - |
| `alembic/`, nginx, docker, load tests | schema, deployment | - | - |

What is hard in this code:

- **Two stores without a transaction over both.** Each handler is a sequence of
  database commits and Redis calls with an `await` between any two; requests of
  one replica and of several interleave at each of them, and a request may die
  at each of them. The cache may hold copies of rows that are gone.
- **Deleting and counting by code, not by row.** The code looks a row up and
  later acts on "the row under this code", which may be another one.
- **Two writers of one counter**, the handler and the worker, and a queue in
  memory between them, with batches, rollbacks, cancellation and restarts.
- **Check, then act, across a round trip** in the limiter and in `create`.
- **Results that arrive in another state** than the call began in (breaker).
- **Row locks** taken by several statements of a batch, in an order the clicks
  decide, against other batches, redirects and deletes.
- **Reads of several statements or requests** (pages, reports) of tables that
  change in between.
- **Two kinds of connections held at a time**, from pools that time out or refuse.
- **Replicas that start, stop and crash independently**, creating the schema a
  migration also changes.

What makes each component correct is stated as properties in its module and
summarised in section 3; the hazards behind them are in `PROJECT.json`, each at
its line.

## 2. Modules

| Module | Models | State |
|---|---|---|
| `UrlModel` | rows of `urls` and their expiry | `expired` |
| `UrlRepository` | the repository methods as atomic transactions | `db`, `removed`, `credit` |
| `UrlCache` | the cache methods; with `RedisFaults` any call may fail | `cache` |
| `UrlService` | the four handlers over both stores, extends the three above | per request: `kind`, `pc`, `code`, `attempts`, `url`, `outcome`, `before` |
| `UrlOverlap` | `UrlService` with a history of who overlapped whom | `busy`, `unheard` |
| `LinkRegistry` | abstract: what the shortener promises, each request in one step | `binding`, `ever`, `credit`, per request `role`, `target`, `answer` |
| `ClickPipeline` | redirect handler, event bus, worker, shutdown and crash | see the module |
| `FlushLocks` | the writing transactions of several replicas with their row locks | `stored`, `clickCount`, `rows`, per transaction `status`, `batch`, `done`, `ahead`, per row `held`; `waiting` |
| `TableReads` | walks over the pages, and analytics reports, while the tables change | both tables, per reader `pc`, `walk`, `report`, `changes` |
| `RateLimiter` | `is_allowed` for one client | `clock`, `log`, `expireAt`, per request `pc`, `now`, `decision` |
| `CircuitBreaker` | the breaker under concurrent calls | the four attributes, `running` |
| `ConnectionPools` | the calls of requests, flushes and probes over both pools | per task `op`, `at`; `db`, `redis` |
| `Deployment` | lifespan, readiness and migrations of several replicas | `tables`, `version`, `dbUp`, `answer`, per replica `pc`, `missing`, `schema`, `session`, `pooled` |
| `MC*` | symmetry sets and constraints for TLC | |
| `*Proofs` | theorems | |

Definitions whose name has a suffix after an underscore, such as
`Insert_Upsert`, are **variants**: what the definition of that name would be
with a plausible bug in it. No specification uses them; each is there to show
that one property fails if the code had that bug (`mutants` in `PROJECT.json`).

### UrlService and the modules under it

*Steps.* An action is what a handler does between two awaits on PostgreSQL or
Redis. A repository method is one SQL statement and its commit, so it is one
step, apart from `create`, whose `session.refresh` is a second statement in a
transaction of its own (`Insert`, `Refresh`). PostgreSQL runs them at READ
COMMITTED; single statements on one row are atomic.

*Rows.* A row is named by the request that inserts it, since a request inserts
at most one. That name stands for `id`, `original_url` and `expires_at`, so a
cache entry, which is a copy of those, is the row it is a copy of. `expired` is
the set of rows whose `expires_at` has passed; the copy carries the same
`expires_at`, so both expire together. `click_count` is kept as the set of
requests that increased it (`credit`), so that a click counted on the wrong row
shows. `removed` and `before` are history: what was deleted so far, and what
had happened when a request came in.

*Faults.* With `RedisFaults` a read may answer a miss and a write may do
nothing, and the handler goes on, as the code does. With `Aborts` a request may
stop before any of its steps: a crash of the replica, an error of the database,
a cancellation; the session is closed and what was committed stays.

*Replicas.* All replicas share both stores and keep no URL state, so requests
in flight stand for requests on any number of replicas.

*Overlaps.* `UrlOverlap` adds two history variables to the same actions: `busy`,
the requests in flight when a request began, and `unheard`, the requests whose
DEL of a cache entry Redis did not carry out. They restrict nothing. With them the
module can name the cause of what goes wrong: `ServerErrorExplained` says which
other request is behind an answer of 500, `StaleCopyHasCause` which request, and
which failure or overlap, is behind a copy of a row that is gone. What handlers
do that neither overlap nor fail is the case in which no such cause exists.

### LinkRegistry

The abstract specification that `UrlService` implements. It has no cache, no
steps and no failures: a code is bound to at most one link, and each request
takes effect at one instant. `Registry` in `UrlService` maps `binding` to the
rows PostgreSQL stores and `answer` to the row a handler holds (when it finds
it, not when the response leaves); `ever` is what was committed under a code.
The instant of a create is its INSERT, that of a lookup its SELECT, of a delete
its DELETE; filling and emptying the cache and all failures are stuttering. Two
things the abstraction gives away, because the code does: `Recall`, a redirect
may answer with any link its code ever had (a stale cache entry), while a lookup
of the details may not; and `Release`, a redirect that has found an expired
link unbinds whatever is bound then.

### ClickPipeline

One replica. `Count` is the part of the redirect handler that commits the
increment of `click_count`, `Publish` the part after it. The worker's position
is `pc`; `phase` says whether `stop()` was called and how far it is. The flush
has two steps: `Resolve`, the SELECT that maps codes to ids, and `Write`, the
INSERT, the UPDATEs by code and the COMMIT. They are one step because the INSERT
takes key-share locks on the URLs it refers to: from then on no such URL can be
deleted, so the UPDATEs see the URLs the rows refer to. If one of the URLs has
gone before the INSERT, the foreign key fails the transaction. `FlushFails` is a
failure of the database; the exception ends in `_flush_batch` or, when the
rollback fails as well, in the loop, which pauses for a second. `StopCancels`
delivers the cancellation at whatever the loop awaits; `StopSwallowed` is the
case in which `asyncio.wait_for` (Python 3.11) returns the event it already has
instead. `served`, `accepted` and `fate` are history.

A redirect may be served from a cache entry whose row is gone: `Count` needs only
that a URL was ever stored under the code (`known`), and increments the counter of
whatever URL has the code by then, or of none, before the event goes on the bus.
A `Crash` may come at any time before the worker has stopped: a replica that
serves is restarted, one that was told to stop stays down.

### FlushLocks

Below the atomic `Write` of `ClickPipeline`: one action per statement that takes
a row lock. A flush inserts its clicks at the autoflush before its first UPDATE,
taking a key-share lock on the URL of each, then issues one UPDATE per URL in the
order of `code_counts`, which is the order in which the codes first occur in the
batch. `done` is the place in the batch of the last statement, counted on past the
end of the batch for the UPDATEs, so that `Place` is that of the next one. The
batch is what the SELECT has left of it: URLs that are stored when it begins. A redirect's UPDATE and a delete are
transactions of one such step. `Conflict`, `Holders`, `Before` and `WaitsFor` are
PostgreSQL's: a request waits for the holders of conflicting locks and behind
earlier waiters in its way, unless it already holds a lock on the row; a cycle
of waiters is broken by rolling back one of its members (`BreakDeadlock`). A
statement fails if its URL is gone (foreign key) or its counter would leave the
range of the column (`Overflows`, `MaxCount`); the code rolls back the batch.
`waiting` are those in a line and `ahead` who came before them; `WaitsOn`, which
decides about deadlocks, is reachability along `WaitsFor`, said by the sets
closed under it.

### TableReads

A client of the listing asks for page after page, each behind the rows it got so
far. `created` is `created_at`, that is `now()` of the transaction the existence
check began, so `BeginCreate` fixes it and `CommitCreate` makes it visible, in
any order. `Pages` are the results ORDER BY ... OFFSET ... LIMIT may have: rows
with equal times come in any order, which may change from page to page. A report
is four statements, each on what is committed at that moment. A click comes from a
source, that is a referrer and an agent; the clicks of a row are a set for each
source, each click named by the count it made, so that a report counts clicks and
not numbers. `RankReferrers` and `RankAgents` group the same clicks by different
columns (`ByReferrer`, `ByAgent`) and cut each ranking at `TopGroups`, so the sums of
the two need not agree. `reading` keeps
the two halves apart, which share no variable that both depend on. `changes`,
`report.start` and `walk.seen`, the offsets of the pages a row was on, are
history.

### ConnectionPools

Every task is a sequence of calls: `First`, `Then` and `Otherwise` are the order
in which the handlers, the limiter before them, the worker and the probe make
them. A session takes its connection with its first statement (`Connect`) and
gives it back at a commit or when it is closed; the pool makes a task wait up to
`pool_timeout`, the pool of Redis raises at once. Repeated SELECTs without a call
to Redis in between count as one.

### Deployment

A replica's `pc` follows `lifespan`. `create_all` looks which tables exist
(`Inspect`) and then creates the missing ones in one transaction
(`CreateTables`); between the two another replica or a migration may have been
faster, and then, as after any other failure, the exception is printed and the
replica serves. `session` is the one database session the worker may have open: a
flush begins (`BeginFlush`), connects if PostgreSQL answers, and ends however it
ends (`EndFlush`); an outage breaks open sessions. `stop()` waits for the loop
(`StopWorker`), then `Drain` flushes what is left on the bus, if anything is. A
broken session may fail its rollback as well; in the loop that is logged, but the
last flush passes it on: `stop()` raises, the lifespan ends as `failed`, and
`engine.dispose()` and `close_redis_pool()` (`main.py:69-71`) are not reached.
Each migration run is a
transaction; `create_urls_table` creates nothing, so an upgrade succeeds only on a
database that has `urls` and not `clicks`: not on an empty one, and not after a
replica has created both. `Readiness` asks both stores; PostgreSQL decides the
status, and whether PING fails only shows in the components of the `answer`.

### RateLimiter

A client's sorted set; keys of different clients do not interact. `now[r]` is
read before the first pipeline; `Check` and `Record` are the pipelines, which
Redis runs atomically. Time is discrete; an evaluation takes at most
`MaxLatency`, which the socket timeout of 2 seconds justifies, and Redis, the
replicas and the key expiry share one clock. A key lives one second longer than
its window, so an evaluation of two seconds may find it gone. `FailOpen` is a failed round trip, before or
after Redis ran it.

### CircuitBreaker

`call` up to its `await` is `HalfOpen` or `Admit`; the result, reported in
whatever state the breaker has by then, is `OnSuccess`, `OnFailure` or, when the
task is cancelled, which runs neither handler, `Cancelled`. `age` is the time
since `last_state_change`, up to `Recovery`, after which it makes no difference.
`failureCount` stops at the threshold: the code's counter goes on growing while
the breaker is not closed but is reset before it is compared again.

## 3. Runs

| Run | Shows | Bounds |
|---|---|---|
| `UrlServiceFaults` | `DetailsFresh`, `ExpiredNeverServed`, `AcknowledgedUrlIsDurable`, `ServedUrlWasRegistered`, `NoClickLost`, `StaleCopyNotRenewed`, `LiveUrlsAreLeftAlone`, and the refinement `ImplementsRegistry`, under every interleaving and fault | 4 requests, 3 at a time, 1 code |
| `UrlOverlapLive` | `ServerErrorExplained`, `StaleCopyHasCause`, `EveryRequestAnswered` with a failing Redis | 3 requests at a time, 1 code, 2 attempts |
| `ClickPipelineFaults` | `Fifo`, `EventLedger`, `CountsMatchRows`, `AtMostOneBatchCancelled`, `EveryEventSettled`, `ShutdownCompletes` with deletions, failures, crashes, shutdown | 3 events, 2 codes, 2 URL ids, queue 2, batch 2 |
| `RateLimiterRequests` | `RejectionJustified`, `LogBounded`, `WindowOverrun` with failing round trips | 5 requests, 2 at a time, limit 1, window 2, latency 2, 5 ticks |
| `CircuitBreakerCalls` | `ClosedBelowThreshold`, `OpenShields`, `ProbesClose`, `FailuresTrip`, `Recovers` | 2 calls, thresholds 3 and 2 |
| `FlushLocksReplicas` | `RollbackExplained`, `CountsAgree`, `EveryTransactionEnds` | 2 flushes of up to 2 events, 1 redirect, 1 delete, 2 URLs, `MaxCount` 3 |
| `TableReadsConcurrent` | `TypeOK` (with the page cap), `WalkFaultsExplained`, `ReportConsistent` | 1 reader, 4 rows, 3 codes, pages of 2, 3 times; reports over 2 rows, 2 referrers, 2 agents, rankings of 1, 2 increments a counter, 3 in all |
| `DeploymentReplicas` | `SchemaComplete`, `RecordNeverAhead`, `CleanShutdown`, `LifespanCompletes` | 2 replicas |
| `ConnectionPoolsBusy` | `HoldsOnlyWhatItUses`, `EveryTaskEnds` | 3 tasks, 1 connection in each pool |

*Why the bounds are enough.* A conflict in `UrlService` needs a row, a second
row under the same code, and two requests that look at them at different times:
four requests, with three in flight. Codes interact only through the generator,
which may draw the same code again, so one code is enough for it to find its draw
taken until its attempts run out. `OneWayOfCreating` lets the creates of a
behaviour be all custom or all generated, since they go on alike once they have a code. In `UrlOverlapLive` three requests that all
overlap make a stale copy (a create, a reader, a delete) and both kinds of 500. The queue of
2 and batch of 2 make a full queue that refuses an event, a partial batch, and a
batch under way with an event waiting; two ids give a re-created code. Events are
interchangeable and so are codes, and of three events two have the same code, so
`MCClickPipeline` begins with all events but one at the same code (`TwoAlike`): a
reduction of the initial states, which liveness allows where `SYMMETRY` does not. The
limiter's 5 ticks cover two whole windows and a key that expired in between, a
latency of 2 outlasts the key, and its 5 requests exceed the 4 that
`WindowOverrun` then allows in one window; the bound is attained. In `FlushLocks` two flushes of two events are what it takes to
lock two rows in opposite orders, with a redirect and a delete in each other's
way; `MaxCount` 3 leaves room for one batch on a URL and the redirect, not for two. A page
of 2 over 4 rows needs three requests, between which rows come and go; a limit
of 3 is above the cap of 2 and -1 is refused. Readers do not see one another, so
one is enough, and the constraint `ReadersBusy` stops a behaviour when it has its
answer. Two referrers and two agents with rankings of one group make rankings that
are cut off and that are not; `FewClicks` allows three increments, enough for one
group to have more clicks than another and for a second row under the same code.
One connection for three tasks makes every pool as full as it can be; the proofs
cover other sizes. `MaxUrls`, `MaxTime`,
`MaxInFlight`, `MaxBatch`, `MaxRead`, `MaxClicks` and the finite sets of
requests, events, rows and tasks are the only bounds.

*Deadlock* is not checked (`CHECK_DEADLOCK FALSE`) because each model ends when
its finite supply of requests, events or ticks does; that requests and the
worker do not block is stated as liveness instead. The breaker, the pools and the
deployment have no such end, and their runs check deadlock.

### Disagreements between code and documents

Three runs find a behaviour of the code that a document, comment or test of the
repository excludes; `findings` in `PROJECT.json` quotes the line.

| Run | Property | Behaviour |
|---|---|---|
| `UrlServiceLostUrl` | `OnlyDeletedOrExpiredVanish` | the expiry cleanup deletes a new URL under the same code |
| `ClickPipelineDoubleCount` | `ClickCountIsClicks` | a click is counted by the handler and by the worker |
| `DeploymentReadiness` | `UnreadyIfAnythingIsDown` | the readiness probe answers 200 although Redis is down |

What does hold of the first is `LiveUrlsAreLeftAlone`: a URL is only lost like that,
or denied because of a stale cache entry, if an expired URL had its code before.

Others are built into what the specifications say and have no run of their own:

- A reader may put a row back into the cache after it was deleted and its entry
  invalidated, and redirects follow it for up to 24 hours, against
  `docs/01_system_design_deep_dive.md:125`. `Recall` of `LinkRegistry` is this.
  `StaleCopyHasCause` says what it takes, and `StaleCopyNotRenewed` that no hit
  prolongs it: the entry ends with the TTL it was first given. That Redis keeps to
  the TTL is not claimed, and how long it is not modelled.
- Of two concurrent creates of one custom code the loser gets 500, not the 409 of
  `tests/test_create_url.py:181`: nothing turns the IntegrityError into a
  conflict. `ServerErrorExplained` says that this, and a row that is deleted before
  `session.refresh` reads it back, are the only 500s of requests that run to their
  end, apart from a generator that gives up.
- `stop()` cancels a flush and loses its batch, although
  `analytics_worker.py:51` says "Graceful drain"; `AtMostOneBatchCancelled` says
  that this is all it loses.
- The limiter is not "Perfectly accurate" (`rate_limiter.py:20`): concurrent
  requests exceed the limit by what `WindowOverrun` says.
- A session keeps its connection while a handler fills the cache, so connections
  are not "returned to the pool immediately after query completion"
  (`docs/05_locust_observations_and_analysis.md:73`); `HoldsOnlyWhatItUses`
  names the calls during which they are held.
- A last flush whose rollback fails makes `stop()` raise, and the engine and the
  Redis pool are not closed; `CleanShutdown` excepts exactly this case.
- The readiness probe asks for no table: a replica that started while PostgreSQL was
  down is ready once it is back, and nothing creates the tables then.
- The migration `create_urls_table` creates no table.
- A click waiting on the bus when its code is deleted and registered again is
  recorded for the new URL (`CountsMatchRows` counts rows, not clicks, on the
  side of the worker). Clicks on the bus or in a flush die with the replica
  (`EventLedger` accounts for them). A call begun before the breaker tripped that
  returns while it is half open counts as a probe (the exception in `ProbesClose`).

### Fairness

- `UrlService`: every step of a request is weakly fair, because asyncio runs a
  coroutine whose await has been answered and every await has a timeout or is
  answered. Arrivals, expiries, aborts and the loss of cache entries (`CacheTTL`)
  are not.
- `ClickPipeline`: the worker as a whole, and each handler that has counted its
  click. A failure may be the worker's step every time; `EveryEventSettled`
  therefore speaks of events that were given up, too.
- `FlushLocks`: each transaction's next step, since PostgreSQL grants a free lock,
  fails a statement or, after `deadlock_timeout`, breaks a cycle; and the code
  commits what it has begun. When transactions begin is up to the clients.
- `ConnectionPools`: each task's next call, because `pool_timeout` (30 s) ends the
  wait for a connection, `socket_timeout` (2 s) that for Redis, and a statement is
  answered or its connection breaks. Weak fairness is enough: a task that waits can always
  either connect or time out.
- `Deployment`: a started lifespan, each of whose calls ends in an answer or an
  exception. Probes, new flushes, crashes, outages, migrations and the decision to
  stop are not fair.
- `TableReads`: none, its properties are safety.
- `CircuitBreaker`: only the clock. `Recovers` assumes in its own statement that
  calls stop failing and go on succeeding.

## 4. Proofs

| Module | Theorems |
|---|---|
| `UrlServiceProofs` | `TypeCorrect`, `DetailsAreFresh`, `ExpiredUrlsAreNeverServed`, `AcknowledgedUrlsAreDurable`, `ServedUrlsAreRegistered`, `ClicksAreCounted`, `StaleCopiesAreNotRenewed`, `LiveUrlsLeftAlone`; of `UrlOverlap`: `ServerErrorsAreExplained`, `StaleCopiesHaveACause`; the refinement: `HandlersImplementRegistry` |
| `RateLimiterProofs` | `TypeCorrect`, `KeysExpire`, `LogStaysBounded`, `RejectionsAreJustified`, `WindowOverrunIsBounded` |
| `CircuitBreakerProofs` | `BreakerTypeCorrect`, `ClosedStaysBelow`, `OpenBreakerShields`, `ClosingIsEarned`, `TrippingIsEarned` |
| `ClickPipelineProofs` | `PipelineTypeCorrect`, `EventsStayInOrder`, `EventsAreAccounted`, `OneBatchIsCancelled`, `CountsAgreeWithRows` |
| `DeploymentProofs` | `DeploymentTypeCorrect`, `StartupsCompleteTheSchema`, `RecordIsNeverAhead`, `ShutdownIsClean` |
| `ConnectionPoolsProofs` | `PoolsTypeCorrect`, `ConnectionsAreAccountedFor` |
| `FlushLocksProofs` | `CountersAgreeWithClicks`, `RollbacksHaveReasons`, `NobodyIsStuck` |
| `TableReadsProofs` | `ReadsHaveTypes`, `ReportsAreConsistent`, `WalksAreFaithful` |

*Assumptions.* Only the named `ASSUME`s of the modules: `NoRow` is not a
request, the switches are Boolean, thresholds, limits and sizes are positive, the
requests of a client, the tasks of a replica, the events of the pipeline, the
redirects that increment a counter, the rows and the referrers and agents of clicks
are finite in number. In `UrlService` the sets of requests and codes, in
`Deployment` that of replicas, in `FlushLocks` those of flushes, deletes and URLs,
and in `TableReads` those of readers and codes may be infinite. No theorem restricts
how many requests are in flight or which failures there are.

*UrlService.* `TypeOK` is inductive once a request that still looks for a code
is known to have an attempt left. None of the safety properties is inductive:
what a request answers with depends on what it found several steps before, and
that on what others left in the stores. `SafetyInv` says where every row is:

- `HandInv`: a create holds nothing before its insert and only its own row after it;
- `StoredInv`, `KeptInv`, `RemovedInv`: the stored rows are exactly the committed
  rows that were not deleted, each under its own code;
- `CachedInv`, `FoundInv`: every cache entry, and every row a reader has found, is
  a row committed under that code, perhaps deleted since;
- `HistoryInv`, `FreshInv`: deletions and expiries are for ever, and what a
  reader has established about its row relates to what was so when it began.

The proof first states what a step can do to the database, to the cache and to
a request (`DatabaseEffect`, `CacheEffect`, `RequestEffect`), then preserves
each part from those effects. That a code has one stored row, which makes
`NoClickLost` and `AcknowledgedUrlIsDurable` true, rests on the unique index
(the guard of `Create`).

*Stale copies and live URLs.* Two action properties need to know where rows come
from that a request copies or judges. `GroundsInv` says that a row about to be
cached was stored and unexpired when its request began, that a row about to be
purged has expired, and that a refusal rests on an expired row of the same code. A
step that writes to the cache then takes its row from its own request, and a step
that removes or denies a live row has an expired row of its code behind it, which is
no longer the stored one and so has been removed.

*Causes.* `ServerErrorExplained` and `StaleCopyHasCause` speak of requests that
overlapped, so `OverlapInv` first says that requests in flight have met (`Meets`): of
two of them, one was in flight when the other began. Then, for each request: a
create about to insert under a code that was taken meanwhile met the winner
(`Beaten`); one that holds a row that has gone met who took it (`Bereft`); a cleanup
that finds an entry again after it emptied the cache was not heard, or met who filled
it (`Purged`); and an error keeps its explanation (`Explained`), because what is
behind it, overlaps, committed and removed rows, never goes away. `StaleCopyHasCause`
is preserved step by step from these: an entry becomes stale when its row is removed,
by a request that has yet to drop it or has just done so, or when a bereft request
writes it.

*The refinement.* `HandlersImplementRegistry` says `Spec => Registry!Spec` under the
mapping. Safety needs `SafetyInv` (a found row was committed under that code)
and `Hands`: a request that is yet to answer holds nothing, so that its answer is
given once, and a redirect that counts or cleans up holds a row. One lemma shows
that steps which change neither rows, answers nor counts are stutters (`Unseen`);
one per remaining action names the abstract action it is. TLC checks the same
formula in `UrlServiceFaults`.

*ClickPipeline.* `PipelineInv` joins what has to be known at once: `Places` (what
the worker's position says of the batch), `Fifo`, `Ledger` and `CancelledOnce`.
`Ledger` is `EventLedger` with disjointness spelled out over the sequences: the
accepted events are those waiting, those with exactly one row and those given up, and
none is in two of these. It is inductive only with `Fifo`, which says that the
events the worker has left behind, its batch and the bus make up the accepted
ones in order, without repetition. `CountsMatchRows` needs in addition that a
URL id is given out once (`Ids`), so that a row that was deleted is not
another's; its arithmetic is a lemma about cardinalities of disjoint unions.

*Deployment.* `SchemaComplete` is not inductive: a replica between its look and
its CREATE acts on what it saw. `MissingAccurate` adds that it saw what is still
missing, or that everything has been created since; only a downgrade, which the
history variable remembers, takes a table away. So a replica whose CREATE fails
with the database up has been overtaken by someone who created what was missing. `RecordNeverAhead` needs that `clicks` never exists without
`urls`, which the foreign key enforces in `Creatable`. `ShutdownIsClean` follows
from where a session can be open (`FlushInTime`): while the replica serves, while
`stop()` waits for the loop, and in the last flush, whose end, raised or not, is the
only way on; and from `NothingPooled`.

*ConnectionPools.* `HoldsOnlyWhatItUses` is strengthened by which calls each
operation ever makes and at which of them it may hold a connection to
PostgreSQL; with that, each call's successor is checked once. The pools'
bounds are facts about cardinalities of a set with one more task.

*RateLimiter.* `LogBounded` is not inductive: requests that passed the check may
still add to the log. `RoomInv` bounds the log and those requests together; a
check that passes resets the sum, since it has just seen fewer than `Limit`
entries. `RejectionJustified` follows from the log holding recorded requests only.
For `WindowOverrun` every window is in one of two states. While it is `Intact` the
log holds all its allowed requests, so that a check counts them and the bound is
that of `RoomInv`. It is `Broken` when a later request has purged the log past its
beginning, or the key has expired; then the window is over, nobody new
can belong to it, and only the evaluations under way, with their old readings of the
clock, can still add to it. `ClockInv` says how old a reading can be and that the
key outlives every entry by a second; what one evaluation longer than that adds is
the last term of `Overrun`. `KeysExpire` says that Redis forgets a client that sends
nothing: the key is alive only while it has entries, and for `Window + 1` at most.

*CircuitBreaker.* `BreakerInv` adds to `ClosedBelowThreshold` that the history
counters never run ahead of the code's, and the code's not of them unless a late
result was counted; the action properties follow step by step.

*FlushLocks.* `StateInv` says which locks a transaction holds: those of all
statements behind it (`TakenInv`) and no other (`OrderInv`, `LockInv`), none in
conflict with another's; that a counter has room for whoever has it locked
(`RoomInv`, which is why a COMMIT never overflows); that a line is in order of
arrival (`LineInv`); and that an INSERT only ever waits for a row that a delete has
locked or removed (`DoomInv`). `CountsAgree` is then preserved by COMMIT, a matter
of cardinalities. For `RollbackExplained`, whoever is in a deadlock waits for
someone in the same deadlock and is waited for by one. A client that waits holds
nothing, and the row under a delete is held by nobody else, so neither clients nor
those who wait for a doomed row are in a cycle (`DoomedWaiter`): its members are
flushes at their UPDATEs, each waiting for a URL the next one has updated, before
the URL that one waits for in the order of its batch (`FlushesInTurn`). Those pairs
of URLs are the opposed orders. Reachability is taken from its definition, by
exhibiting closed sets; no induction over paths is needed. Reasons last, because
batches do not change, counters rise and URLs go (`OneWay`). `NobodyIsStuck` is the
part of `EveryTransactionEnds` that needs no fairness: of the open transactions
someone waits on, the one that waits on the fewest can move (`CanMove`, the guards
of `Step`), or is in a deadlock that PostgreSQL breaks.

*TableReads.* `ReportInv` compares what a report holds so far with the tables as
they are: as long as the row is stored its clicks only grow (`TablesGrow`), and
with them every ranking (`MoreClicks`), so what was read stays a lower bound. Referrers
and agents both divide the clicks into groups (`Partitions`); if a ranking shows all
its groups that have clicks, it counts all clicks, and only then is it compared
with the figures read before. A walk is a
bargain with the history: `Slipped` are the rows it has passed without seeing
them, `Pending` those it has seen and will come to again. A row of a creation time
of its own has a place in the listing, the number of newer rows (`Newer`), and no
two have the same (`OneAtEachPlace`). So a row that goes lets at most one slip,
which the count of deletions pays for (`RowGoes`); one that comes makes at most one
pending, which the count of insertions pays for (`RowComes`); and a page turns
pending rows into repeats and passes none (`PageRead`). The walk ends on an
empty page, when all rows it missed have slipped.

*Only model-checked:* the liveness properties `EveryRequestAnswered`,
`EveryEventSettled`, `ShutdownCompletes`, `Recovers`, `EveryTransactionEnds`,
`EveryTaskEnds` and `LifespanCompletes` (the prover handles neither fairness nor
ENABLED).
Every invariant and every action property of the passing runs has a theorem.

## 5. Not modelled, and why

- Redis applying a write after the caller's two second timeout; clocks that
  differ between replicas or go back.
- Validation of URLs and codes, request and response schemas, authentication and
  logging: pure functions without state. The limit a tier leads to is a constant.
- `URLRepository.count`, which nothing calls; the liveness probe, a constant;
  `last_clicked_at` and `updated_at`, on which nothing decides.
- Column comments, indexes and the offline mode of the migrations.
- nginx, docker and the load tests: configuration and clients.
- Pre-ping and recycling of pooled connections, which replace one connection by
  another.
- The response of Redis to memory pressure beyond dropping entries (`CacheTTL`
  may drop any entry at any time).

## 6. Plan

Done: all components with state. What is left, in this order:

1. A `Shortener` that composes handlers, bus and worker, so that the cache entries
   that feed the pipeline are those the handlers left. `ClickPipeline` has a handler
   and a bound on the cache (`known`) of its own; what is missing is the two together.
2. `FlushLocks` as a refinement of the flush of `ClickPipeline` over several workers.
