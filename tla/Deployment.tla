----------------------------- MODULE Deployment -----------------------------
(***************************************************************************)
(* The life of the replicas around the code that serves requests: the      *)
(* lifespan of app/main.py creates the tables, looks for Redis, starts the *)
(* analytics worker, and at the end stops the worker and closes the pools; *)
(* /health/ready (app/routes/health.py) tells whether a replica is ready;  *)
(* the alembic migrations change the same tables.  PostgreSQL and Redis    *)
(* come and go, replicas crash, and all of this happens at the same time.  *)
(* What the worker does with its events is in ClickPipeline; here it only  *)
(* has a session open, or none.                                            *)
(***************************************************************************)
CONSTANT Replicas

VARIABLES
    (* shared *)
    dbUp,       \* does PostgreSQL answer?
    tables,     \* the tables that exist
    version,    \* alembic_version: the last migration applied
    answer,     \* what a readiness probe last answered: the status, and the
                \* components it said were down
    (* of each replica *)
    pc,         \* pc[r]: where its lifespan is
    missing,    \* missing[r]: the tables create_all found missing
    schema,     \* schema[r]: how its create_all ended
    session,    \* session[r]: the session of the flush its worker is in
    pooled,     \* pooled[r]: does its engine keep a connection?
    (* history *)
    downgraded  \* has a downgrade dropped a table?

shared == <<dbUp, tables, version, downgraded, answer>>
replica == <<pc, missing, schema, session, pooled>>
vars == <<shared, replica>>

AllTables == {"urls", "clicks"}
Versions == {"base", "create_urls_table", "add_clicks_table"}
Components == {"postgres", "redis"}

(* "down" has not been started or has shut down; "failed": worker.stop()   *)
(* raised, and the lifespan with it.                                       *)
Ended == {"down", "failed", "crashed"}

TypeOK ==
    /\ {dbUp, downgraded} \subseteq BOOLEAN
    /\ tables \subseteq AllTables
    /\ version \in Versions
    /\ pc \in [Replicas -> Ended \cup {"inspect", "create", "serving", "stop", "drain",
                                      "last_flush", "dispose"}]
    /\ missing \in [Replicas -> SUBSET AllTables]
    /\ schema \in [Replicas -> {"unknown", "verified", "unreachable", "failed"}]
    /\ session \in [Replicas -> {"none", "connecting", "open", "broken"}]
    /\ pooled \in [Replicas -> BOOLEAN]
    /\ answer \in [status : {"none", "200", "503"}, down : SUBSET Components]

NoAnswer == [status |-> "none", down |-> {}]

(* A new database, or that of a release that had no clicks table yet.      *)
Init ==
    /\ dbUp \in BOOLEAN
    /\ tables \in {{}, {"urls"}}
    /\ version = "base"
    /\ pc = [r \in Replicas |-> "down"]
    /\ missing = [r \in Replicas |-> {}]
    /\ schema = [r \in Replicas |-> "unknown"]
    /\ session = [r \in Replicas |-> "none"]
    /\ pooled = [r \in Replicas |-> FALSE]
    /\ answer = NoAnswer
    /\ downgraded = FALSE

GoTo(r, s) == pc' = [pc EXCEPT ![r] = s]
EndSchema(r, s) == schema' = [schema EXCEPT ![r] = s]

(* The engine keeps the connection it opened for a session.                *)
UseDatabase(r) == pooled' = [pooled EXCEPT ![r] = @ \/ dbUp]

(* The process ends, or the next one begins: nothing of it is left.        *)
Forget(r) ==
    /\ missing' = [missing EXCEPT ![r] = {}]
    /\ EndSchema(r, "unknown")
    /\ session' = [session EXCEPT ![r] = "none"]

(* The process is started, by hand or by the orchestrator.                 *)
StartProcess(r) ==
    /\ pc[r] \in Ended
    /\ GoTo(r, "inspect")
    /\ pooled' = [pooled EXCEPT ![r] = FALSE]
    /\ Forget(r)
    /\ UNCHANGED shared

-----------------------------------------------------------------------------
(* Startup                                                                 *)

(* Variant: the exception of an unreachable database is not caught.        *)
Inspect_Uncaught(r) ==
    /\ pc[r] = "inspect"
    /\ UseDatabase(r)
    /\ IF dbUp
       THEN /\ missing' = [missing EXCEPT ![r] = AllTables \ tables]
            /\ GoTo(r, "create")
            /\ UNCHANGED schema
       ELSE GoTo(r, "down") /\ UNCHANGED <<missing, schema>>
    /\ UNCHANGED <<shared, session>>

(* create_all first asks which tables exist ...                            *)
Inspect(r) ==
    /\ pc[r] = "inspect"
    /\ UseDatabase(r)
    /\ IF dbUp
       THEN /\ missing' = [missing EXCEPT ![r] = AllTables \ tables]
            /\ GoTo(r, "create")
            /\ UNCHANGED schema
       ELSE /\ EndSchema(r, "unreachable")
            /\ GoTo(r, "serving")
            /\ UNCHANGED missing
    /\ UNCHANGED <<shared, session>>

(* The statements of a transaction that creates the tables in new can be   *)
(* carried out: none exists, and clicks refers to urls.                    *)
Creatable(new) == new \cap tables = {} /\ ("clicks" \in new => "urls" \in tables \cup new)

(* Variant: each table is committed on its own, and a failure of the second*)
(* leaves the first.                                                       *)
CreateTables_OneByOne(r) ==
    /\ pc[r] = "create"
    /\ IF missing[r] # {} /\ Creatable({"urls"})
       THEN tables' = tables \cup {"urls"} /\ EndSchema(r, "verified")
       ELSE UNCHANGED tables /\ EndSchema(r, IF missing[r] = {} THEN "verified" ELSE "failed")
    /\ GoTo(r, "serving")
    /\ missing' = [missing EXCEPT ![r] = {}]
    /\ UNCHANGED <<dbUp, version, downgraded, answer, session, pooled>>

(* ... then creates the others and commits, all or nothing.  Any exception *)
(* is printed.  Whether Redis answers is printed as well, the worker is    *)
(* started, and the server takes requests.                                 *)
CreateTables(r) ==
    /\ pc[r] = "create"
    /\ CASE ~dbUp -> UNCHANGED tables /\ EndSchema(r, "unreachable")
         [] dbUp /\ Creatable(missing[r]) -> tables' = tables \cup missing[r] /\ EndSchema(r, "verified")
         [] OTHER -> UNCHANGED tables /\ EndSchema(r, "failed")
    /\ GoTo(r, "serving")
    /\ missing' = [missing EXCEPT ![r] = {}]
    /\ UNCHANGED <<dbUp, version, downgraded, answer, session, pooled>>

-----------------------------------------------------------------------------
(* Serving                                                                 *)

(* readiness: SELECT 1 decides the status; what PING says is reported.     *)
Readiness(r) ==
    /\ pc[r] = "serving"
    /\ \E down \in SUBSET Components :
        /\ "postgres" \in down <=> ~dbUp
        /\ answer' = [status |-> IF dbUp THEN "200" ELSE "503", down |-> down]
    /\ UseDatabase(r)
    /\ UNCHANGED <<dbUp, tables, version, downgraded, pc, missing, schema, session>>

(* The worker has taken a batch and opens a session ...                    *)
BeginFlush(r) ==
    /\ pc[r] = "serving" /\ session[r] = "none"
    /\ session' = [session EXCEPT ![r] = "connecting"]
    /\ UNCHANGED <<shared, pc, missing, schema, pooled>>

Connect(r) ==
    /\ session[r] = "connecting" /\ dbUp
    /\ session' = [session EXCEPT ![r] = "open"]
    /\ UNCHANGED <<shared, pc, missing, schema, pooled>>

(* ... which is closed whatever becomes of the flush: committed, rolled    *)
(* back, cancelled, or without a database.  The engine keeps the connection*)
(* unless it is broken; then the rollback may fail, too, and the loop logs *)
(* the exception, while the last flush passes it on to the lifespan.       *)
EndFlush(r) ==
    /\ session[r] # "none"
    /\ session[r] = "connecting" => ~dbUp \/ pc[r] = "stop"
    /\ session' = [session EXCEPT ![r] = "none"]
    /\ pooled' = [pooled EXCEPT ![r] = @ \/ session[r] = "open"]
    /\ \/ pc[r] # "last_flush" /\ UNCHANGED pc
       \/ pc[r] = "last_flush" /\ GoTo(r, "dispose")
       \/ pc[r] = "last_flush" /\ session[r] = "broken" /\ GoTo(r, "failed")
    /\ UNCHANGED <<shared, missing, schema>>

-----------------------------------------------------------------------------
(* Shutdown                                                                *)

(* worker.stop() cancels the loop; get_batch may swallow that and go on to *)
(* the flush of a last batch.                                              *)
Shutdown(r) ==
    /\ pc[r] = "serving"
    /\ GoTo(r, "stop")
    /\ \/ UNCHANGED session
       \/ session[r] = "none" /\ session' = [session EXCEPT ![r] = "connecting"]
    /\ UNCHANGED <<shared, missing, schema, pooled>>

(* Variant: the cancelled loop is not waited for.                          *)
StopWorker_NoWait(r) ==
    /\ pc[r] = "stop"
    /\ GoTo(r, "drain")
    /\ UNCHANGED <<shared, missing, schema, session, pooled>>

(* It waits for the loop to end, ...                                       *)
StopWorker(r) ==
    /\ pc[r] = "stop"
    /\ session[r] = "none"
    /\ GoTo(r, "drain")
    /\ UNCHANGED <<shared, missing, schema, session, pooled>>

(* ... and flushes what is left on the bus, if anything is.                *)
Drain(r) ==
    /\ pc[r] = "drain"
    /\ \/ GoTo(r, "dispose") /\ UNCHANGED session
       \/ GoTo(r, "last_flush") /\ session' = [session EXCEPT ![r] = "connecting"]
    /\ UNCHANGED <<shared, missing, schema, pooled>>

(* engine.dispose() and close_redis_pool(), the end of the lifespan; not   *)
(* reached if the last flush raised.                                       *)
Dispose(r) ==
    /\ pc[r] = "dispose"
    /\ pooled' = [pooled EXCEPT ![r] = FALSE]
    /\ GoTo(r, "down")
    /\ UNCHANGED <<shared, missing, schema, session>>

(* The process dies; the operating system closes its connections.          *)
Crash(r) ==
    /\ pc[r] \notin Ended
    /\ GoTo(r, "crashed")
    /\ pooled' = [pooled EXCEPT ![r] = FALSE]
    /\ Forget(r)
    /\ UNCHANGED shared

-----------------------------------------------------------------------------
(* PostgreSQL becomes unreachable, which breaks the connections in use, or *)
(* reachable again.                                                        *)

DatabaseChanges ==
    /\ dbUp' = ~dbUp
    /\ session' = [r \in Replicas |-> IF session[r] = "open" THEN "broken" ELSE session[r]]
    /\ UNCHANGED <<tables, version, downgraded, answer, pc, missing, schema, pooled>>

-----------------------------------------------------------------------------
(* Migrations: each run of alembic is one transaction                      *)

(* Variant: the version is recorded although a statement failed.           *)
Upgrade_StampAnyway ==
    /\ dbUp
    /\ version # "add_clicks_table"
    /\ tables' = IF Creatable({"clicks"}) THEN tables \cup {"clicks"} ELSE tables
    /\ version' = "add_clicks_table"
    /\ UNCHANGED <<dbUp, downgraded, answer, replica>>

(* upgrade head: create_urls_table creates nothing, add_clicks_table needs *)
(* urls and must not find clicks; otherwise the run fails as a whole.      *)
Upgrade ==
    /\ dbUp
    /\ version # "add_clicks_table"
    /\ Creatable({"clicks"})
    /\ tables' = tables \cup {"clicks"}
    /\ version' = "add_clicks_table"
    /\ UNCHANGED <<dbUp, downgraded, answer, replica>>

(* downgrade -1: the second migration drops clicks, the first does nothing.*)
Downgrade ==
    /\ dbUp
    /\ \/ /\ version = "add_clicks_table"
          /\ tables' = tables \ {"clicks"}
          /\ version' = "create_urls_table"
          /\ downgraded' = TRUE
       \/ /\ version = "create_urls_table"
          /\ version' = "base"
          /\ UNCHANGED <<tables, downgraded>>
    /\ UNCHANGED <<dbUp, answer, replica>>

Lifespan(r) ==
    \/ Inspect(r) \/ CreateTables(r)
    \/ Connect(r) \/ EndFlush(r) \/ StopWorker(r) \/ Drain(r) \/ Dispose(r)

Next ==
    \/ \E r \in Replicas :
        \/ StartProcess(r) \/ Lifespan(r) \/ Readiness(r)
        \/ BeginFlush(r) \/ Shutdown(r) \/ Crash(r)
    \/ DatabaseChanges \/ Upgrade \/ Downgrade

Spec == Init /\ [][Next]_vars

(* A started lifespan goes on, and so does a flush, since every call of    *)
(* theirs ends in an answer or an exception.                               *)
FairSpec == Spec /\ \A r \in Replicas : WF_vars(Lifespan(r))

-----------------------------------------------------------------------------
(* Once a replica has found or made the tables, or has failed to make them *)
(* although it reached the database, which happens when another replica or *)
(* a migration was faster, both tables exist until a downgrade: no race of *)
(* startups leaves half a schema behind a replica that serves.             *)
SchemaComplete ==
    \A r \in Replicas : schema[r] \in {"verified", "failed"} /\ ~downgraded => tables = AllTables

(* What alembic has recorded is never ahead of what is there, although     *)
(* replicas create tables behind its back: a database at the last migration*)
(* has both tables, and there are never clicks without the urls they refer *)
(* to. It may well be behind: replicas that made the tables record nothing.*)
RecordNeverAhead ==
    /\ "clicks" \in tables => "urls" \in tables
    /\ version = "add_clicks_table" => tables = AllTables

(* When the lifespan of a replica has ended, no flush of its worker goes on*)
(* and can return a connection to an engine that has been disposed of,     *)
(* whether the cancellation met the loop in a flush, was swallowed, or the *)
(* database broke down meanwhile; and unless the last flush raised, no     *)
(* connection is open.                                                     *)
CleanShutdown ==
    \A r \in Replicas :
        /\ pc[r] \in {"down", "failed"} => session[r] = "none"
        /\ pc[r] = "down" => ~pooled[r]

(* /health/ready answers 503 whenever PostgreSQL or Redis is unreachable   *)
(* (docs/01_system_design_deep_dive.md:33).                                *)
UnreadyIfAnythingIsDown ==
    answer.down # {} => answer.status = "503"

(* A replica that is started ends up serving, and one told to stop ends,   *)
(* unless it crashes: whatever is down and whoever else starts, migrates or*)
(* creates the same tables, no failure of its lifespan makes it hang, and  *)
(* none of its startup stops it.                                           *)
LifespanCompletes ==
    \A r \in Replicas :
        /\ pc[r] = "inspect" ~> pc[r] \in {"serving", "crashed"}
        /\ pc[r] = "stop" ~> pc[r] \in Ended

=============================================================================
