---------------------------- MODULE ClickPipeline ----------------------------
(***************************************************************************)
(* How the clicks of one replica are counted: the redirect handler         *)
(* (app/routes/url.py) increments urls.click_count and publishes an event  *)
(* on the in-memory EventBus (app/events/event_bus.py); the AnalyticsWorker*)
(* (app/workers/analytics_worker.py) takes batches off the bus and writes  *)
(* them to the clicks table.  URLs are created and deleted meanwhile, the  *)
(* database may fail, the replica may crash or shut down.                  *)
(***************************************************************************)
EXTENDS Naturals, FiniteSets, SequencesExt

CONSTANTS
    Events,         \* redirects, each with the click event it publishes
    Codes,          \* short codes
    MaxUrls,        \* bound: URLs ever created, their ids are 1..MaxUrls
    QueueSize,      \* EventBus maxsize (10000 in the code)
    BatchSize,      \* AnalyticsWorker batch_size (50 in the code)
    Deletes,        \* may URLs be deleted?
    DbFaults,       \* may the worker's transaction fail?
    Crashes,        \* may the replica crash and restart?
    Shutdown        \* may the replica shut down?

ASSUME PipelineAssumption ==
    /\ IsFiniteSet(Events)
    /\ MaxUrls \in Nat \ {0}
    /\ QueueSize \in Nat \ {0}
    /\ BatchSize \in Nat \ {0}
    /\ {Deletes, DbFaults, Crashes, Shutdown} \subseteq BOOLEAN

NoUrl == 0
Urls == 1..MaxUrls

VARIABLES
    (* PostgreSQL *)
    db,         \* db[c]: the id of the URL stored under code c, or NoUrl
    nextUrl,    \* the next id of the urls table
    clickCount, \* clickCount[u]: urls.click_count
    clicks,     \* the clicks table: rows [event, url]
    (* Redis *)
    known,      \* codes a URL was stored under: url:{code} may be in the cache
    (* the redirect handlers *)
    request,    \* request[e]: how far the redirect with event e has come
    code,       \* code[e]: the short code of event e
    served,     \* served[e]: the URL its redirect was counted for, or NoUrl
    (* the bus and the worker *)
    queue,      \* the events on the bus
    phase,      \* "serving", then stop(): "stopping" until the loop has
                \* ended, "draining" for the final flush
    pc,         \* where the worker, or stop() after it, is waiting
    batch,      \* the events being flushed
    resolved,   \* resolved[c]: code_to_id of the flush under way
    (* history *)
    accepted,   \* the events put on the bus, in order
    fate        \* fate[e]: why an accepted event has no row

database == <<db, nextUrl, clickCount, clicks, known>>
handlers == <<request, code, served>>
worker == <<phase, pc, batch, resolved>>
vars == <<database, handlers, queue, worker, accepted, fate>>

Fates == {"none", "unresolved", "rolled_back", "cancelled", "crashed", "cascaded"}

TypeOK ==
    /\ db \in [Codes -> Urls \cup {NoUrl}]
    /\ nextUrl \in 1..(MaxUrls + 1)
    /\ clickCount \in [Urls -> Nat]
    /\ clicks \subseteq [event : Events, url : Urls]
    /\ known \subseteq Codes
    /\ request \in [Events -> {"new", "counted", "published", "refused", "died"}]
    /\ code \in [Events -> Codes]
    /\ served \in [Events -> Urls \cup {NoUrl}]
    /\ queue \in Seq(Events) /\ Len(queue) <= QueueSize
    /\ phase \in {"serving", "stopping", "draining"}
    /\ pc \in {"get", "select", "write", "backoff", "drain", "stopped"}
    /\ batch \in Seq(Events)
    /\ resolved \in [Codes -> Urls \cup {NoUrl}]
    /\ accepted \in Seq(Events)
    /\ fate \in [Events -> Fates]

Init ==
    /\ db = [c \in Codes |-> NoUrl]
    /\ nextUrl = 1
    /\ clickCount = [u \in Urls |-> 0]
    /\ clicks = {}
    /\ known = {}
    /\ request = [e \in Events |-> "new"]
    /\ code \in [Events -> Codes]
    /\ served = [e \in Events |-> NoUrl]
    /\ queue = <<>>
    /\ phase = "serving"
    /\ pc = "get"
    /\ batch = <<>>
    /\ resolved = [c \in Codes |-> NoUrl]
    /\ accepted = <<>>
    /\ fate = [e \in Events |-> "none"]

(* The events of the set E get the fate f.                                 *)
Mark(E, f) == fate' = [e \in Events |-> IF e \in E THEN f ELSE fate[e]]

Live(u) == \E c \in Codes : db[c] = u

-----------------------------------------------------------------------------
(* URLs come and go                                                        *)

CreateUrl(c) ==
    /\ db[c] = NoUrl
    /\ nextUrl \in Urls
    /\ db' = [db EXCEPT ![c] = nextUrl]
    /\ nextUrl' = nextUrl + 1
    /\ known' = known \cup {c}
    /\ UNCHANGED <<clickCount, clicks, handlers, queue, worker, accepted, fate>>

(* The foreign key of clicks has ON DELETE CASCADE.                        *)
DeleteUrl(c) ==
    /\ Deletes
    /\ db[c] # NoUrl
    /\ db' = [db EXCEPT ![c] = NoUrl]
    /\ clicks' = {row \in clicks : row.url # db[c]}
    /\ Mark({row.event : row \in clicks \ clicks'}, "cascaded")
    /\ UNCHANGED <<nextUrl, clickCount, known, handlers, queue, worker, accepted>>

-----------------------------------------------------------------------------
(* redirect_to_url                                                         *)

(* service.redirect_url commits an UPDATE of click_count by code.  It runs *)
(* also when the URL came from a cache entry whose row is gone: then it    *)
(* counts for whatever has the code by now, or for nothing ...             *)
Count(e) ==
    /\ phase = "serving"
    /\ request[e] = "new"
    /\ code[e] \in known
    /\ served' = [served EXCEPT ![e] = db[code[e]]]
    /\ clickCount' = [u \in Urls |-> clickCount[u] + (IF db[code[e]] = u THEN 1 ELSE 0)]
    /\ request' = [request EXCEPT ![e] = "counted"]
    /\ UNCHANGED <<db, nextUrl, clicks, known, code, queue, worker, accepted, fate>>

(* ... then the event goes on the bus, or is dropped if the bus is full.   *)
Publish(e) ==
    /\ request[e] = "counted"
    /\ IF Len(queue) < QueueSize
       THEN /\ queue' = Append(queue, e)
            /\ accepted' = Append(accepted, e)
            /\ request' = [request EXCEPT ![e] = "published"]
       ELSE /\ request' = [request EXCEPT ![e] = "refused"]
            /\ UNCHANGED <<queue, accepted>>
    /\ UNCHANGED <<database, code, served, worker, fate>>

-----------------------------------------------------------------------------
(* The worker's loop                                                       *)

(* Variant: the loop does not look at _running again.                      *)
AfterFlush_Forever == IF phase = "draining" THEN "stopped" ELSE "get"

(* Where the end of a flush, or of a pause, leads.                         *)
AfterFlush == CASE phase = "serving"  -> "get"
                [] phase = "stopping" -> "drain"
                [] phase = "draining" -> "stopped"

(* get_batch: the first event, and what else is there, up to BatchSize.    *)
BatchLength == IF Len(queue) < BatchSize THEN Len(queue) ELSE BatchSize

(* Variant: the events stay on the bus after they were taken.              *)
TakeBatch_Peek ==
    /\ phase = "serving" /\ pc = "get"
    /\ queue # <<>>
    /\ batch' = SubSeq(queue, 1, BatchLength)
    /\ pc' = "select"
    /\ UNCHANGED <<database, handlers, queue, phase, resolved, accepted, fate>>

TakeBatch ==
    /\ phase = "serving" /\ pc = "get"
    /\ queue # <<>>
    /\ batch' = SubSeq(queue, 1, BatchLength)
    /\ queue' = SubSeq(queue, BatchLength + 1, Len(queue))
    /\ pc' = "select"
    /\ UNCHANGED <<database, handlers, phase, resolved, accepted, fate>>

(* _flush_batch reads the ids of the codes in the batch ...                *)
Resolve ==
    /\ pc = "select"
    /\ resolved' = [c \in Codes |-> IF \E e \in ToSet(batch) : code[e] = c THEN db[c] ELSE NoUrl]
    /\ pc' = "write"
    /\ UNCHANGED <<database, handlers, queue, phase, batch, accepted, fate>>

(* ... builds a row for every event whose code has an id ...               *)
Rows == {[event |-> e, url |-> resolved[code[e]]] :
            e \in {x \in ToSet(batch) : resolved[code[x]] # NoUrl}}

(* ... and inserts the rows and adds their number to click_count, by code. *)
(* The INSERT takes key-share locks on the URLs it refers to, so the rest  *)
(* of the transaction sees them: insert, update and commit are one step.   *)
Flushed ==
    /\ clicks' = clicks \cup Rows
    /\ clickCount' = [u \in Urls |-> clickCount[u] +
                        Cardinality({row \in Rows : db[code[row.event]] = u})]
    /\ Mark(ToSet(batch) \ {row.event : row \in Rows}, "unresolved")

(* Variant: what was inserted before the exception stays committed.        *)
RolledBack_Partly ==
    /\ clicks' = clicks \cup {row \in Rows : Live(row.url)}
    /\ UNCHANGED clickCount
    /\ Mark(ToSet(batch), "rolled_back")

(* Any exception rolls the transaction back; the batch is only logged.     *)
RolledBack == UNCHANGED <<clickCount, clicks>> /\ Mark(ToSet(batch), "rolled_back")

EndFlush ==
    /\ batch' = <<>>
    /\ resolved' = [c \in Codes |-> NoUrl]

(* Variant: clicks has no foreign key.                                     *)
Write_NoForeignKey ==
    /\ pc = "write"
    /\ Flushed
    /\ EndFlush
    /\ pc' = AfterFlush
    /\ UNCHANGED <<db, nextUrl, known, handlers, queue, phase, accepted>>

(* A row whose URL has gone violates the foreign key, and fails the batch. *)
Write ==
    /\ pc = "write"
    /\ IF \A row \in Rows : Live(row.url) THEN Flushed ELSE RolledBack
    /\ EndFlush
    /\ pc' = AfterFlush
    /\ UNCHANGED <<db, nextUrl, known, handlers, queue, phase, accepted>>

(* The database fails the SELECT or the transaction; if the rollback fails *)
(* too, its exception reaches the loop, which pauses for a second.         *)
FlushFails ==
    /\ DbFaults
    /\ pc \in {"select", "write"}
    /\ RolledBack
    /\ EndFlush
    /\ pc' \in {AfterFlush, IF phase = "draining" THEN "stopped" ELSE "backoff"}
    /\ UNCHANGED <<db, nextUrl, known, handlers, queue, phase, accepted>>

(* Variant: an exception ends the loop.                                    *)
Wake_Never ==
    /\ pc = "backoff"
    /\ UNCHANGED vars

Wake ==
    /\ pc = "backoff"
    /\ pc' = AfterFlush
    /\ UNCHANGED <<database, handlers, queue, phase, batch, resolved, accepted, fate>>

-----------------------------------------------------------------------------
(* Shutdown and crash                                                      *)

(* The server calls stop() once the redirects under way are answered.      *)
StopRequested ==
    /\ Shutdown
    /\ phase = "serving"
    /\ \A e \in Events : request[e] # "counted"
    /\ phase' = "stopping"
    /\ UNCHANGED <<database, handlers, accepted>>

(* Variant: stop() discards what is on the bus.                            *)
StopCancels_Discard ==
    /\ StopRequested
    /\ EndFlush
    /\ Mark(ToSet(batch \o queue), "cancelled")
    /\ pc' = "drain"
    /\ queue' = <<>>

(* The cancellation reaches the loop at the await it is waiting at: a      *)
(* flush under way is rolled back.                                         *)
StopCancels ==
    /\ StopRequested
    /\ EndFlush
    /\ Mark(ToSet(batch), "cancelled")
    /\ pc' = "drain"
    /\ UNCHANGED queue

(* asyncio.wait_for returns the event it already has instead of being      *)
(* cancelled; the loop flushes that batch and then ends.                   *)
StopSwallowed ==
    /\ StopRequested
    /\ pc = "get" /\ queue # <<>>
    /\ batch' = SubSeq(queue, 1, BatchLength)
    /\ queue' = SubSeq(queue, BatchLength + 1, Len(queue))
    /\ pc' = "select"
    /\ UNCHANGED <<resolved, fate>>

(* stop() takes everything that is left and flushes it once.               *)
Drain ==
    /\ pc = "drain"
    /\ phase' = "draining"
    /\ batch' = queue
    /\ queue' = <<>>
    /\ pc' = IF queue = <<>> THEN "stopped" ELSE "select"
    /\ UNCHANGED <<database, handlers, resolved, accepted, fate>>

(* The process dies, its bus with it.  It is restarted and serves again,   *)
(* unless it was being stopped.                                            *)
Crash ==
    /\ Crashes
    /\ pc # "stopped"
    /\ request' = [e \in Events |-> IF request[e] = "counted" THEN "died" ELSE request[e]]
    /\ queue' = <<>>
    /\ EndFlush
    /\ Mark(ToSet(batch) \cup ToSet(queue), "crashed")
    /\ \/ phase = "serving" /\ pc' = "get" /\ UNCHANGED phase
       \/ phase # "serving" /\ pc' = "stopped" /\ phase' = "draining"
    /\ UNCHANGED <<database, code, served, accepted>>

Worker == TakeBatch \/ Resolve \/ Write \/ FlushFails \/ Wake \/ Drain

Next ==
    \/ \E c \in Codes : CreateUrl(c) \/ DeleteUrl(c)
    \/ \E e \in Events : Count(e) \/ Publish(e)
    \/ Worker
    \/ StopCancels \/ StopSwallowed \/ Crash

Spec == Init /\ [][Next]_vars

(* The event loop runs the worker whenever what it awaits is there, and a  *)
(* handler that has counted a click goes on to publish it.                 *)
FairSpec == Spec /\ WF_vars(Worker) /\ \A e \in Events : WF_vars(Publish(e))

-----------------------------------------------------------------------------
(* Safety                                                                  *)

Recorded(e) == \E row \in clicks : row.event = e

(* The events in the worker's hands and on the bus are the last ones       *)
(* accepted, in the order they were published, each of them once: get_batch*)
(* and the drain neither reorder, nor repeat, nor skip, and the bus holds  *)
(* no more than it may.                                                    *)
Fifo == IsSuffix(batch \o queue, accepted) /\ Len(queue) <= QueueSize

(* Every other accepted event was settled exactly once: it has one row in  *)
(* clicks, or it was given up for one reason.  An event still waiting has  *)
(* neither, so no event is ever written twice.                             *)
EventLedger ==
    \A e \in ToSet(accepted) :
        LET waiting == e \in ToSet(batch \o queue)
            rows == {row \in clicks : row.event = e} IN
        Cardinality(rows) + (IF waiting THEN 1 ELSE 0) + (IF fate[e] # "none" THEN 1 ELSE 0) = 1

(* click_count of a stored URL is the number of its redirects that         *)
(* incremented it plus the number of its rows in clicks.  The worker       *)
(* resolves ids before it writes and updates the counts by code, so this   *)
(* hangs on the foreign key failing a batch whose URL was deleted, perhaps *)
(* re-created, in between.                                                 *)
CountsMatchRows ==
    \A u \in Urls : Live(u) =>
        clickCount[u] = Cardinality({e \in Events : served[e] = u})
                            + Cardinality({row \in clicks : row.url = u})

(* Stopping the replica gives up at most the batch being flushed: what was *)
(* still on the bus is taken by the final drain.                           *)
AtMostOneBatchCancelled ==
    /\ Cardinality({e \in Events : fate[e] = "cancelled"}) <= BatchSize
    /\ pc = "stopped" => queue = <<>> /\ batch = <<>>

(* With no click waiting, click_count of a stored URL is the number of     *)
(* times it was clicked.                                                   *)
ClickCountIsClicks ==
    \A u \in Urls : Live(u) /\ batch = <<>> /\ queue = <<>> =>
        clickCount[u] = Cardinality({e \in Events : served[e] = u})

-----------------------------------------------------------------------------
(* Liveness                                                                *)

(* Every event put on the bus is eventually settled, though transactions   *)
(* fail and URLs disappear: the loop survives every exception.             *)
EveryEventSettled ==
    \A e \in Events : request[e] = "published" ~> Recorded(e) \/ fate[e] # "none"

(* stop() returns, whatever the worker was doing.                          *)
ShutdownCompletes == phase = "stopping" ~> pc = "stopped"

=============================================================================
