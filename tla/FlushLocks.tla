----------------------------- MODULE FlushLocks -----------------------------
(***************************************************************************)
(* The transactions that write to the urls table at the same time, down to *)
(* their row locks: the flushes of the workers of several replicas         *)
(* (AnalyticsWorker._flush_batch), the increments of redirects and the     *)
(* deletes (UrlRepository).  PostgreSQL makes a statement wait for the row *)
(* locks in its way, and rolls one member of a cycle of waiters back.      *)
(* Row locks, as taken by the statements of this code:                     *)
(*   "share"   FOR KEY SHARE, by the foreign key of an inserted click      *)
(*   "update"  FOR NO KEY UPDATE, by UPDATE urls SET click_count = ...     *)
(*   "delete"  FOR UPDATE, by DELETE FROM urls                             *)
(***************************************************************************)
EXTENDS Naturals, FiniteSets, Sequences, FiniteSetsExt

CONSTANTS
    Flushes,    \* flush transactions, each of a worker of its own
    Redirects,  \* increment_click transactions
    Deletes,    \* delete_by_short_code transactions
    Urls,       \* URLs stored at the start
    MaxBatch,   \* bound: events in a batch
    MaxCount    \* the largest click_count (2^31 - 1, Integer, in the code)

ASSUME LockAssumption ==
    /\ MaxBatch \in Nat \ {0}
    /\ MaxCount \in Nat \ {0}
    /\ IsFiniteSet(Redirects)
    /\ Flushes \cap Redirects = {} /\ Flushes \cap Deletes = {} /\ Redirects \cap Deletes = {}

Transactions == Flushes \cup Redirects \cup Deletes

VARIABLES
    stored,     \* the URLs in the table
    clickCount, \* clickCount[u]: urls.click_count, as committed
    rows,       \* rows[u]: the number of rows of u in clicks, as committed
    status,     \* status[t]: "new", "open", "committed", "rolled_back"
    batch,      \* batch[t]: the URLs t writes to, one for each click event
    done,       \* done[t]: how far t is: first through the inserts of its
                \* events, then through its updates
    held,       \* held[u]: the row locks on u, records [by, mode]
    waiting,    \* who stands in line for the lock it needs next
    ahead       \* ahead[t]: who stands before t in the same line

tables == <<stored, clickCount, rows>>
locks == <<held, waiting, ahead>>
vars == <<tables, status, batch, done, locks>>

Modes == {"share", "update", "delete"}

(* What the SELECT of _flush_batch may leave of a batch: it drops the      *)
(* events whose URL is gone, at times all.  Clients write to one URL.      *)
Batches(t) ==
    IF t \in Flushes THEN UNION {[1..n -> stored] : n \in 0..MaxBatch} ELSE [1..1 -> Urls]

TypeOK ==
    /\ stored \subseteq Urls
    /\ clickCount \in [Urls -> 0..MaxCount]
    /\ rows \in [Urls -> Nat]
    /\ status \in [Transactions -> {"new", "open", "committed", "rolled_back"}]
    /\ batch \in [Transactions -> Seq(Urls)]
    /\ done \in [Transactions -> 0..(2 * MaxBatch)]
    /\ held \in [Urls -> SUBSET [by : Transactions, mode : Modes]]
    /\ waiting \subseteq Transactions
    /\ ahead \in [Transactions -> SUBSET Transactions]

Init ==
    /\ stored = Urls
    /\ clickCount = [u \in Urls |-> 0]
    /\ rows = [u \in Urls |-> 0]
    /\ status = [t \in Transactions |-> "new"]
    /\ batch = [t \in Transactions |-> <<>>]
    /\ done = [t \in Transactions |-> 0]
    /\ held = [u \in Urls |-> {}]
    /\ waiting = {}
    /\ ahead = [t \in Transactions |-> {}]

-----------------------------------------------------------------------------
(* The steps of a transaction that take a row lock.                        *)

Events(t, u) == Cardinality({i \in DOMAIN batch[t] : batch[t][i] = u})

(* The places in batch[t] at which a URL occurs for the first time: the    *)
(* order of code_counts, in which the UPDATEs are issued.                  *)
FirstPlaces(t) == {i \in DOMAIN batch[t] : \A j \in 1..(i - 1) : batch[t][j] # batch[t][i]}

(* The autoflush before the first UPDATE inserts the clicks: a share lock  *)
(* for each event, in their order; then one UPDATE for each URL.           *)
Inserting(t) == done[t] < Len(batch[t])

UpdatesLeft(t) == {i \in FirstPlaces(t) : t \in Flushes /\ Len(batch[t]) + i > done[t]}

AtLock(t) == status[t] = "open" /\ (Inserting(t) \/ UpdatesLeft(t) # {})

(* The place in batch[t] of the next statement.                            *)
Place(t) == IF Inserting(t) THEN done[t] + 1 ELSE Min(UpdatesLeft(t))

NextUrl(t) == batch[t][Place(t)]

NextMode(t) ==
    CASE t \in Flushes   -> IF Inserting(t) THEN "share" ELSE "update"
      [] t \in Redirects -> "update"
      [] t \in Deletes   -> "delete"

Advance(t) ==
    done' = [done EXCEPT ![t] = IF Inserting(t) THEN Place(t) ELSE Len(batch[t]) + Place(t)]

-----------------------------------------------------------------------------
(* PostgreSQL's row locks                                                  *)

(* Variant: the ids are read FOR SHARE, which conflicts with an UPDATE.    *)
Conflict_ForShare(m, n) == {m, n} # {"share"}

Conflict(m, n) == m = "delete" \/ n = "delete" \/ (m = "update" /\ n = "update")

(* The holders of locks in the way of t's next step.                       *)
Holders(t) == {l.by : l \in {k \in held[NextUrl(t)] : k.by # t /\ Conflict(k.mode, NextMode(t))}}

HoldsLock(t, u) == \E l \in held[u] : l.by = t

(* Those ahead of t that are in its way.  A transaction that already holds *)
(* a lock on the row waits outside the line.                               *)
Before(t) ==
    IF HoldsLock(t, NextUrl(t)) THEN {}
    ELSE {x \in ahead[t] : ~HoldsLock(x, NextUrl(t)) /\ Conflict(NextMode(x), NextMode(t))}

(* Whom t waits for: those before it, or else the holders of the lock.     *)
WaitsFor(t) ==
    IF t \notin waiting THEN {} ELSE IF Before(t) # {} THEN Before(t) ELSE Holders(t)

LeaveLine(t) ==
    /\ waiting' = waiting \ {t}
    /\ ahead' = [x \in Transactions |-> IF x = t THEN {} ELSE ahead[x] \ {t}]

(* t gives up its locks and its place in line.                             *)
ReleaseLocks(t) ==
    /\ held' = [u \in Urls |-> {l \in held[u] : l.by # t}]
    /\ LeaveLine(t)

RollBack(t) ==
    /\ status' = [status EXCEPT ![t] = "rolled_back"]
    /\ ReleaseLocks(t)
    /\ UNCHANGED <<tables, batch, done>>

-----------------------------------------------------------------------------
Begin(t) ==
    /\ status[t] = "new"
    /\ \E b \in Batches(t) : batch' = [batch EXCEPT ![t] = b]
    /\ status' = [status EXCEPT ![t] = "open"]
    /\ UNCHANGED <<tables, done, locks>>

(* A lock is in the way: t joins the line for the row.                     *)
Wait(t) ==
    /\ AtLock(t)
    /\ t \notin waiting
    /\ Holders(t) # {}
    /\ waiting' = waiting \cup {t}
    /\ ahead' = [ahead EXCEPT ![t] = {x \in waiting : NextUrl(x) = NextUrl(t)}]
    /\ UNCHANGED <<tables, status, batch, done, held>>

(* Nothing is in the way of t, which may come before others still in line. *)
Free(t) == AtLock(t) /\ Holders(t) = {} /\ (t \in waiting => Before(t) = {})

(* The UPDATE would take click_count past the range of its column.         *)
Overflows(t) ==
    /\ NextUrl(t) \in stored
    /\ clickCount[NextUrl(t)] + Events(t, NextUrl(t)) > MaxCount

(* The statement takes its lock, if the row is still there.                *)
Lock(t) ==
    /\ Free(t)
    /\ NextMode(t) = "share" => NextUrl(t) \in stored
    /\ NextMode(t) = "update" => ~Overflows(t)
    /\ Advance(t)
    /\ held' = IF NextUrl(t) \in stored
               THEN [held EXCEPT ![NextUrl(t)] = @ \cup {[by |-> t, mode |-> NextMode(t)]}]
               ELSE held
    /\ LeaveLine(t)
    /\ UNCHANGED <<tables, status, batch>>

Fails(t) ==
    \/ NextMode(t) = "share" /\ NextUrl(t) \notin stored
    \/ NextMode(t) = "update" /\ Overflows(t)

(* Variant: a failed UPDATE is logged and the batch goes on.               *)
StatementFails_GoOn(t) ==
    /\ Free(t)
    /\ Fails(t)
    /\ Advance(t)
    /\ LeaveLine(t)
    /\ UNCHANGED <<tables, status, batch, held>>

(* The statement fails: the URL of a click is gone (foreign key), or the   *)
(* column overflows ("integer out of range").  The whole transaction fails.*)
StatementFails(t) ==
    /\ Free(t)
    /\ Fails(t)
    /\ RollBack(t)

Updated(t) == {u \in Urls : [by |-> t, mode |-> "update"] \in held[u]}
Deleted(t) == {u \in Urls : [by |-> t, mode |-> "delete"] \in held[u]}

(* Variant: increment_click returns without its commit, and keeps its lock.*)
Commit_KeepOpen(t) ==
    /\ t \notin Redirects
    /\ status[t] = "open" /\ ~AtLock(t)
    /\ status' = [status EXCEPT ![t] = "committed"]
    /\ stored' = stored \ Deleted(t)
    /\ clickCount' = [u \in Urls |-> clickCount[u] + (IF u \in Updated(t) THEN Events(t, u) ELSE 0)]
    /\ rows' = [u \in Urls |-> IF u \in Deleted(t) THEN 0
                               ELSE rows[u] + (IF t \in Flushes THEN Events(t, u) ELSE 0)]
    /\ ReleaseLocks(t)
    /\ UNCHANGED <<batch, done>>

(* COMMIT makes everything visible at once; the clicks of a deleted URL go *)
(* with it (ON DELETE CASCADE).                                            *)
Commit(t) ==
    /\ status[t] = "open" /\ ~AtLock(t)
    /\ status' = [status EXCEPT ![t] = "committed"]
    /\ stored' = stored \ Deleted(t)
    /\ clickCount' = [u \in Urls |-> clickCount[u] + (IF u \in Updated(t) THEN Events(t, u) ELSE 0)]
    /\ rows' = [u \in Urls |-> IF u \in Deleted(t) THEN 0
                               ELSE rows[u] + (IF t \in Flushes THEN Events(t, u) ELSE 0)]
    /\ ReleaseLocks(t)
    /\ UNCHANGED <<batch, done>>

(* t waits for x, directly or not: x is in every set that holds whom t     *)
(* waits for, and whom its members wait for.                               *)
WaitsOn(t, x) == \A S \in SUBSET Transactions :
    WaitsFor(t) \subseteq S /\ (\A y \in S : WaitsFor(y) \subseteq S) => x \in S

Deadlocked(t) == WaitsOn(t, t)

(* deadlock_timeout: PostgreSQL rolls back a waiter that is in a cycle.    *)
BreakDeadlock(t) ==
    /\ t \in waiting /\ Deadlocked(t)
    /\ RollBack(t)

Step(t) == Wait(t) \/ Lock(t) \/ StatementFails(t) \/ Commit(t) \/ BreakDeadlock(t)

Next == \E t \in Transactions : Begin(t) \/ Step(t)

Spec == Init /\ [][Next]_vars

(* Every connection's statements are carried out, and PostgreSQL looks for *)
(* deadlocks; transactions begin when they like.                           *)
FairSpec == Spec /\ \A t \in Transactions : WF_vars(Step(t))

-----------------------------------------------------------------------------
(* The batches name their URLs in orders no single order agrees with.      *)
OpposedBatches ==
    LET order == {p \in Urls \X Urls : \E f \in Flushes : \E i, j \in FirstPlaces(f) :
                      i < j /\ p = <<batch[f][i], batch[f][j]>>} IN
    \E cycle \in SUBSET order : cycle # {} /\ \A p \in cycle : \E q \in cycle : q[1] = p[2]

Full(t) == \E u \in Urls : Events(t, u) > 0 /\ clickCount[u] + Events(t, u) > MaxCount
Orphan(t) == \E u \in Urls : Events(t, u) > 0 /\ u \notin stored

(* A client's redirect or delete is never sacrificed to a deadlock: it is  *)
(* rolled back only if the counter it raises is full.  A worker's batch is *)
(* only if one of its counters is full, one of its URLs is gone, or it     *)
(* names several URLs in an order opposed to other workers' batches.       *)
RollbackExplained ==
    \A t \in Transactions : status[t] = "rolled_back" =>
        \/ t \notin Deletes /\ Full(t)
        \/ t \in Flushes /\ Orphan(t)
        \/ t \in Flushes /\ Cardinality(FirstPlaces(t)) > 1 /\ OpposedBatches

(* click_count stays within its column and agrees with clicks: a batch that*)
(* fails at any of its statements, by a full counter, a deadlock or a      *)
(* deleted URL, leaves neither counts without rows nor rows without counts.*)
CountsAgree ==
    /\ TypeOK
    /\ \A u \in stored :
          clickCount[u] =
            rows[u] + Cardinality({r \in Redirects : status[r] = "committed" /\ Events(r, u) > 0})

(* No transaction waits for ever: neither a redirect nor a delete behind a *)
(* flush, nor flushes behind one another.                                  *)
EveryTransactionEnds ==
    \A t \in Transactions : status[t] = "open" ~> status[t] \in {"committed", "rolled_back"}

=============================================================================
