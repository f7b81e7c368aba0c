----------------------------- MODULE RateLimiter -----------------------------
(***************************************************************************)
(* app/middleware/rate_limiter.py: the sliding window log kept in a Redis  *)
(* sorted set, for the requests of one client (the keys of different       *)
(* clients are independent).  is_allowed reads the clock, then makes two   *)
(* round trips, each an atomic pipeline: purge and count, then record.     *)
(***************************************************************************)
EXTENDS Naturals, FiniteSets

CONSTANTS
    Requests,       \* the requests of the client
    Limit,          \* get_tier_limit of its tier
    Window,         \* window_seconds
    MaxInFlight,    \* requests being evaluated at the same time
    MaxLatency,     \* time an evaluation may take (the Redis socket timeouts)
    MaxTime,        \* bound: how far the clock goes
    RedisFaults     \* may a round trip fail?

ASSUME LimiterAssumption ==
    /\ IsFiniteSet(Requests)
    /\ Limit \in Nat \ {0}
    /\ Window \in Nat \ {0}
    /\ MaxInFlight \in Nat \ {0}
    /\ MaxLatency \in Nat
    /\ MaxTime \in Nat
    /\ RedisFaults \in BOOLEAN

VARIABLES
    clock,      \* time.time() on every replica, and the clock of Redis
    log,        \* the members of the sorted set; the score of r is now[r]
    expireAt,   \* when the key expires
    pc,         \* pc[r]: the next round trip of request r
    now,        \* now[r]: the time request r read when it came in
    decision,   \* decision[r]: the result of is_allowed
    recorded    \* history: the requests that were ever added to the log

vars == <<clock, log, expireAt, pc, now, decision, recorded>>

TypeOK ==
    /\ clock \in 0..MaxTime
    /\ log \subseteq Requests
    /\ expireAt \in 0..(MaxTime + Window + 1)
    /\ pc \in [Requests -> {"idle", "check", "record", "done"}]
    /\ now \in [Requests -> 0..MaxTime]
    /\ decision \in [Requests -> {"none", "allowed", "rejected", "failed_open"}]
    /\ recorded \subseteq Requests

Init ==
    /\ clock = 0
    /\ log = {}
    /\ expireAt = 0
    /\ pc = [r \in Requests |-> "idle"]
    /\ now = [r \in Requests |-> 0]
    /\ decision = [r \in Requests |-> "none"]
    /\ recorded = {}

Pending == {r \in Requests : pc[r] \in {"check", "record"}}

Decide(r, d) ==
    /\ pc' = [pc EXCEPT ![r] = "done"]
    /\ decision' = [decision EXCEPT ![r] = d]

(* enforce_rate_limit is entered.                                          *)
Start(r) ==
    /\ pc[r] = "idle"
    /\ Cardinality(Pending) < MaxInFlight
    /\ now' = [now EXCEPT ![r] = clock]
    /\ pc' = [pc EXCEPT ![r] = "check"]
    /\ UNCHANGED <<clock, log, expireAt, decision, recorded>>

(* What ZREMRANGEBYSCORE key 0 (now - window) leaves.                      *)
InWindow(r) == {q \in log : now[q] + Window > now[r]}

(* Variant: one more request than the limit gets through.                  *)
Check_Inclusive(r) ==
    /\ pc[r] = "check"
    /\ log' = InWindow(r)
    /\ IF Cardinality(InWindow(r)) <= Limit
       THEN pc' = [pc EXCEPT ![r] = "record"] /\ UNCHANGED decision
       ELSE Decide(r, "rejected")
    /\ UNCHANGED <<clock, expireAt, now, recorded>>

(* Variant: the old entries are counted too.                               *)
Check_NoPurge(r) ==
    /\ pc[r] = "check"
    /\ IF Cardinality(log) < Limit
       THEN pc' = [pc EXCEPT ![r] = "record"] /\ UNCHANGED decision
       ELSE Decide(r, "rejected")
    /\ UNCHANGED <<clock, log, expireAt, now, recorded>>

(* The first pipeline: ZREMRANGEBYSCORE, ZCARD.                            *)
Check(r) ==
    /\ pc[r] = "check"
    /\ log' = InWindow(r)
    /\ IF Cardinality(InWindow(r)) < Limit
       THEN pc' = [pc EXCEPT ![r] = "record"] /\ UNCHANGED decision
       ELSE Decide(r, "rejected")
    /\ UNCHANGED <<clock, expireAt, now, recorded>>

(* ZADD key now[r], EXPIRE key (window + 1).                               *)
AddToLog(r) ==
    /\ log' = log \cup {r}
    /\ recorded' = recorded \cup {r}
    /\ expireAt' = clock + Window + 1

(* The second pipeline: the request is recorded and allowed.               *)
Record(r) ==
    /\ pc[r] = "record"
    /\ AddToLog(r)
    /\ Decide(r, "allowed")
    /\ UNCHANGED <<clock, now>>

(* A round trip fails, before or after Redis ran it: the request passes.   *)
FailOpen(r) ==
    /\ RedisFaults
    /\ \/ /\ pc[r] = "check"
          /\ log' \in {log, InWindow(r)}
          /\ UNCHANGED <<expireAt, recorded>>
       \/ /\ pc[r] = "record"
          /\ \/ AddToLog(r)
             \/ UNCHANGED <<log, expireAt, recorded>>
    /\ Decide(r, "failed_open")
    /\ UNCHANGED <<clock, now>>

(* Variant: the key lives two seconds less than the window it holds.       *)
Tick_ShortTTL ==
    /\ clock < MaxTime
    /\ \A r \in Pending : clock < now[r] + MaxLatency
    /\ clock' = clock + 1
    /\ log' = IF clock' + 2 >= expireAt THEN {} ELSE log
    /\ UNCHANGED <<expireAt, pc, now, decision, recorded>>

(* Time passes, but no evaluation takes longer than MaxLatency; Redis      *)
(* drops the key when its time has come.                                   *)
Tick ==
    /\ clock < MaxTime
    /\ \A r \in Pending : clock < now[r] + MaxLatency
    /\ clock' = clock + 1
    /\ log' = IF clock' >= expireAt THEN {} ELSE log
    /\ UNCHANGED <<expireAt, pc, now, decision, recorded>>

Next ==
    \/ \E r \in Requests : Start(r) \/ Check(r) \/ Record(r) \/ FailOpen(r)
    \/ Tick

Spec == Init /\ [][Next]_vars

-----------------------------------------------------------------------------
(* The allowed requests that came in within Window seconds from t.         *)
AllowedFrom(t) ==
    {r \in Requests : decision[r] = "allowed" /\ now[r] \in t..(t + Window - 1)}

(* How far the window can be overrun: by the requests that passed the check*)
(* together, by those that were still being evaluated, with an old clock   *)
(* reading, when a later request purged the window they belong to, and by  *)
(* one more if an evaluation may outlast the second the key lives longer   *)
(* than its window: it then finds the key gone.                            *)
Overrun == 2 * (MaxInFlight - 1) + (IF MaxLatency > 1 THEN 1 ELSE 0)

WindowOverrun == \A t \in 0..clock : Cardinality(AllowedFrom(t)) <= Limit + Overrun

(* Nobody is turned away without cause, whatever runs concurrently and     *)
(* fails: a rejected client has had Limit requests recorded in the window  *)
(* before it.                                                              *)
RejectionJustified ==
    \A r \in Requests : decision[r] = "rejected" =>
        Cardinality({q \in recorded : now[q] + Window > now[r]}) >= Limit

(* The sorted set of a client stays bounded: concurrent requests that all  *)
(* passed the check push it over the limit, but by less than their number. *)
LogBounded == Cardinality(log) <= Limit - 1 + MaxInFlight

=============================================================================
