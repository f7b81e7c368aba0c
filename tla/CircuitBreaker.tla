--------------------------- MODULE CircuitBreaker ---------------------------
(***************************************************************************)
(* app/middleware/circuit_breaker.py: a breaker shared by the coroutines   *)
(* of one process.  call() decides whether the function runs and awaits    *)
(* it; its result is reported when it arrives, whatever state the breaker  *)
(* has reached meanwhile.                                                  *)
(***************************************************************************)
EXTENDS Naturals

CONSTANTS
    Calls,              \* coroutines that call through the breaker, each
                        \* again and again
    FailureThreshold,   \* failure_threshold
    SuccessThreshold,   \* half_open_success_threshold
    Recovery            \* recovery_timeout, in ticks of the clock

ASSUME BreakerAssumption ==
    /\ FailureThreshold \in Nat \ {0}
    /\ SuccessThreshold \in Nat \ {0}
    /\ Recovery \in Nat

VARIABLES
    state,              \* CLOSED, OPEN or HALF_OPEN
    failureCount,       \* failure_count, see CountedUpTo
    successCount,       \* success_count
    age,                \* time since last_state_change, up to Recovery
    running,            \* the calls awaiting their function
    (* history *)
    recent,             \* those of them begun since the breaker closed, or
                        \* became half open, last
    probesPassed,       \* successes of recent calls while half open, up to
                        \* the threshold
    recentFailures,     \* failures of recent calls in a row while closed
    late                \* older calls whose results were counted as probes
                        \* passed, or as failures in a row, all the same

history == <<recent, probesPassed, recentFailures, late>>
vars == <<state, failureCount, successCount, age, running, history>>

TypeOK ==
    /\ state \in {"CLOSED", "OPEN", "HALF_OPEN"}
    /\ failureCount \in 0..FailureThreshold
    /\ successCount \in 0..(SuccessThreshold - 1)
    /\ age \in 0..Recovery
    /\ running \subseteq Calls
    /\ recent \subseteq running
    /\ probesPassed \in 0..SuccessThreshold
    /\ recentFailures \in 0..FailureThreshold
    /\ late \subseteq Calls

Init ==
    /\ state = "CLOSED"
    /\ failureCount = 0
    /\ successCount = 0
    /\ age = 0
    /\ running = {}
    /\ recent = {}
    /\ probesPassed = 0
    /\ recentFailures = 0
    /\ late = {}

(* Counting stops at the threshold: failure_count goes on growing while    *)
(* the breaker is not closed, but it is reset before it is compared again. *)
CountedUpTo(n, max) == IF n < max THEN n + 1 ELSE max

-----------------------------------------------------------------------------
(* Variant: success_count goes on from the last half-open period.          *)
HalfOpen_KeepCount(c) ==
    /\ state = "OPEN" /\ age = Recovery
    /\ c \notin running
    /\ state' = "HALF_OPEN"
    /\ running' = running \cup {c}
    /\ recent' = {c}
    /\ probesPassed' = 0
    /\ late' = {}
    /\ UNCHANGED <<failureCount, successCount, age, recentFailures>>

(* call() after the cool-down: the caller becomes the first probe.         *)
HalfOpen(c) ==
    /\ state = "OPEN" /\ age = Recovery
    /\ c \notin running
    /\ state' = "HALF_OPEN"
    /\ successCount' = 0
    /\ running' = running \cup {c}
    /\ recent' = {c}
    /\ probesPassed' = 0
    /\ late' = {}
    /\ UNCHANGED <<failureCount, age, recentFailures>>

(* Variant: every call made half open starts the count anew.               *)
Admit_RestartCount(c) ==
    /\ state # "OPEN"
    /\ c \notin running
    /\ successCount' = 0
    /\ running' = running \cup {c}
    /\ recent' = recent \cup {c}
    /\ UNCHANGED <<state, failureCount, age, probesPassed, recentFailures, late>>

(* call() while closed or half open; while open it raises, see OpenShields.*)
Admit(c) ==
    /\ state # "OPEN"
    /\ c \notin running
    /\ running' = running \cup {c}
    /\ recent' = recent \cup {c}
    /\ UNCHANGED <<state, failureCount, successCount, age, probesPassed, recentFailures, late>>

(* Variant: the failures that tripped the breaker stay counted.            *)
ProbeSucceeds_KeepFailures(c) ==
    /\ probesPassed' = IF c \in recent THEN CountedUpTo(probesPassed, SuccessThreshold)
                                       ELSE probesPassed
    /\ late' = late \cup ({c} \ recent)
    /\ UNCHANGED failureCount
    /\ IF successCount + 1 < SuccessThreshold
       THEN /\ successCount' = successCount + 1
            /\ recent' = recent \ {c}
            /\ UNCHANGED <<state, age, recentFailures>>
       ELSE /\ state' = "CLOSED"
            /\ successCount' = 0
            /\ age' = 0
            /\ recent' = {}
            /\ recentFailures' = 0

(* A probe succeeded: count it, and close when there were enough.          *)
ProbeSucceeds(c) ==
    /\ probesPassed' = IF c \in recent THEN CountedUpTo(probesPassed, SuccessThreshold)
                                       ELSE probesPassed
    /\ late' = late \cup ({c} \ recent)
    /\ IF successCount + 1 < SuccessThreshold
       THEN /\ successCount' = successCount + 1
            /\ recent' = recent \ {c}
            /\ UNCHANGED <<state, failureCount, age, recentFailures>>
       ELSE /\ state' = "CLOSED"
            /\ failureCount' = 0
            /\ successCount' = 0
            /\ age' = 0
            /\ recent' = {}
            /\ recentFailures' = 0

(* Variant: a success counts as a probe in any state.                      *)
OnSuccess_AnyState(c) ==
    /\ c \in running
    /\ running' = running \ {c}
    /\ ProbeSucceeds(c)

(* Variant: a success does not clear the failures counted.                 *)
OnSuccess_KeepFailures(c) ==
    /\ c \in running
    /\ running' = running \ {c}
    /\ IF state = "HALF_OPEN"
       THEN ProbeSucceeds(c)
       ELSE /\ recent' = recent \ {c}
            /\ recentFailures' = IF state = "CLOSED" THEN 0 ELSE recentFailures
            /\ late' = IF state = "CLOSED" THEN {} ELSE late
            /\ UNCHANGED <<state, failureCount, successCount, age, probesPassed>>

OnSuccess(c) ==
    /\ c \in running
    /\ running' = running \ {c}
    /\ \/ /\ state = "HALF_OPEN"
          /\ ProbeSucceeds(c)
       \/ /\ state = "CLOSED"
          /\ failureCount' = 0
          /\ recentFailures' = 0
          /\ late' = {}
          /\ recent' = recent \ {c}
          /\ UNCHANGED <<state, successCount, age, probesPassed>>
       \/ /\ state = "OPEN"
          /\ recent' = recent \ {c}
          /\ UNCHANGED <<state, failureCount, successCount, age, probesPassed, recentFailures, late>>

Trip == state' = "OPEN" /\ age' = 0 /\ recent' = {}

OnFailure(c) ==
    /\ c \in running
    /\ running' = running \ {c}
    /\ failureCount' = CountedUpTo(failureCount, FailureThreshold)
    /\ recentFailures' = IF c \in recent /\ state = "CLOSED" THEN recentFailures + 1
                                                             ELSE recentFailures
    /\ late' = IF state = "CLOSED" THEN late \cup ({c} \ recent) ELSE late
    /\ IF \/ state = "HALF_OPEN"
          \/ state = "CLOSED" /\ failureCount' >= FailureThreshold
       THEN Trip
       ELSE recent' = recent \ {c} /\ UNCHANGED <<state, age>>
    /\ UNCHANGED <<successCount, probesPassed>>

(* CancelledError is no Exception: neither handler runs.                   *)
Cancelled(c) ==
    /\ c \in running
    /\ running' = running \ {c}
    /\ recent' = recent \ {c}
    /\ UNCHANGED <<state, failureCount, successCount, age, probesPassed, recentFailures, late>>

(* Time passes; past Recovery it makes no difference any more.             *)
Tick ==
    /\ age < Recovery
    /\ age' = age + 1
    /\ UNCHANGED <<state, failureCount, successCount, running, history>>

Next ==
    \/ \E c \in Calls : HalfOpen(c) \/ Admit(c) \/ OnSuccess(c) \/ OnFailure(c) \/ Cancelled(c)
    \/ Tick

Spec == Init /\ [][Next]_vars

FairSpec == Spec /\ WF_vars(Tick)

-----------------------------------------------------------------------------
(* The closed breaker has counted fewer failures than trip it, so the next *)
(* failure never jumps over the threshold: what piled up while it was open *)
(* or half open is forgotten when it closes.                               *)
ClosedBelowThreshold == state = "CLOSED" => failureCount < FailureThreshold

(* While the breaker is open nothing calls the dependency before the       *)
(* cool-down that began with the last trip is over, and results of calls   *)
(* begun earlier, good or bad, neither close it nor restart the cool-down. *)
OpenShields ==
    [][state = "OPEN" /\ age < Recovery =>
          state' = "OPEN" /\ age' >= age /\ running' \subseteq running]_vars

(* The breaker closes because enough probes succeeded: calls begun after   *)
(* the last cool-down, and no count is carried over from an earlier one.   *)
(* Only a call begun before the breaker tripped that returns while it is   *)
(* half open can stand in for a probe.                                     *)
ProbesClose ==
    [][state = "HALF_OPEN" /\ state' = "CLOSED" /\ late' = {} =>
          probesPassed' >= SuccessThreshold]_vars

(* The closed breaker trips because enough calls begun since it closed     *)
(* failed in a row; only late failures of older calls can stand in.        *)
FailuresTrip ==
    [][state = "CLOSED" /\ state' = "OPEN" /\ late' = {} =>
          recentFailures' >= FailureThreshold]_vars

(* The breaker cannot get stuck: if calls stop failing and go on           *)
(* succeeding, it ends up closed.                                          *)
Recovers ==
    /\ <>[][~ \E c \in Calls : OnFailure(c)]_vars
    /\ []<><<\E c \in Calls : OnSuccess(c)>>_vars
    => <>[](state = "CLOSED")

=============================================================================
