------------------------ MODULE CircuitBreakerProofs ------------------------
(***************************************************************************)
(* What holds of CircuitBreaker for every number of concurrent calls and   *)
(* every threshold.                                                        *)
(***************************************************************************)
EXTENDS CircuitBreaker, TLAPS

USE BreakerAssumption

(* The history counters never run ahead of the code's own.                 *)
HistoryBounded ==
    /\ state = "HALF_OPEN" => probesPassed <= successCount
    /\ state = "CLOSED" => recentFailures <= failureCount

(* The code's counters run ahead of them only because of late results.     *)
CountersEarned ==
    /\ state = "HALF_OPEN" /\ late = {} => successCount <= probesPassed
    /\ state = "CLOSED" /\ late = {} => failureCount <= recentFailures

BreakerInv == TypeOK /\ ClosedBelowThreshold /\ HistoryBounded /\ CountersEarned

(* The thresholds are positive, so the breaker starts out closed soundly.  *)
LEMMA BreakerInit == Init => BreakerInv
  BY DEF Init, BreakerInv, TypeOK, ClosedBelowThreshold, HistoryBounded, CountersEarned

(* Every result that arrives, in whatever state, keeps the counters below  *)
(* what would have changed the state.                                      *)
LEMMA BreakerStep == BreakerInv /\ [Next]_vars => BreakerInv'
<1> SUFFICES ASSUME BreakerInv, [Next]_vars PROVE BreakerInv'
  OBVIOUS
<1> USE DEF BreakerInv, TypeOK, ClosedBelowThreshold, HistoryBounded, CountersEarned
<1>1. ASSUME NEW c \in Calls, HalfOpen(c) PROVE BreakerInv'
  BY <1>1 DEF HalfOpen
<1>2. ASSUME NEW c \in Calls, Admit(c) PROVE BreakerInv'
  BY <1>2 DEF Admit
<1>3. ASSUME NEW c \in Calls, OnSuccess(c) PROVE BreakerInv'
  <2>1. CASE state = "HALF_OPEN" /\ successCount + 1 < SuccessThreshold
    BY <1>3, <2>1 DEF OnSuccess, ProbeSucceeds, CountedUpTo
  <2>2. CASE state = "HALF_OPEN" /\ ~(successCount + 1 < SuccessThreshold)
    BY <1>3, <2>2 DEF OnSuccess, ProbeSucceeds, CountedUpTo
  <2>3. CASE state = "CLOSED"
    BY <1>3, <2>3 DEF OnSuccess
  <2>4. CASE state = "OPEN"
    BY <1>3, <2>4 DEF OnSuccess
  <2> QED
    BY <2>1, <2>2, <2>3, <2>4
<1>4. ASSUME NEW c \in Calls, OnFailure(c) PROVE BreakerInv'
  BY <1>4 DEF OnFailure, CountedUpTo, Trip
<1>5. ASSUME NEW c \in Calls, Cancelled(c) PROVE BreakerInv'
  BY <1>5 DEF Cancelled
<1>6. CASE Tick \/ UNCHANGED vars
  BY <1>6 DEF Tick, vars, history
<1> QED
  BY <1>1, <1>2, <1>3, <1>4, <1>5, <1>6 DEF Next

(* BreakerInv holds in every reachable state.                              *)
LEMMA BreakerInvariant == Spec => []BreakerInv
  BY BreakerInit, BreakerStep, PTL DEF Spec

(* The state of the breaker and its history keep their ranges.             *)
THEOREM BreakerTypeCorrect == Spec => []TypeOK
  BY BreakerInvariant, PTL DEF BreakerInv

(* The failure threshold is never jumped over, however many results arrive *)
(* at once and whatever was counted before the breaker closed.             *)
THEOREM ClosedStaysBelow == Spec => []ClosedBelowThreshold
  BY BreakerInvariant, PTL DEF BreakerInv

(* An open breaker shields the dependency for the whole cool-down, from    *)
(* new calls and from the results of old ones.                             *)
THEOREM OpenBreakerShields == Spec => OpenShields
<1> DEFINE Shielded == state = "OPEN" /\ age < Recovery =>
                          state' = "OPEN" /\ age' >= age /\ running' \subseteq running
<1>1. TypeOK /\ [Next]_vars => [Shielded]_vars
  <2> SUFFICES ASSUME TypeOK, Next, state = "OPEN", age < Recovery
               PROVE state' = "OPEN" /\ age' >= age /\ running' \subseteq running
    OBVIOUS
  <2>1. CASE \E c \in Calls : HalfOpen(c) \/ Admit(c)
    BY <2>1 DEF HalfOpen, Admit
  <2>2. CASE \E c \in Calls : OnSuccess(c) \/ OnFailure(c) \/ Cancelled(c)
    BY <2>2 DEF OnSuccess, OnFailure, Cancelled, TypeOK
  <2>3. CASE Tick
    BY <2>3 DEF Tick, TypeOK
  <2> QED
    BY <2>1, <2>2, <2>3 DEF Next
<1> QED
  BY <1>1, BreakerTypeCorrect, PTL DEF Spec, OpenShields

(* The breaker closes on the strength of SuccessThreshold probes, unless a *)
(* late result was counted among them.                                     *)
THEOREM ClosingIsEarned == Spec => ProbesClose
<1> DEFINE Earned == state = "HALF_OPEN" /\ state' = "CLOSED" /\ late' = {} =>
                        probesPassed' >= SuccessThreshold
<1>1. BreakerInv /\ [Next]_vars => [Earned]_vars
  <2> SUFFICES ASSUME BreakerInv, Next, state = "HALF_OPEN", state' = "CLOSED", late' = {}
               PROVE probesPassed' >= SuccessThreshold
    OBVIOUS
  <2>1. PICK c \in Calls : OnSuccess(c)
    BY DEF Next, HalfOpen, Admit, OnFailure, Trip, Cancelled, Tick, BreakerInv
  <2>2. c \in recent /\ late = {} /\ ~(successCount + 1 < SuccessThreshold)
    BY <2>1 DEF OnSuccess, ProbeSucceeds
  <2>3. probesPassed' = CountedUpTo(probesPassed, SuccessThreshold)
    BY <2>1, <2>2 DEF OnSuccess, ProbeSucceeds
  <2> QED
    BY <2>2, <2>3 DEF BreakerInv, TypeOK, CountersEarned, CountedUpTo
<1> QED
  BY <1>1, BreakerInvariant, PTL DEF Spec, ProbesClose

(* The closed breaker trips on FailureThreshold failures in a row of calls *)
(* begun since it closed, unless a late result was counted among them.     *)
THEOREM TrippingIsEarned == Spec => FailuresTrip
<1> DEFINE Earned == state = "CLOSED" /\ state' = "OPEN" /\ late' = {} =>
                        recentFailures' >= FailureThreshold
<1>1. BreakerInv /\ [Next]_vars => [Earned]_vars
  <2> SUFFICES ASSUME BreakerInv, Next, state = "CLOSED", state' = "OPEN", late' = {}
               PROVE recentFailures' >= FailureThreshold
    OBVIOUS
  <2>1. PICK c \in Calls : OnFailure(c)
    BY DEF Next, HalfOpen, Admit, OnSuccess, Cancelled, Tick, BreakerInv
  <2>2. c \in recent /\ late = {} /\ recentFailures' = recentFailures + 1
    BY <2>1 DEF OnFailure
  <2>3. /\ failureCount' \in Nat
        /\ failureCount' >= FailureThreshold /\ failureCount' <= failureCount + 1
    BY <2>1 DEF OnFailure, CountedUpTo, BreakerInv, TypeOK
  <2> QED
    BY <2>2, <2>3 DEF BreakerInv, TypeOK, CountersEarned
<1> QED
  BY <1>1, BreakerInvariant, PTL DEF Spec, FailuresTrip

=============================================================================
